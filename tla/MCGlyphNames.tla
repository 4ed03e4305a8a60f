----------------------------- MODULE MCGlyphNames -----------------------------
(***************************************************************************)
(* Small fonts for GlyphNames, with every clash of names that the passes   *)
(* can meet: between glyphs, with `post', with the name of a character,    *)
(* with a "$$gid" name and with a suffixed one, of an earlier or a later   *)
(* glyph.                                                                  *)
(***************************************************************************)
EXTENDS GlyphNames

CONSTANT Length   \* the number of glyphs

X == Name("x", <<>>)
X2 == Name("x", <<2>>)
OwnNames ==
  {NoName, X, NotDef} \union UNION {{GidName(g), Suffixed(GidName(g), 2)} : g \in 1..(Length - 1)}

\* A post table may name fewer glyphs than there are, or more.
Posts == {<<>>,
          <<[gid |-> 0, name |-> X], [gid |-> 1, name |-> X]>>,
          <<[gid |-> 1, name |-> X2], [gid |-> Length, name |-> GidName(1)]>>}

\* In the order of the characters, which may share a glyph and show one that does
\* not exist.
Cmaps == {<<[unicode |-> 5, gid |-> Length - 1], [unicode |-> 7, gid |-> 1]>>,
          <<[unicode |-> 0, gid |-> 1], [unicode |-> 3, gid |-> 2],
            [unicode |-> 4, gid |-> Length], [unicode |-> 6, gid |-> 1]>>}

MCAglfn == [u \in {5} |-> X]

\* All outlines are alike, or none.
Hashes(alike) == [g \in 0..(Length - 1) |-> Name("hash", IF alike THEN <<>> ELSE <<g>>)]

MCFonts ==
  {[length |-> Length, own |-> own, hash |-> Hashes(blank), post |-> post, cmap |-> cmap,
    blank |-> blank] :
     own \in [0..(Length - 1) -> OwnNames], post \in Posts, cmap \in Cmaps, blank \in BOOLEAN}
===============================================================================
