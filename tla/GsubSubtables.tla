---------------------------- MODULE GsubSubtables ----------------------------
(***************************************************************************)
(* The substitution subtables that are not chaining:                       *)
(* lib/table/otl/subtables/gsub-{single,multi,ligature,reverse}.c and      *)
(* lib/consolidate/otl/gsub-{single,multi,ligature,reverse}.c.  Each kind  *)
(* is parsed from JSON, consolidated, built into blocks, read from blocks  *)
(* and dumped to JSON again.  A JSON object is the sequence of its         *)
(* members.  Consolidation returns the subtable, or Null where the code    *)
(* returns that it is to be removed.                                       *)
(***************************************************************************)
EXTENDS OtlGlyphSets

IfAny(s) == IF s = <<>> THEN Null ELSE s

-----------------------------------------------------------------------------
(* Single: [from, to]. *)

ParseSingle(js) == SelectSeq(js, LAMBDA e : e.to # Junk)
DumpSingle(st) == Mapped(st, LAMBDA e : [from |-> NameOf(e.from), to |-> NameOf(e.to)])

\* The first mapping of a glyph stays.
ConsolidateSingle(st) ==
  LET known == SelectSeq(st, LAMBDA e : Known(e.from) /\ Known(e.to))
  IN IfAny(ByKey(Mapped(known, LAMBDA e : [from |-> Gid(e.from), to |-> Gid(e.to)]),
                 LAMBDA e : e.from))

\* Format 1 when all glyphs move by one difference that fits; the feature `vert'
\* is written in formats old readers know.
BuildSingle(st, vert) ==
  LET cov == BuildCoverageFormat(Mapped(st, LAMBDA e : e.from), IF vert THEN 1 ELSE 0)
      differences == {e.to - e.from : e \in ToSet(st)}
      constant == Cardinality(differences) = 1 /\ differences \subseteq (-32767)..32767
  IN IF constant /\ ~vert
     THEN <<W(1), P(cov), W(st[1].to - st[1].from)>>
     ELSE <<W(2), P(cov), W(Len(st))>> \o Words(Mapped(st, LAMBDA e : e.to))

ReadSingle(b) ==
  LET from == ReadCoverage(Follow(b, 2))
      to == IF WordAt(b, 1) = 1 THEN Mapped(from, LAMBDA g : (g + WordAt(b, 3)) % 65536)
            ELSE Cells(b, 4, 3 + WordAt(b, 3))
  IN IF from = <<>> \/ Len(to) # Len(from) THEN Null
     ELSE [k \in DOMAIN from |-> [from |-> from[k], to |-> to[k]]]

-----------------------------------------------------------------------------
(* Multiple and alternate: [from, to |-> coverage]. *)

ParseMulti(js) ==
  Mapped(SelectSeq(js, LAMBDA e : e.to # Junk), LAMBDA e : [e EXCEPT !.to = ParseCoverage(@)])
DumpMulti(st) == Mapped(st, LAMBDA e : [from |-> NameOf(e.from), to |-> DumpCoverage(e.to)])

ConsolidateMulti(st) ==
  LET known == SelectSeq(st, LAMBDA e : Known(e.from) /\ ShrinkCoverage(e.to, FALSE) # <<>>)
  IN IfAny(ByKey(Mapped(known, LAMBDA e : [from |-> Gid(e.from),
                                           to |-> ShrinkCoverage(e.to, FALSE)]),
                 LAMBDA e : e.from))

BuildMulti(st) ==
  <<W(1), P(BuildCoverage(Mapped(st, LAMBDA e : e.from))), W(Len(st))>>
    \o Mapped(st, LAMBDA e : P(Words(<<Len(e.to)>> \o e.to)))

ReadMulti(b) ==
  LET from == ReadCoverage(Follow(b, 2))
  IN IF WordAt(b, 3) # Len(from) THEN Null
     ELSE [k \in DOMAIN from |->
             LET s == Follow(b, 3 + k) IN [from |-> from[k], to |-> Cells(s, 2, 1 + WordAt(s, 1))]]

-----------------------------------------------------------------------------
(* Ligature: [from |-> coverage, to], in an array or, to |-> from, in an object. *)

ParseLigature(js) ==
  Mapped(SelectSeq(js, LAMBDA e : e.from # Junk /\ e.to # Junk),
         LAMBDA e : [e EXCEPT !.from = ParseCoverage(@)])
DumpLigature(st) == Mapped(st, LAMBDA e : [from |-> DumpCoverage(e.from), to |-> NameOf(e.to)])

\* An unknown component is left out of its ligature.
ConsolidateLigature(st) ==
  LET known == SelectSeq(st, LAMBDA e : Known(e.to) /\ ShrinkCoverage(e.from, FALSE) # <<>>)
  IN IfAny(Mapped(known, LAMBDA e : [from |-> ShrinkCoverage(e.from, FALSE), to |-> Gid(e.to)]))

\* One set for each first component, with its ligatures in their order.
LigatureSet(st, g) ==
  LET here == SelectSeq(st, LAMBDA e : e.from[1] = g)
  IN <<W(Len(here))>>
       \o Mapped(here, LAMBDA e : P(Words(<<e.to, Len(e.from)>> \o Tail(e.from))))

BuildLigature(st) ==
  LET starts == InOrderOf({e.from[1] : e \in ToSet(st)}, LAMBDA g : g)
  IN <<W(1), P(BuildCoverage(starts)), W(Len(starts))>>
       \o Mapped(starts, LAMBDA g : P(LigatureSet(st, g)))

ReadLigature(b) ==
  LET starts == ReadCoverage(Follow(b, 2))
      ligature(g, l) == [from |-> <<g>> \o Cells(l, 3, WordAt(l, 2) + 1), to |-> WordAt(l, 1)]
      set(j) == LET s == Follow(b, 3 + j)
                IN [k \in 1..WordAt(s, 1) |-> ligature(starts[j], Follow(s, 1 + k))]
  IN IF WordAt(b, 3) # Len(starts) THEN Null ELSE FlattenSeq([j \in DOMAIN starts |-> set(j)])

-----------------------------------------------------------------------------
(* Reverse chaining: [match |-> coverages, inputIndex, to |-> coverage]. *)

ParseReverse(js) ==
  IF js.match = Junk \/ js.to = Junk THEN Null
  ELSE [js EXCEPT !.match = Mapped(@, ParseCoverage), !.to = ParseCoverage(@)]
DumpReverse(st) ==
  [match |-> Mapped(st.match, DumpCoverage), inputIndex |-> st.inputIndex, to |-> DumpCoverage(st.to)]

\* consolidateCoverage alone: a glyph that is missing stays as glyph 0.
SettledCoverage(cov) == Mapped(cov, LAMBDA h : IF Known(h) THEN Gid(h) ELSE 0)

\* The mapping is as long as the shorter list; its first entry for a glyph stays.
ConsolidateReverse(st) ==
  LET match == Mapped(st.match, SettledCoverage)
      at == IF st.inputIndex >= Len(match) THEN Len(match) - 1 ELSE st.inputIndex
      to == SettledCoverage(st.to)
      from == match[at + 1]
      n == IF Len(from) <= Len(to) THEN Len(from) ELSE Len(to)
      map == ByKey([k \in 1..n |-> <<from[k], to[k]>>], LAMBDA e : e[1])
  IN [match |-> [match EXCEPT ![at + 1] = Mapped(map, LAMBDA e : e[1])], inputIndex |-> at,
      to |-> Mapped(map, LAMBDA e : e[2])]

BuildReverse(st) ==
  LET n == st.inputIndex
      match == ReverseBacktracks(st.match, n)
      coverages(first, last) == Mapped(SubSeq(match, first, last), LAMBDA c : P(BuildCoverage(c)))
  IN <<W(1)>> \o coverages(n + 1, n + 1) \o <<W(n)>> \o coverages(1, n)
       \o <<W(Len(match) - n - 1)>> \o coverages(n + 2, Len(match))
       \o Words(<<Len(st.to)>> \o st.to)

ReadReverse(b) ==
  LET back == WordAt(b, 3)
      forward == WordAt(b, 4 + back)
      coverage(i) == ReadCoverage(Follow(b, i))
      match == [j \in 1..back |-> coverage(3 + j)] \o <<coverage(2)>>
                 \o [j \in 1..forward |-> coverage(4 + back + j)]
      n == WordAt(b, 5 + back + forward)
  IN IF n # Len(match[back + 1]) THEN Null
     ELSE [match |-> ReverseBacktracks(match, back), inputIndex |-> back,
           to |-> Cells(b, 6 + back + forward, 5 + back + forward + n)]
=============================================================================
