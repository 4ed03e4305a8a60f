------------------------------ MODULE RoundTrip ------------------------------
(***************************************************************************)
(* The two programs, src/otfccbuild.c and src/otfccdump.c, run one after   *)
(* the other on one table: JSON is parsed, consolidated and written to a   *)
(* font, and the font is read, consolidated and dumped to JSON, again and  *)
(* again.  The table's own code is a parameter.  Each operation returns    *)
(* the table in its next form, or Null when the table is given up.         *)
(***************************************************************************)
EXTENDS SequencesExt, JsonValues

CONSTANTS
  Kinds, JsonOf(_),        \* the kinds of tables, and the JSON of each that a user may start from
  Parse(_, _), Consolidate(_, _), Build(_, _), Read(_, _), Dump(_, _),  \* of a kind and a table
  Meaning(_, _),           \* what a consolidated table says, as a set of facts
  Intended(_, _)           \* what the JSON of a table says

VARIABLES
  kind, source,   \* the table, and the JSON it started from
  form, content,  \* how far it has come, and what it is
  dumps           \* the dumps so far, without those equal to the one before

vars == <<kind, source, form, content, dumps>>

Forms == {"json", "parsed", "building", "file", "read", "dumping", "gone"}

Init ==
  /\ kind \in Kinds
  /\ source \in JsonOf(kind)
  /\ form = "json"
  /\ content = source
  /\ dumps = <<>>

\* The table goes on as t; without it the programs have nothing more to do.
GoesOn_Regardless(from, to, t) ==
  /\ form = from
  /\ form' = to
  /\ content' = t
  /\ UNCHANGED <<kind, source>>
GoesOn(from, to, t) ==
  /\ form = from
  /\ form' = IF t = Null THEN "gone" ELSE to
  /\ content' = t
  /\ UNCHANGED <<kind, source>>

ParseJson == GoesOn("json", "parsed", Parse(kind, content)) /\ UNCHANGED dumps
ConsolidateForFile == GoesOn("parsed", "building", Consolidate(kind, content)) /\ UNCHANGED dumps
WriteFile == GoesOn("building", "file", Build(kind, content)) /\ UNCHANGED dumps
ReadFile == GoesOn("file", "read", Read(kind, content)) /\ UNCHANGED dumps
ConsolidateForJson == GoesOn("read", "dumping", Consolidate(kind, content)) /\ UNCHANGED dumps
DumpJson ==
  /\ GoesOn("dumping", "json", Dump(kind, content))
  /\ dumps' = IF dumps # <<>> /\ content' = Last(dumps) THEN dumps ELSE Append(dumps, content')

Next ==
  \/ ParseJson
  \/ ConsolidateForFile
  \/ WriteFile
  \/ ReadFile
  \/ ConsolidateForJson
  \/ DumpJson

Spec == Init /\ [][Next]_vars

-----------------------------------------------------------------------------

TypeOK ==
  /\ kind \in Kinds
  /\ form \in Forms
  /\ (form = "gone") = (content = Null)

\* However often the table went through a font and back, it says in the font what
\* the JSON it started from says; a table that was given up had nothing to say.
MeaningKept ==
  /\ form \in {"building", "dumping"} => Meaning(kind, content) = Intended(kind, source)
  /\ form = "gone" => Intended(kind, source) = {}

\* Dumping what was built from a dump gives the same JSON: the first dump has settled
\* every choice that the writer, the reader and consolidation make, or, where a class
\* of marks went unused and the classes are numbered anew, the second has.
DumpsSettle == Len(dumps) <= 2
=============================================================================
