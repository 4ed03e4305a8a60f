----------------------------- MODULE BlockMeaning -----------------------------
(***************************************************************************)
(* What lib/bk promises of every pass over a block graph, in any order and *)
(* for any layout: the graph that results stands for the tree handed over. *)
(*                                                                         *)
(* A rewriting step builds the next heap from the present one.  Every      *)
(* block is an old block or a copy of one (`from'), and every pointer      *)
(* moves only between blocks with equal cells.  bk_minimizeGraph takes     *)
(* such steps without copies, bk_untangleGraph with them.                  *)
(***************************************************************************)
EXTENDS BkCells

VARIABLES
  input,    \* the tree handed over
  cells,    \* block -> its sequence of cells
  from,     \* block -> the block it was copied from in the last step, or itself
  matches   \* the pairs of a block and the block of the input it stands for
vars == <<input, cells, from, matches>>

\* A pointer and its compact form are written the same way.
Wide(t) == CASE t = "sp16" -> "p16" [] t = "sp32" -> "p32" [] OTHER -> t

\* Two cells that are written alike, up to the blocks they point to.
SameCell(c, d) ==
  /\ Wide(c.t) = Wide(d.t)
  /\ IsLink(c) = IsLink(d)
  /\ ~IsLink(c) => c = d

Identity(S) == {r \in S \X S : r[1] = r[2]}

\* Relation R followed by relation T.
Compose(R, T) ==
  {<<p[1][1], p[2][2]>> : p \in {q \in R \X T : q[1][2] = q[2][1]}}

\* Two blocks of heaps g and h that agree but for the targets of their links,
\* and whose targets are related by R.
Alike(s, t, R) ==
  /\ DOMAIN s = DOMAIN t
  /\ \A i \in DOMAIN s :
       /\ SameCell(s[i], t[i])
       /\ IsLink(s[i]) => <<s[i].p, t[i].p>> \in R

\* The pairs of a block of the next heap and a block of this one whose cells the
\* first has, as itself or as a copy.
StandsFor ==
  {r \in (DOMAIN cells') \X (DOMAIN cells) : cells[from'[r[1]]] = cells[r[2]]}

\* A pointer may move from p to any q that stands for p.
Rewrite ==
  /\ from' \in [DOMAIN cells' -> DOMAIN cells]
  /\ from'[Root] = Root /\ Root \in DOMAIN cells'
  /\ \A b \in DOMAIN cells' : Alike(cells'[b], cells[from'[b]], StandsFor)
  /\ matches' = Compose(StandsFor, matches)
  /\ UNCHANGED input

Init ==
  /\ input \in Heaps
  /\ cells = input
  /\ from = [b \in DOMAIN input |-> b]
  /\ matches = Identity(DOMAIN input)

Spec == Init /\ [][Rewrite]_vars

(* What the heap means never changes: the pairs in `matches', the root with *)
(* the root of the input among them, have the same cells, pointer for       *)
(* pointer down to the leaves.  So a reader of the serialized graph finds   *)
(* the tree the caller built.                                               *)
MeaningPreserved ==
  /\ <<Root, Root>> \in matches
  /\ \A m \in matches : Alike(cells[m[1]], input[m[2]], matches)
=============================================================================
