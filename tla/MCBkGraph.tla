------------------------------ MODULE MCBkGraph ------------------------------
(***************************************************************************)
(* Small trees for BkGraph.  The callers of lib/bk build trees: each block *)
(* is pushed once, a subtable before its parent.  Sharing appears when     *)
(* bk_minimizeGraph merges equal subtrees, so the trees below repeat       *)
(* their payloads.                                                         *)
(***************************************************************************)
EXTENDS BkGraph

CONSTANTS
  Blocks,    \* the number of blocks of a bushy tree
  Payloads,  \* the integers a block may start with
  Depth,     \* the length of the chains of a level tree
  Chains     \* the number of chains of a level tree

\* A payload's cell: the larger the value, the wider the cell.
Datum(v) == [t |-> CASE v = 0 -> "b8" [] v = 1 -> "b16" [] v = 2 -> "b32", z |-> v]
Link(t, p) == [t |-> t, p |-> p]

\* A block with payload v and links to its children in order of their number.
Block(v, t, kids) ==
  <<Datum(v)>> \o [i \in 1..Cardinality(kids) |->
                     Link(t, CHOOSE k \in kids : Cardinality({j \in kids : j < k}) = i - 1)]

\* Every tree of n blocks with 16-bit links: parent[b] < b.
BushyTrees(n) ==
  {[b \in 1..n |-> Block(pay[b], "p16", {k \in 2..n : parent[k] = b})] :
     parent \in {f \in [2..n -> 1..(n - 1)] : \A k \in 2..n : f[k] < k},
     pay \in [1..n -> Payloads]}

\* A root with chains of equal length, each ending in a null pointer.  Chains
\* whose ends agree share them once merged, always at the same depth.
LevelTrees ==
  LET num(c, d) == 1 + (c - 1) * Depth + d
  IN {[b \in 1..num(Chains, Depth) |->
         IF b = 1 THEN <<Datum(0)>> \o [c \in 1..Chains |-> Link("p16", num(c, 1))]
         ELSE <<Datum(pay[b]),
                Link("p16", IF (b - 1) % Depth = 0 THEN Null ELSE b + 1)>>] :
       pay \in [2..num(Chains, Depth) -> Payloads]}

\* The lookup list with extension lookups: lookups, one extension subtable each,
\* and a 32-bit link to the blob that holds the subtable's bytes.
ExtensionTrees ==
  {[b \in 1..10 |->
      CASE b = 1 -> <<Datum(0), Link("p16", 2), Link("p16", 3), Link("p16", 4)>>
        [] b \in 2..4 -> <<Datum(lk[b]), Link("p16", b + 3)>>
        [] b \in 5..7 -> <<Datum(1), Link("p32", b + 3)>>
        [] OTHER -> <<Datum(blob[b]), Datum(2), Datum(2)>>] :
     lk \in [2..4 -> Payloads], blob \in [8..10 -> Payloads]}

MCHeaps == BushyTrees(Blocks) \union LevelTrees \union ExtensionTrees

=============================================================================
