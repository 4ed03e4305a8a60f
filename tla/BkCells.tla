-------------------------------- MODULE BkCells --------------------------------
(***************************************************************************)
(* The blocks of lib/bk/bkblock.h.  A block is a sequence of cells; a cell *)
(* is an integer of 8, 16 or 32 bits, or a pointer to a block that will be *)
(* written as an offset of 16 or 32 bits (sp16, sp32: marked as compact).  *)
(* A heap is the sequence of its blocks: a block's place is its address.   *)
(***************************************************************************)
EXTENDS Integers, Sequences

CONSTANTS
  Heaps,   \* the block trees a caller may hand to bk_build_Block
  Null     \* the null block pointer

Root == 1
Integer == {"b8", "b16", "b32"}
Ptr16 == {"p16", "sp16"}
SpPtr == {"sp16", "sp32"}
PtrTypes == {"p16", "p32", "sp16", "sp32"}

\* bk_cellIsPointer, with the null test that goes with it at every call.
IsLink(c) == c.t \in PtrTypes /\ c.p # Null

CellSize(c) == CASE c.t = "b8" -> 1
                 [] c.t \in {"b16", "p16", "sp16"} -> 2
                 [] c.t \in {"b32", "p32", "sp32"} -> 4

\* The blocks the cells of a block point to.
Targets(s) == {s[i].p : i \in {j \in DOMAIN s : IsLink(s[j])}}

\* The cells of a heap of the blocks B.
Cell(B) == [t : Integer, z : Nat] \union [t : PtrTypes, p : {Null} \union B]

IsHeap(h) == Root \in DOMAIN h /\ h \in Seq(Seq(Cell(DOMAIN h)))

\* A block is pushed into its parent when it is complete, so that nothing leads
\* back: blocks are numbered from the root down.
LeadsDown(h) == \A b \in DOMAIN h : \A p \in Targets(h[b]) : p > b

ASSUME HeapsAreClosed == \A h \in Heaps : IsHeap(h) /\ LeadsDown(h)
ASSUME NullIsNoBlock == Null \notin Nat
================================================================================
