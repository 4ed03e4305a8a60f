------------------------------- MODULE BkGraph -------------------------------
(***************************************************************************)
(* The block graph of lib/bk: the serializer behind GSUB, GPOS, GDEF, BASE,*)
(* cmap, COLR, CPAL and SVG.  A table is built as a tree of blocks whose   *)
(* cells are integers or pointers to other blocks.  bk_build_Block orders  *)
(* the blocks, merges the equal ones, lays them out, copies the blocks a   *)
(* 16-bit pointer cannot reach, and writes every pointer as an offset from *)
(* the start of the block that holds it.                                   *)
(*                                                                         *)
(* One action per function of the pipeline (bk_minimizeGraph and           *)
(* bk_untangleGraph loop: one action per iteration).  Block identities     *)
(* stand for the addresses; `entries' is bk_Graph.entries.  The hash of    *)
(* compareEntry is left out: it is a function of what compareblock         *)
(* compares, so it only skips comparisons that would fail.                 *)
(***************************************************************************)
EXTENDS BkCells, FiniteSets, SequencesExt, Functions, TLC

CONSTANTS
  MaxOffset16,    \* 0xFFFF in the code: the largest offset of a 16-bit pointer
  MaxPasses       \* 16 in the code: the limit of bk_untangleGraph's loop

ASSUME BkConstants == MaxOffset16 \in Nat /\ MaxPasses \in Nat \ {0}

\* What the tables build: no pointer is compact yet, and a block with a 16-bit
\* pointer to it has a cell (only a text or an array behind a 32-bit pointer, as in
\* SVG, meta, COLR and CPAL, may be empty).
ASSUME HeapsArePlain ==
  \A h \in Heaps : \A b \in DOMAIN h : \A i \in DOMAIN h[b] :
    LET c == h[b][i] IN
    IsLink(c) => c.t \in {"p16", "p32"} /\ (c.t = "p16" => h[c.p] # <<>>)

VARIABLES
  pc,        \* the function of the pipeline that runs next
  input,     \* the tree handed over, kept to state what the output must mean
  cells,     \* block -> its sequence of cells
  from,      \* block -> the block it was copied from in the last step, or itself
  matches,   \* the pairs of a block and the block of the input it stands for
  entries,   \* bk_Graph.entries, as the sequence of their blocks
  height,    \* block -> bk_Block._height
  black,     \* the blocks in state VISIT_BLACK: those that are laid out
  alias,     \* entry index -> bk_GraphNode.alias
  rear,      \* the loop variable of bk_minimizeGraph
  passes,    \* the loop variable of bk_untangleGraph
  tangled,   \* what the last try_untangle returned
  out        \* offset -> the cells written there, pointers as offsets
vars == <<pc, input, cells, from, matches, entries, height, black, alias, rear,
          passes, tangled, out>>

\* What the passes over the graph must keep, with the history variables that
\* state it.
Meaning == INSTANCE BlockMeaning WITH
  Heaps <- Heaps, Null <- Null, input <- input, cells <- cells, from <- from,
  matches <- matches

-----------------------------------------------------------------------------
\* The loop of a search over the cells q of a block: visit[p] for every pointer of
\* these types, to a block p, from the state s of the search on.
ForEachLink(visit, types, s0, q) ==
  FoldLeft(LAMBDA s, c : IF IsLink(c) /\ c.t \in types THEN visit[c.p][s] ELSE s, s0, q)

\* dfs_insert_cells, the order: blocks in the order in which the search
\* finishes them.
Finished(h) ==
  LET visit[b \in DOMAIN h] == [seen \in Seq(DOMAIN h) |->
        IF Contains(seen, b) THEN seen
        ELSE Append(ForEachLink(visit, PtrTypes, seen, h[b]), b)]
  IN visit[Root][<<>>]

\* dfs_insert_cells, the height: the longest path below a block.
Heights(h) ==
  LET ht[b \in DOMAIN h] == Max({0} \union {ht[p] + 1 : p \in Targets(h[b])})
  IN ht

\* qsort with a strict total order.
SortedBlocks(S, Before(_, _)) ==
  [i \in 1..Cardinality(S) |->
     CHOOSE b \in S : Cardinality({c \in S : Before(c, b)}) = i - 1]

IndexOf(es, b) == CHOOSE i \in DOMAIN es : es[i] = b

\* bk_newGraphFromRootBlock sorted with _by_height.
ByHeight(h) ==
  LET fin == Finished(h)
      ht  == Heights(h)
  IN SortedBlocks(ToSet(fin),
       LAMBDA a, b : IF ht[a] = ht[b] THEN IndexOf(fin, a) < IndexOf(fin, b)
                                      ELSE ht[a] > ht[b])

NewGraph ==
  /\ pc = "new"
  /\ entries' = ByHeight(cells)
  /\ height' = Heights(cells)
  /\ black' = ToSet(entries')
  /\ alias' = [i \in DOMAIN entries' |-> i]
  /\ rear' = Len(entries')
  /\ pc' \in {"minimize", "attract"}    \* bk_build_Block, bk_build_Block_noMinimize
  /\ UNCHANGED <<input, cells, from, matches, passes, tangled, out>>

-----------------------------------------------------------------------------
(* bk_minimizeGraph: one level of equal heights per iteration. *)

\* The scan that moves `front' back to the first entry of rear's height.
LevelFront(r) ==
  1 + CHOOSE f \in 1..(r - 1) :
        /\ f = 1 \/ height[entries[f]] # height[entries[r]]
        /\ \A j \in (f + 1)..r : height[entries[j]] = height[entries[r]]

\* compareblock, after compareEntry found the hashes equal: pointers are compared
\* as addresses, so equal subtrees must have been merged before.
SameBlock(s, t) == s = t

\* The double loop: k becomes an alias of the first entry of the level with
\* the same cells.
LevelAlias(front) ==
  [k \in DOMAIN entries |->
     IF k \in front..rear
     THEN CHOOSE j \in front..k :
            /\ SameBlock(cells[entries[j]], cells[entries[k]])
            /\ \A i \in front..(j - 1) : ~SameBlock(cells[entries[i]], cells[entries[k]])
     ELSE alias[k]]

\* replaceptr: pointers to aliased blocks are moved to the block they alias.
Redirect_Forgotten(h, al, b) == h[b]
Redirect(h, al, b) ==
  [i \in DOMAIN h[b] |->
     IF IsLink(h[b][i])
     THEN [h[b][i] EXCEPT !.p = entries[al[IndexOf(entries, h[b][i].p)]]]
     ELSE h[b][i]]

MinimizeLevel ==
  /\ pc = "minimize"
  /\ rear > 1
  /\ LET front == LevelFront(rear) IN
       /\ alias' = LevelAlias(front)
       /\ cells' = [b \in DOMAIN cells |->
                      IF \E j \in 1..(front - 1) : entries[j] = b
                      THEN Redirect(cells, alias', b) ELSE cells[b]]
       /\ rear' = front - 1
  /\ UNCHANGED from
  /\ matches' = Meaning!Compose(Meaning!StandsFor, matches)
  /\ UNCHANGED <<pc, input, entries, height, black, passes, tangled, out>>

MinimizeDone ==
  /\ pc = "minimize"
  /\ rear = 1
  /\ pc' = "attract"
  /\ UNCHANGED <<input, cells, from, matches, entries, height, black, alias, rear, passes,
                 tangled, out>>

-----------------------------------------------------------------------------
(* attract_bkgraph: a depth for every block the root still reaches, then a *)
(* sort by depth.                                                          *)

\* The state of the search over the blocks B: the blocks seen, each one's depth
\* and the number of its last visit, and how many visits there were.
Search(B) == [seen : SUBSET B, depth : [B -> Nat], order : [B -> Nat], n : Nat]

Numbered(st, b) == [st EXCEPT !.n = @ + 1, !.order = [@ EXCEPT ![b] = st.n + 1]]
Deepened(st, b, d) == [st EXCEPT !.depth = [@ EXCEPT ![b] = d]]

\* escalate_sppointers: what b's compact pointers lead to is laid out at b's
\* depth.
Escalated(h, st0, b0, d) ==
  LET esc[b \in DOMAIN h] == [st \in Search(DOMAIN h) |->
        LET below == ForEachLink(esc, SpPtr, st, h[b])
        IN Deepened(Numbered(below, b), b, d)]
  IN esc[b0][st0]

\* dfs_attract_cells: the last cell first; a block seen before only has its
\* own depth raised.
Attracted(h, root) ==
  LET att[b \in DOMAIN h] == [d \in Nat |-> [st \in Search(DOMAIN h) |->
        IF b \in st.seen
        THEN IF st.depth[b] < d THEN Deepened(st, b, d) ELSE st
        ELSE LET below == ForEachLink([p \in DOMAIN h |-> att[p][d + 1]], PtrTypes,
                                      [st EXCEPT !.seen = @ \union {b}], Reverse(h[b]))
             IN Escalated(h, Numbered(below, b), b, d)]]
      zero == [b \in DOMAIN h |-> 0]
  IN att[root][0][[seen |-> {}, depth |-> zero, order |-> zero, n |-> 0]]

\* _by_order.  Blocks no longer reached tie; qsort leaves them last in any order.
FirstInOrder(st, a, b) ==
  IF (a \in st.seen) # (b \in st.seen) THEN a \in st.seen
  ELSE IF st.depth[a] # st.depth[b] THEN st.depth[a] < st.depth[b]
  ELSE IF st.order[a] # st.order[b] THEN st.order[a] > st.order[b]
  ELSE a < b

ByOrder(h, es) ==
  LET st == Attracted(h, es[1])
  IN SortedBlocks(ToSet(es), LAMBDA a, b : FirstInOrder(st, a, b))

\* The test of bk_untangleGraph's loop.
MorePasses_OffByOne == passes <= MaxPasses
MorePasses == passes < MaxPasses

Attract ==
  /\ pc = "attract"
  /\ entries' = ByOrder(cells, entries)
  /\ black' = Attracted(cells, entries[1]).seen
  /\ pc' = IF MorePasses THEN "untangle" ELSE "build"
  /\ UNCHANGED <<input, cells, from, matches, height, alias, rear, passes, tangled, out>>

-----------------------------------------------------------------------------
(* Layout.  Blocks the last search did not reach take no room.             *)

SizeOf(s) == FoldLeft(LAMBDA n, c : n + CellSize(c), 0, s)

\* The prefix sums `offsets' of try_untangle and bk_build_Graph.
Offsets(h, es, seen) ==
  LET at[j \in DOMAIN es] ==
        IF j = 1 THEN 0
        ELSE at[j - 1] + (IF es[j - 1] \in seen THEN SizeOf(h[es[j - 1]]) ELSE 0)
  IN [b \in ToSet(es) |-> at[IndexOf(es, b)]]

\* A 16-bit pointer of block b that cannot hold the distance to its target.
Unfit_OffByOne(c, b, off) ==
  /\ c.t \in Ptr16 /\ c.p # Null
  /\ off[c.p] - off[b] \notin 0..(MaxOffset16 + 1)
Unfit(c, b, off) ==
  /\ c.t \in Ptr16 /\ c.p # Null
  /\ off[c.p] - off[b] \notin 0..MaxOffset16

\* bk_new_Block(bkcopy, ...): the cells of the block, pointers shared.
CopyOf_DropsLast(s) == SubSeq(s, 1, Len(s) - 1)
CopyOf(s) == s

\* One cell of try_untabgle_block.  The accumulator g holds the heap, the entries
\* and the origins of the copies made so far.
UntangleCell(g, b, i, off) ==
  LET c == g.cells[b][i]
      copy == Len(g.cells) + 1
  IN IF ~Unfit(c, b, off) THEN g
     ELSE [cells |-> Append([g.cells EXCEPT ![b][i] = [t |-> "sp16", p |-> copy]],
                            CopyOf(g.cells[c.p])),
           entries |-> Append(g.entries, copy),
           from |-> Append(g.from, g.from[c.p])]

\* try_untabgle_block, for a block that is laid out.
UntangleBlock(g, b, off) ==
  IF b \notin black THEN g
  ELSE FoldLeftDomain(LAMBDA g2, i : UntangleCell(g2, b, i, off), g, cells[b])

\* try_untangle: the cells of every block, against the offsets computed before the
\* first copy; the copies wait for the next pass.
Untangled(off) ==
  FoldLeft(LAMBDA g, b : UntangleBlock(g, b, off),
           [cells |-> cells, entries |-> entries, from |-> [b \in DOMAIN cells |-> b]],
           entries)

TryUntangle ==
  /\ pc = "untangle"
  /\ LET g == Untangled(Offsets(cells, entries, black)) IN
       /\ cells' = g.cells
       /\ entries' = g.entries
       /\ from' = g.from
       /\ tangled' = (g.entries # entries)
  /\ matches' = Meaning!Compose(Meaning!StandsFor, matches)
  /\ passes' = passes + 1
  /\ pc' = IF tangled' THEN "attract" ELSE "build"
  /\ UNCHANGED <<input, height, black, alias, rear, out>>

\* otfcc_build_bkblock, one cell of a block at offset o: bufwrite16b and
\* bufwrite32b keep the low bits of getoffset.
Written(c, o, off) ==
  IF c.t \notin PtrTypes THEN c
  ELSE LET width == IF c.t \in Ptr16 THEN "p16" ELSE "p32"
           base == MaxOffset16 + 1
       IN [t |-> width,
           z |-> IF c.p = Null THEN 0
                 ELSE (off[c.p] - o) % (IF width = "p16" THEN base ELSE base * base)]

\* Where cell i of a block starts, counted from the start of the block.
CellStart(s, i) == SizeOf(SubSeq(s, 1, i - 1))

Build ==
  /\ pc = "build"
  /\ LET off == Offsets(cells, entries, black)
         at  == UNION {{<<b, i>> : i \in DOMAIN cells[b]} : b \in black}
         pos(x) == off[x[1]] + CellStart(cells[x[1]], x[2])
     IN out' = [o \in {pos(x) : x \in at} |->
                  LET x == CHOOSE y \in at : pos(y) = o
                  IN Written(cells[x[1]][x[2]], off[x[1]], off)]
  /\ pc' = "done"
  /\ UNCHANGED <<input, cells, from, matches, entries, height, black, alias, rear, passes,
                 tangled>>

Done == pc = "done" /\ UNCHANGED vars

-----------------------------------------------------------------------------
Init ==
  /\ pc = "new"
  /\ input \in Heaps
  /\ cells = input
  /\ from = [b \in DOMAIN input |-> b]
  /\ matches = Meaning!Identity(DOMAIN input)
  /\ entries = <<>>
  /\ height = [b \in DOMAIN input |-> 0]
  /\ black = {}
  /\ alias = <<>>
  /\ rear = 0
  /\ passes = 0
  /\ tangled = FALSE
  /\ out = <<>>

Next == NewGraph \/ MinimizeLevel \/ MinimizeDone \/ Attract \/ TryUntangle \/ Build \/ Done

Spec == Init /\ [][Next]_vars

-----------------------------------------------------------------------------
GraphTypeOK ==
  /\ pc \in {"new", "minimize", "attract", "untangle", "build", "done"}
  /\ IsHeap(input)
  /\ IsHeap(cells) /\ DOMAIN input \subseteq DOMAIN cells
  /\ DOMAIN from = DOMAIN cells
  /\ ToSet(entries) \subseteq DOMAIN cells /\ black \subseteq DOMAIN cells
  /\ DOMAIN alias \subseteq DOMAIN entries
  /\ passes \in 0..MaxPasses /\ tangled \in BOOLEAN

(* Merging equal blocks, and copying the ones a 16-bit pointer cannot      *)
(* reach, never change what the root stands for: bk_minimizeGraph and      *)
(* bk_untangleGraph step through trees equal to the one handed over.       *)
MeaningKept == Meaning!Spec

(* bk_minimizeGraph is complete: afterwards no two different blocks that   *)
(* the root reaches have the same cells.                                   *)
MinimalAfterMinimize ==
  (pc = "attract" /\ passes = 0 /\ rear = 1) =>
    LET live == Attracted(cells, Root).seen
    IN \A a, b \in live : cells[a] = cells[b] => a = b

(* A reader of the finished table who starts at offset 0 and follows the   *)
(* offsets finds the tree handed over, unless the pass limit stopped       *)
(* bk_untangleGraph while pointers still did not fit.                      *)
OutputDecodes ==
  (pc = "done" /\ ~tangled) =>
    LET reads[x \in DOMAIN input] == [o \in Nat |->
          \A i \in DOMAIN input[x] :
            LET c == input[x][i]
                at == o + CellStart(input[x], i)
            IN /\ at \in DOMAIN out
               /\ IF IsLink(c) THEN /\ out[at].t = c.t
                                    /\ out[at].z > 0
                                    /\ reads[c.p][o + out[at].z]
                  ELSE out[at] = Written(c, 0, <<>>)]
    IN reads[Root][0]
=============================================================================
