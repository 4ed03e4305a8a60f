---------------------------- MODULE CffSubroutines ----------------------------
(***************************************************************************)
(* The Type 2 charstring subroutinizer of lib/libcff/subr.c.               *)
(*                                                                         *)
(* The charstrings of a font are appended, operator by operator, to the    *)
(* root rule of a graph; whenever two neighbouring symbols occur for a     *)
(* second time they become a rule, after SEQUITUR.  In the end the rules   *)
(* worth their calls become subroutines and the rest is inlined.           *)
(*                                                                         *)
(* The graph is what it is in C: nodes in doubly linked rings, one ring    *)
(* and guard to a rule, and an index from the digrams (and single long     *)
(* operators) to a node where each starts.  The functions of the file      *)
(* become operators from a graph to a graph; one action appends one node.  *)
(*                                                                         *)
(* Operators compare by their bytes, here by being the same model value.   *)
(***************************************************************************)
EXTENDS Integers, Sequences, FiniteSets, Functions, FiniteSetsExt, SequencesExt

CONSTANTS
  Operators,          \* operands and their operator, as one unit
  Endings,            \* the units that hold endchar
  Size,               \* unit -> its bytes
  SubrNesting,        \* type2_subr_nesting
  MaxSubrs,           \* type2_max_subrs
  MaxNodes            \* bound: the nodes appended

ASSUME EndingsAreOperators == Endings \subseteq Operators
ASSUME SizesAreBytes == Size \in [Operators -> Nat]
ASSUME BoundsAreNat == {SubrNesting, MaxSubrs, MaxNodes} \subseteq Nat

Nil == 0             \* NULL, for a node
None == -1           \* NULL, for a rule or a buffer
Root == 0            \* the root rule; the others are numbered from 1
LongUnit == 15       \* bytes beyond which a unit may be a rule on its own

VARIABLES
  graph,              \* the graph
  input,              \* what was appended: units, and "hard" between charstrings
  subroutinize,       \* doSubroutinize
  font                \* the charstrings and subroutines written, <<>> before
vars == <<graph, input, subroutinize, font>>

-----------------------------------------------------------------------------
(* The graph: its nodes, those given back, the guards and reference counts *)
(* of its rules and the diagramIndex; undefined is set when a node is used *)
(* after it was freed, and anything may follow.                            *)

Blank == [rule |-> None, text |-> None, hard |-> FALSE, guard |-> FALSE, last |-> FALSE,
          prev |-> Nil, next |-> Nil]

WithNode(g, node) == [g EXCEPT !.node = Append(@, node)]
Newest(g) == Len(g.node)

\* cff_new_Rule: the newest node is its guard.
WithRule(g) ==
  LET n == Len(g.node) + 1
      r == Len(g.guards)
  IN [WithNode(g, [Blank EXCEPT !.rule = r, !.guard = TRUE, !.prev = n, !.next = n])
        EXCEPT !.guards = Append(@, n), !.refcount = Append(@, 0)]

Guard(g, r) == g.guards[r + 1]
Refcount(g, r) == g.refcount[r + 1]
Called(g, r, delta) == [g EXCEPT !.refcount[r + 1] = @ + delta]
NextOf(g, n) == g.node[n].next
PrevOf(g, n) == g.node[n].prev

EmptyGraph ==
  WithRule([node |-> <<>>, freed |-> {}, guards |-> <<>>, refcount |-> <<>>,
            index |-> <<>>, undefined |-> FALSE])

-----------------------------------------------------------------------------
(* The index.  The first rule made has the uniqueIndex of the root, 0.     *)

UniqueIndex(r) == IF r = Root THEN 0 ELSE r - 1
Symbol(g, n) ==
  IF g.node[n].rule # None THEN <<"rule", UniqueIndex(g.node[n].rule)>>
  ELSE <<"text", g.node[n].text>>
Singlet(g, n) == <<Symbol(g, n)>>                        \* getSingletHashKey
Doublet(g, n) == <<Symbol(g, n), Symbol(g, NextOf(g, n))>> \* getDoubletHashKey

Indexed(g, key, n) == [g EXCEPT !.index = [k \in DOMAIN @ \union {key} |-> IF k = key THEN n ELSE @[k]]]
Solid(g, n) == ~g.node[n].guard /\ ~g.node[n].hard

\* addDoublet, addSinglet
AddDoublet(g, n) ==
  IF n # Nil /\ NextOf(g, n) # Nil /\ Solid(g, n) /\ Solid(g, NextOf(g, n))
  THEN Indexed(g, Doublet(g, n), n) ELSE g
AddSinglet(g, n) ==
  IF n # Nil /\ Solid(g, n) THEN Indexed(g, Singlet(g, n), n) ELSE g

\* unlinkNode takes out of the index what starts at a.
Unlink_KeepsDoublet(g, a) ==
  IF ~Solid(g, a) THEN g
  ELSE [g EXCEPT !.index = Restrict(@, {k \in DOMAIN @ : ~(@[k] = a /\ k = Singlet(g, a))})]
Unlink(g, a) ==
  IF ~Solid(g, a) THEN g
  ELSE [g EXCEPT !.index =
          Restrict(@, {k \in DOMAIN @ : ~(@[k] = a /\ k \in {Singlet(g, a), Doublet(g, a)})})]

-----------------------------------------------------------------------------
(* Linked lists. *)

\* identNode
Alike(g, m, n) ==
  /\ g.node[m].rule = g.node[n].rule
  /\ g.node[m].rule = None => g.node[m].text = g.node[n].text

\* A node in the middle of three that are alike.
Tripled(g, n) ==
  /\ PrevOf(g, n) # Nil /\ NextOf(g, n) # Nil
  /\ Alike(g, PrevOf(g, n), n) /\ Alike(g, n, NextOf(g, n))

\* joinNodes; where three neighbours are alike a digram that was shadowed is put back.
Restored(g, middle, start) == IF Tripled(g, middle) THEN AddDoublet(g, start) ELSE g
Linked(g, m, n) == [g EXCEPT !.node[m].next = n, !.node[n].prev = m]
Join(g, m, n) ==
  IF NextOf(g, m) = Nil THEN Linked(g, m, n)
  ELSE Linked(Restored(Restored(Unlink(g, m), n, n), m, PrevOf(g, m)), m, n)

\* xInsertNodeAfter
InsertAfter(g, m, n) == Join(Join(g, n, NextOf(g, m)), m, n)

\* delete_Node
Delete(g, n) ==
  [(IF g.node[n].rule # None THEN Called(g, g.node[n].rule, -1) ELSE g)
     EXCEPT !.freed = @ \union {n}]

\* removeNodeFromGraph
Dropped(g, n) == IF g.node[n].guard THEN g ELSE Delete(Unlink(g, n), n)
RemoveNode(g, n) == Dropped(Join(g, PrevOf(g, n), NextOf(g, n)), n)
RemoveAfter(g, prev) == RemoveNode(g, NextOf(g, prev))

\* copyNode, as the last node of rule r
CopyOf(g, n) ==
  [Blank EXCEPT !.rule = g.node[n].rule, !.text = g.node[n].text, !.last = g.node[n].last]
Counted(g, n) == IF g.node[n].rule # None THEN Called(g, g.node[n].rule, 1) ELSE g
NewestLast(g, r) == InsertAfter(g, PrevOf(g, Guard(g, r)), Newest(g))
WithCopy_Uncounted(g, r, n) == NewestLast(WithNode(g, CopyOf(g, n)), r)
WithCopy(g, r, n) == NewestLast(WithNode(Counted(g, n), CopyOf(g, n)), r)

\* A call of rule r after node prev, put into the index.
CallIndexed(g, prev, call) == AddSinglet(AddDoublet(AddDoublet(g, prev), call), call)
NewestAfter(g, prev) == CallIndexed(InsertAfter(g, prev, Newest(g)), prev, Newest(g))
WithCall(g, prev, r) == NewestAfter(WithNode(Called(g, r, 1), [Blank EXCEPT !.rule = r]), prev)

\* expandCall: the body of the rule that n calls takes the place of n.
ExpandCall(g, n) ==
  LET r == g.node[n].rule
      guard == Guard(g, r)
      first == NextOf(g, guard)
      end == PrevOf(g, guard)
      after == NextOf(g, n)
      moved == Join(Join(Unlink(g, n), PrevOf(g, n), first), end, after)
      stub == [AddDoublet(moved, end) EXCEPT !.node[guard].prev = guard, !.node[guard].next = guard]
  IN Delete(Called(stub, r, -1), n)

-----------------------------------------------------------------------------
(* Making and using rules.  CheckDoublet yields the graph and whether the  *)
(* digram was found.                                                       *)

RECURSIVE SubstituteDoublet(_, _, _), MatchDoublet(_, _, _), CheckDoublet(_, _)

\* substituteDoubletWithRule: what it is given may have been freed.
NextChecked(checked, prev) ==
  IF checked.hit THEN checked.graph
  ELSE CheckDoublet(checked.graph, NextOf(checked.graph, prev)).graph
SubstituteDoublet(g, m, r) ==
  IF m \in g.freed THEN [g EXCEPT !.undefined = TRUE]
  ELSE LET prev == PrevOf(g, m)
       IN NextChecked(CheckDoublet(WithCall(RemoveAfter(RemoveAfter(g, prev), prev), prev, r), prev), prev)

\* The end of processMatchDoublet: a rule that its first symbol alone calls goes.
Shrink_Shared(g, r) ==
  LET first == NextOf(g, Guard(g, r))
  IN IF g.node[first].rule # None /\ ~g.node[first].guard THEN ExpandCall(g, first) ELSE g
Shrink(g, r) ==
  LET first == NextOf(g, Guard(g, r))
      inner == g.node[first].rule
  IN IF inner # None /\ Refcount(g, inner) = 1 THEN ExpandCall(g, first) ELSE g

\* processMatchDoublet
WholeRule(g, m) == g.node[PrevOf(g, m)].guard /\ g.node[NextOf(g, NextOf(g, m))].guard
Settled(g, r) == IF g.undefined THEN g ELSE Shrink(g, r)
RuleIndexed(g, r) ==
  LET first == NextOf(g, Guard(g, r))
  IN IF g.undefined THEN g
     ELSE AddSinglet(AddSinglet(AddDoublet(g, first), first), NextOf(g, first))

MatchDoublet(g, m, n) ==
  IF WholeRule(g, m)
  THEN LET r == g.node[PrevOf(g, m)].rule IN Settled(SubstituteDoublet(g, n, r), r)
  ELSE LET r == Len(g.guards)
           both == SubstituteDoublet(
                     SubstituteDoublet(WithCopy(WithCopy(WithRule(g), r, m), r, NextOf(g, m)), m, r), n, r)
       IN Settled(RuleIndexed(both, r), r)

\* checkDoubletMatch: nothing asks whether the two digrams overlap.
CheckDoublet(g, n) ==
  IF g.undefined \/ ~Solid(g, n) \/ ~Solid(g, NextOf(g, n)) THEN [graph |-> g, hit |-> FALSE]
  ELSE LET key == Doublet(g, n)
       IN IF key \notin DOMAIN g.index THEN [graph |-> Indexed(g, key, n), hit |-> FALSE]
          ELSE LET start == g.index[key]
               IN IF start # n /\ ~g.node[start].guard /\ ~g.node[NextOf(g, start)].guard
                  THEN [graph |-> MatchDoublet(g, start, n), hit |-> TRUE]
                  ELSE [graph |-> g, hit |-> TRUE]

\* substituteSingletWithRule, processMatchSinglet, checkSingletMatch
SubstituteSinglet(g, m, r) == WithCall(RemoveNode(g, m), PrevOf(g, m), r)

FirstIndexed(g, r) == AddSinglet(g, NextOf(g, Guard(g, r)))
MatchSinglet(g, m, n) ==
  IF g.node[PrevOf(g, m)].guard /\ g.node[NextOf(g, m)].guard
  THEN SubstituteSinglet(g, n, g.node[PrevOf(g, m)].rule)
  ELSE LET r == Len(g.guards)
       IN FirstIndexed(SubstituteSinglet(SubstituteSinglet(WithCopy(WithRule(g), r, m), m, r), n, r), r)

CheckSinglet(g, n) ==
  IF ~Solid(g, n) THEN g
  ELSE LET key == Singlet(g, n)
       IN IF key \notin DOMAIN g.index THEN Indexed(g, key, n)
          ELSE IF g.index[key] # n /\ ~g.node[g.index[key]].guard
               THEN MatchSinglet(g, g.index[key], n) ELSE g

\* appendNodeToGraph; the node is already the root's last.
LongChecked(checked, n) ==
  LET node == checked.graph.node[n]
  IN IF checked.hit \/ node.hard \/ Size[node.text] <= LongUnit THEN checked.graph
     ELSE CheckSinglet(checked.graph, n)
Grown(g, last) ==
  IF subroutinize THEN LongChecked(CheckDoublet(g, last), Newest(g)) ELSE g
AppendNode(g, node) == Grown(NewestLast(WithNode(g, node), Root), PrevOf(g, Guard(g, Root)))

-----------------------------------------------------------------------------
(* What a rule stands for. *)

RECURSIVE NodesFrom(_, _)
NodesFrom(g, n) == IF g.node[n].guard THEN <<>> ELSE <<n>> \o NodesFrom(g, NextOf(g, n))

\* The nodes of rule r in order.
Body(g, r) == NodesFrom(g, NextOf(g, Guard(g, r)))

\* The rules that rule r calls, and those the root reaches.
Callees(g, r) == {g.node[n].rule : n \in Range(Body(g, r))} \ {None}

RECURSIVE ReachedFrom(_, _)
ReachedFrom(g, rules) ==
  LET more == rules \union UNION {Callees(g, r) : r \in rules}
  IN IF more = rules THEN rules ELSE ReachedFrom(g, more)
Reached(g) == ReachedFrom(g, {Root})

RECURSIVE Expansion(_, _)
Expansion(g, r) ==
  FlattenSeq([k \in 1..Len(Body(g, r)) |->
                LET n == g.node[Body(g, r)[k]]
                IN IF n.rule # None THEN Expansion(g, n.rule)
                   ELSE IF n.hard THEN <<"hard">> ELSE <<n.text>>])

-----------------------------------------------------------------------------
(* cff_ilGraphToBuffers *)

\* cff_statHeight: the longest way from the root, and the bytes with inner calls
\* counted as 4.
Height_AsFirstMet(g, r) == IF r = Root THEN 0 ELSE IF r \in Callees(g, Root) THEN 1 ELSE 2
RECURSIVE Height(_, _)
Height(g, r) ==
  IF r = Root THEN 0
  ELSE Max({Height(g, caller) + 1 : caller \in {c \in Reached(g) : r \in Callees(g, c)}})

EffectiveLength(g, r) ==
  FoldLeft(LAMBDA sum, n : sum + (IF g.node[n].rule # None THEN 4 ELSE Size[g.node[n].text]),
           0, Body(g, r))

\* numberASubroutine: the gain is unsigned, a loss is a large one; only 0 is refused.
WorthACall(g, r) == (EffectiveLength(g, r) - 4) * (Refcount(g, r) - 1) - 4 # 0
Numberable(g, r) == Height(g, r) < SubrNesting /\ WorthACall(g, r)

\* numbers: the rules numbered so far, in order.
RECURSIVE NumberAll(_, _, _)
NumberAll(g, numbers, nodes) ==
  IF nodes = <<>> THEN numbers
  ELSE LET r == g.node[Head(nodes)].rule
       IN IF r = None \/ r \in Range(numbers) THEN NumberAll(g, numbers, Tail(nodes))
          ELSE IF ~Numberable(g, r) THEN NumberAll(g, numbers, Tail(nodes))
          ELSE NumberAll(g, NumberAll(g, Append(numbers, r), Body(g, r)), Tail(nodes))

\* Half of what may be numbered is local, the rest global.
Totals(count) ==
  LET locals == Min({count, MaxSubrs})
      globals == Min({count - locals, MaxSubrs})
  IN locals + globals
Locals(count) == Totals(count) \div 2
Globals(count) == Totals(count) - Locals(count)

Call_Unshifted(numbers, r) ==
  LET number == CHOOSE k \in 0..(Len(numbers) - 1) : numbers[k + 1] = r
  IN <<IF number < Locals(Len(numbers)) THEN "callsubr" ELSE "callgsubr", number>>
Call(numbers, r) ==
  LET number == CHOOSE k \in 0..(Len(numbers) - 1) : numbers[k + 1] = r
      locals == Locals(Len(numbers))
  IN IF number < locals THEN <<"callsubr", number>> ELSE <<"callgsubr", number - locals>>

Callable(g, numbers, r) ==
  r \in Range(SubSeq(numbers, 1, Totals(Len(numbers)))) /\ Height(g, r) < SubrNesting

\* serializeNodeToBuffer, of a sequence of nodes
RECURSIVE Code(_, _, _)
Code(g, numbers, nodes) ==
  FlattenSeq([k \in 1..Len(nodes) |->
                LET n == g.node[nodes[k]]
                IN IF n.rule = None THEN IF n.hard THEN <<>> ELSE <<<<"unit", n.text>>>>
                   ELSE IF Callable(g, numbers, n.rule) THEN <<Call(numbers, n.rule)>>
                   ELSE Code(g, numbers, Body(g, n.rule))])

RECURSIVE EndsWithEndChar(_, _)
EndsWithEndChar(g, r) ==
  LET n == g.node[Last(Body(g, r))]
  IN IF n.rule = None THEN n.last ELSE EndsWithEndChar(g, n.rule)

SubrCode(g, numbers, r) ==
  Code(g, numbers, Body(g, r)) \o (IF EndsWithEndChar(g, r) THEN <<>> ELSE <<<<"return", 0>>>>)

\* The root's nodes, one sequence for each charstring.
RECURSIVE SplitAtHard(_, _)
SplitAtHard(g, nodes) ==
  IF \A k \in 1..Len(nodes) : ~g.node[nodes[k]].hard THEN <<>>
  ELSE LET end == Min({k \in 1..Len(nodes) : g.node[nodes[k]].hard})
       IN <<SubSeq(nodes, 1, end)>> \o SplitAtHard(g, SubSeq(nodes, end + 1, Len(nodes)))

Written(g) ==
  LET root == Body(g, Root)
      numbers == NumberAll(g, <<>>, root)
      locals == Locals(Len(numbers))
      strings == SplitAtHard(g, root)
  IN [strings |-> [k \in 1..Len(strings) |-> Code(g, numbers, strings[k])],
      lsubrs |-> [k \in 1..locals |-> SubrCode(g, numbers, numbers[k])],
      gsubrs |-> [k \in 1..Globals(Len(numbers)) |-> SubrCode(g, numbers, numbers[locals + k])]]

-----------------------------------------------------------------------------
Init ==
  /\ graph = EmptyGraph /\ input = <<>> /\ font = <<>>
  /\ subroutinize \in BOOLEAN

\* cff_insertILToGraph: the units of a charstring, whose last holds endchar, and a
\* node that keeps charstrings apart.
AppendUnit(t) ==
  /\ font = <<>> /\ ~graph.undefined /\ Len(input) < MaxNodes
  /\ input # <<>> => Last(input) \notin Endings
  /\ graph' = AppendNode(graph, [Blank EXCEPT !.text = t, !.last = t \in Endings])
  /\ input' = Append(input, t)
  /\ UNCHANGED <<subroutinize, font>>

EndCharString ==
  /\ font = <<>> /\ ~graph.undefined /\ Len(input) < MaxNodes
  /\ input # <<>> /\ Last(input) \in Endings
  /\ graph' = AppendNode(graph, [Blank EXCEPT !.hard = TRUE])
  /\ input' = Append(input, "hard")
  /\ UNCHANGED <<subroutinize, font>>

ToBuffers ==
  /\ font = <<>> /\ ~graph.undefined
  /\ input # <<>> /\ Last(input) = "hard"
  /\ font' = Written(graph)
  /\ UNCHANGED <<graph, input, subroutinize>>

Next == (\E t \in Operators : AppendUnit(t)) \/ EndCharString \/ ToBuffers

Spec == Init /\ [][Next]_vars

-----------------------------------------------------------------------------
(* How cff_parseOutline reads a charstring: it calls, and a "return" ends. *)

Calls == {"callsubr", "callgsubr"}

\* The subroutine called, nothing when there is none of that number.
Subr(f, call) ==
  LET subrs == IF call[1] = "callsubr" THEN f.lsubrs ELSE f.gsubrs
  IN IF call[2] < Len(subrs) THEN subrs[call[2] + 1] ELSE <<>>

RECURSIVE Run(_, _)
Run(f, code) ==
  IF code = <<>> \/ Head(code)[1] = "return" THEN <<>>
  ELSE LET op == Head(code)
       IN (IF op[1] \in Calls THEN Run(f, Subr(f, op)) ELSE <<op[2]>>) \o Run(f, Tail(code))

RECURSIVE CallDepth(_, _)
CallDepth(f, code) ==
  Max({0} \union {1 + CallDepth(f, Subr(f, op)) : op \in {op \in Range(code) : op[1] \in Calls}})

-----------------------------------------------------------------------------
Live(g) == {n \in 1..Len(g.node) : n \notin g.freed}

(* The graph is a grammar of what was appended: writing out the root and   *)
(* every rule it calls gives the charstrings back, at every moment, unless *)
(* a freed node was used.                                                  *)
GrammarYieldsInput == ~graph.undefined => Expansion(graph, Root) = input

(* The reference count of a rule in use is the number of its calls, which  *)
(* is what decides whether a rule goes and whether it is worth a number.   *)
CallsCounted ==
  ~graph.undefined =>
    \A r \in Reached(graph) \ {Root} :
      Refcount(graph, r) =
        Cardinality({n \in Live(graph) : graph.node[n].rule = r /\ ~graph.node[n].guard})

(* The index never leads to a node that was freed, nor to one where        *)
(* something else than the key starts.                                     *)
IndexIsLive ==
  ~graph.undefined =>
    \A key \in DOMAIN graph.index :
      LET n == graph.index[key]
      IN n \in Live(graph) /\ Solid(graph, n) /\ key \in {Singlet(graph, n), Doublet(graph, n)}

(* What is written reads as what was put in: each charstring, through      *)
(* every subroutine it calls.                                              *)
SubroutinesKeepText ==
  font # <<>> =>
    FlattenSeq([k \in 1..Len(font.strings) |-> Append(Run(font, font.strings[k]), "hard")]) = input

(* A charstring and the subroutines it leads to are never more levels than *)
(* type2_subr_nesting, and there are no more subroutines than type 2 has   *)
(* numbers for.                                                            *)
NestingBounded ==
  font # <<>> =>
    /\ \A k \in 1..Len(font.strings) : CallDepth(font, font.strings[k]) < SubrNesting
    /\ Len(font.lsubrs) <= MaxSubrs /\ Len(font.gsubrs) <= MaxSubrs
===============================================================================
