----------------------------- MODULE FlowGraph -----------------------------
(***************************************************************************)
(* The control flow graph of a Function and what is computed from it:      *)
(* ControlFlowGraph (src/analysis/controlflow.cpp), the depth first        *)
(* orders of src/analysis/walker.h, and Dominance                          *)
(* (src/analysis/dominance.cpp), as compiled for x86_64.                   *)
(*                                                                         *)
(* A Function's body is a function from block numbers 0..n-1 to the        *)
(* instruction that ends the block, a record                               *)
(*   op      "jmp", "jcc" or "callq" (ControlFlowInstruction), "ijmp"      *)
(*           (IndirectJumpInstruction), "ret" (ReturnInstruction), "break" *)
(*           (BreakInstruction) or "other"                                 *)
(*   to      the blocks of the Function it may jump to: the target of a    *)
(*           jump, the distinct targets of a jump table, << >> otherwise   *)
(*   callee  the Function it calls or jumps to, or None.                   *)
(* A Block that is linked as such belongs to the Function (the assertion   *)
(* at controlflow.cpp:108); a linked Instruction may belong to another.    *)
(* A graph is a function from block numbers to sequences of successors.    *)
(***************************************************************************)
EXTENDS Integers, SequencesExt

CONSTANT None

Blocks(body) == DOMAIN body

-----------------------------------------------------------------------------
(* ControlFlowGraph                                                        *)

\* does control go on behind block b?  marks: the blocks whose instruction is
\* known not to return
FallsThrough(body, marks, b) ==
  \/ body[b].op \in {"jcc", "other"}
  \/ body[b].op = "callq" /\ b \notin marks

\* the jump's links come first; a fall-through out of the last block gives none
construct(body, marks) ==
  [b \in Blocks(body) |->
     body[b].to \o
     IF FallsThrough(body, marks, b) /\ b + 1 \in Blocks(body)
     THEN << b + 1 >> ELSE << >>]

\* the links in the other direction, in the order in which they are made
backwardLinks(graph, b) ==
  FlattenSeq([i \in 1..Cardinality(DOMAIN graph) |->
                [k \in 1..Len(SelectSeq(graph[i - 1], LAMBDA n : n = b))
                   |-> i - 1]])

-----------------------------------------------------------------------------
(* DFSWalkerBase with its collectors.  One walk yields the preorder, the   *)
(* postorder and the strongly connected components.                        *)

NewWalk(graph) ==
  [seen |-> {}, pre |-> << >>, post |-> << >>,
   discovery |-> [b \in DOMAIN graph |-> 0],
   lowLink |-> [b \in DOMAIN graph |-> 0],
   stack |-> << >>, poStack |-> << >>, sccs |-> << >>]

preVisit(w, b) ==
  LET disc == Cardinality(w.seen)
  IN  [w EXCEPT !.seen = @ \cup {b}, !.pre = Append(@, b),
                !.discovery[b] = disc, !.lowLink[b] = disc,
                !.stack = Append(@, b)]

lateVisit(w, b, n) ==
  IF Contains(w.stack, n)
  THEN [w EXCEPT !.lowLink[b] = Min({@, w.discovery[n]})]
  ELSE w

\* the components are finished last to first, and each is reversed
postVisit(graph, w, b) ==
  LET below == {n \in ToSet(graph[b]) : w.discovery[b] < w.discovery[n]}
      low == Min({w.lowLink[n] : n \in below \cup {b}})
      popped == [w EXCEPT !.post = Append(@, b), !.lowLink[b] = low,
                          !.poStack = Append(@, b)]
      at == Len(SelectSeq(w.stack, LAMBDA n : w.discovery[n] < w.discovery[b]))
      rest == Len(popped.poStack) - (Len(w.stack) - at)
  IN  IF low # w.discovery[b]
      THEN popped
      ELSE [popped EXCEPT
              !.stack = SubSeq(@, 1, at),
              !.poStack = SubSeq(@, 1, rest),
              !.sccs = << Reverse(SubSeq(popped.poStack, rest + 1,
                                         Len(popped.poStack))) >> \o @]

RECURSIVE walkHelper(_, _, _)
walkHelper(graph, w, b) ==
  postVisit(graph,
            FoldLeft(LAMBDA v, n : IF n \in v.seen THEN lateVisit(v, b, n)
                                                   ELSE walkHelper(graph, v, n),
                     preVisit(w, b), graph[b]),
            b)

walk(graph, b) == walkHelper(graph, NewWalk(graph), b)

walkAll(graph) ==
  FoldLeft(LAMBDA w, b : IF b \in w.seen THEN w ELSE walkHelper(graph, w, b),
           NewWalk(graph), [i \in 1..Cardinality(DOMAIN graph) |-> i - 1])

Preorder(graph) == walk(graph, 0).pre

ReversePostorder(graph) == Reverse(walk(graph, 0).post)

SccOrder(graph) == walkAll(graph).sccs

-----------------------------------------------------------------------------
(* Dominance                                                               *)

RECURSIVE Climb(_, _, _, _)
Climb(idoms, idMap, finger, limit) ==
  IF idoms[finger] # -1 /\ idMap[finger] > limit
  THEN Climb(idoms, idMap, idoms[finger], limit)
  ELSE finger

\* one finger only moves
IntersectAtFirst(idoms, idMap, i1, i2) == Climb(idoms, idMap, i1, idMap[i2])

RECURSIVE intersect(_, _, _, _)
intersect(idoms, idMap, i1, i2) ==
  IF i1 = i2 \/ idoms[i2] = -1
  THEN i1
  ELSE IF idoms[i1] = -1
       THEN i2
       ELSE LET finger1 == Climb(idoms, idMap, i1, idMap[i2])
                finger2 == Climb(idoms, idMap, i2, idMap[finger1])
            IN  intersect(idoms, idMap, finger1, finger2)

\* one more round of the while loop over all blocks in order
Improve(graph, order, idMap, idoms) ==
  LET Processed(ds, b) == SelectSeq(backwardLinks(graph, b),
                                LAMBDA n : ds[n] # -1)
      Idom(ds, preds) ==
        IF preds = << >> THEN -1
        ELSE FoldLeft(LAMBDA d, n : intersect(ds, idMap, n, d),
                      Head(preds), Tail(preds))
  IN  FoldLeft(LAMBDA ds, b : [ds EXCEPT ![b] = IF b = 0 THEN 0
                                                 ELSE Idom(ds, Processed(ds, b))],
               idoms, order)

RECURSIVE Settle(_, _, _, _)
Settle(graph, order, idMap, idoms) ==
  LET next == Improve(graph, order, idMap, idoms)
  IN  IF next = idoms THEN idoms ELSE Settle(graph, order, idMap, next)

\* the immediate dominators; -1 for a block that block 0 does not reach
Dominance(graph) ==
  LET order == ReversePostorder(graph)
      idMap == [b \in DOMAIN graph |->
                  IF Contains(order, b) THEN IndexFirstSubSeq(<< b >>, order)
                                        ELSE -1]
  IN  Settle(graph, order, idMap, [b \in DOMAIN graph |-> -1])

RECURSIVE getDominators(_, _)
getDominators(idoms, b) ==
  IF b = 0 THEN << 0 >> ELSE << b >> \o getDominators(idoms, idoms[b])

\* std::set_intersection, whose first argument the caller does not sort
RECURSIVE cap(_, _)
cap(v1, v2) ==
  IF v1 = << >> \/ v2 = << >> THEN << >>
  ELSE IF Head(v1) < Head(v2) THEN cap(Tail(v1), v2)
  ELSE IF Head(v2) < Head(v1) THEN cap(v1, Tail(v2))
  ELSE << Head(v1) >> \o cap(Tail(v1), Tail(v2))

\* getPostDominators(0): the blocks on the way to every exit
getPostDominators(graph) ==
  LET idoms == Dominance(graph)
      exits == SelectSeq(Preorder(graph), LAMBDA b : graph[b] = << >>)
  IN  IF exits = << >> THEN << >>
      ELSE FoldLeft(LAMBDA pdom, b :
                      cap(pdom, SortSeq(getDominators(idoms, b), <)),
                    getDominators(idoms, Head(exits)), Tail(exits))

-----------------------------------------------------------------------------
(* What the orders and the dominators are, by paths.                       *)

Edges(graph) == {<< a, b >> \in (DOMAIN graph) \X (DOMAIN graph) :
                   Contains(graph[a], b)}

\* the blocks that src reaches without entering a block of avoid
RECURSIVE ReachSet(_, _, _)
ReachSet(edges, from, avoid) ==
  LET next == from \cup {e[2] : e \in {x \in edges : x[1] \in from
                                                     /\ x[2] \notin avoid}}
  IN  IF next = from THEN from ELSE ReachSet(edges, next, avoid)

Reaches(graph, a, b) == b \in ReachSet(Edges(graph), {a}, {})

\* d is on every path from block 0 to b
Dominates(graph, d, b) ==
  d = 0 \/ d = b \/ b \notin ReachSet(Edges(graph), {0}, {d})

\* idoms holds, for every reachable block, its nearest proper dominator
IsImmediateDominators(graph, idoms) ==
  LET reached == ReachSet(Edges(graph), {0}, {})
  IN  \A b \in DOMAIN graph :
        IF b \notin reached THEN idoms[b] = -1
        ELSE IF b = 0 THEN idoms[0] = 0
        ELSE /\ idoms[b] # b /\ Dominates(graph, idoms[b], b)
             /\ \A d \in reached \ {b} :
                  Dominates(graph, d, b) => Dominates(graph, d, idoms[b])

\* sccs lists the strongly connected components, successors last
IsSccOrder(graph, sccs) ==
  LET Index(b) == CHOOSE i \in DOMAIN sccs : Contains(sccs[i], b)
  IN  /\ \A b \in DOMAIN graph : \E i \in DOMAIN sccs : Contains(sccs[i], b)
      /\ Len(FlattenSeq(sccs)) = Cardinality(DOMAIN graph)
      /\ \A a, b \in DOMAIN graph :
           (Index(a) = Index(b)) <=> (Reaches(graph, a, b) /\ Reaches(graph, b, a))
      /\ \A e \in Edges(graph) : Index(e[1]) <= Index(e[2])
=============================================================================
