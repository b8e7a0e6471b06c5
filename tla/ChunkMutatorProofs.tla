------------------------- MODULE ChunkMutatorProofs -------------------------
(***************************************************************************)
(* Proofs about ChunkMutator for any number of Blocks and Instructions.    *)
(* The argument: each method changes the links by exactly one of the       *)
(* pointer updates of ChunkTree (the lemmas named ...Tree), each of which  *)
(* keeps a good tree good (ChunkTreeProofs), provided that the chunks it   *)
(* is given are new and insertPoint is a child.  Inside the loops over a   *)
(* vector that proviso is LoopInv.                                         *)
(***************************************************************************)
EXTENDS ChunkMutator, ChunkTreeProofs

IsHeap(h) == h = [tree |-> h.tree, size |-> h.size, pos |-> h.pos]

\* The heap that actions hand to the operators is a heap with the state's tree.
LEMMA HeapTree == IsHeap(heap) /\ heap.tree = tree
BY DEF IsHeap, heap

\* Making a Position leaves the links alone.
LEMMA PositionTree ==
  ASSUME NEW h, IsHeap(h), NEW c, NEW x
  PROVE  IsHeap(MakePositionFor(h, c, x)) /\ MakePositionFor(h, c, x).tree = h.tree
<1>1. \A q : LET g == [h EXCEPT !.pos[x] = q]
             IN  IsHeap(g) /\ g.tree = h.tree
  BY DEF IsHeap
<1> QED
  BY <1>1 DEF MakePositionFor

\* Making sure that a chunk has a Position leaves the links alone.
LEMMA EnsureTree ==
  ASSUME NEW h, IsHeap(h), NEW c, NEW x
  PROVE  IsHeap(EnsurePosition(h, c, x)) /\ EnsurePosition(h, c, x).tree = h.tree
BY PositionTree DEF EnsurePosition

\* Adding to sizes and taking from them leaves the links alone.
LEMMA SizesTree ==
  ASSUME NEW h, IsHeap(h), NEW c, NEW n
  PROVE  /\ IsHeap(AddToSizes(h, c, n)) /\ AddToSizes(h, c, n).tree = h.tree
         /\ IsHeap(TakeFromSizes(h, c, n)) /\ TakeFromSizes(h, c, n).tree = h.tree
<1>1. \A f : LET g == [h EXCEPT !.size = f]
             IN  IsHeap(g) /\ g.tree = h.tree
  BY DEF IsHeap
<1> QED
  BY <1>1 DEF AddToSizes, TakeFromSizes

\* A heap with new links and Positions has those links.
LEMMA RelinkTree ==
  ASSUME NEW h, NEW t, NEW p
  PROVE  IsHeap(Relinked(h, t, p)) /\ Relinked(h, t, p).tree = t
BY DEF IsHeap, Relinked

\* The links after ChunkMutator::append are those of LinkAppend.
LEMMA AppendTree ==
  ASSUME NEW h, IsHeap(h), NEW c, NEW x
  PROVE  IsHeap(DoAppend(h, c, x)) /\ DoAppend(h, c, x).tree = LinkAppend(h.tree, c, x)
<1> DEFINE g == Relinked(h, LinkAppend(h.tree, c, x),
                          Follow(h.pos, x, GetLast(h.tree, c)))
<1>1. IsHeap(g) /\ g.tree = LinkAppend(h.tree, c, x)
  BY RelinkTree
<1>2. DoAppend(h, c, x) = AddToSizes(EnsurePosition(g, c, x), c, h.size[x])
  BY DEF DoAppend
<1> HIDE DEF g
<1> QED
  BY <1>1, <1>2, EnsureTree, SizesTree

\* The links after ChunkMutator::insertAfter are those of LinkInsertAfter.
LEMMA InsertAfterTree ==
  ASSUME NEW h, IsHeap(h), NEW c, NEW point, NEW x
  PROVE  /\ IsHeap(DoInsertAfter(h, c, point, x))
         /\ DoInsertAfter(h, c, point, x).tree = LinkInsertAfter(h.tree, c, point, x)
<1> DEFINE after == IF point = NULL THEN NULL ELSE h.tree.next[point]
           g == Relinked(h, LinkInsertAfter(h.tree, c, point, x),
                          Follow(Follow(h.pos, x, point), after, x))
           e == AddToSizes(EnsurePosition(g, c, x), c, h.size[x])
<1>1. IsHeap(g) /\ g.tree = LinkInsertAfter(h.tree, c, point, x)
  <2> HIDE DEF after
  <2> QED  BY RelinkTree
<1>2. DoInsertAfter(h, c, point, x) =
        IF after \in Blocks /\ h.tree.kids[after] # << >>
        THEN MakePositionFor(e, after, h.tree.kids[after][1]) ELSE e
  BY DEF DoInsertAfter
<1> HIDE DEF g
<1>3. IsHeap(e) /\ e.tree = LinkInsertAfter(h.tree, c, point, x)
  BY <1>1, EnsureTree, SizesTree
<1> HIDE DEF e, after
<1> QED
  BY <1>2, <1>3, PositionTree

\* The links after ChunkMutator::insertBefore are those of LinkInsertBefore.
LEMMA InsertBeforeTree ==
  ASSUME NEW h, IsHeap(h), NEW c, NEW point, NEW x
  PROVE  /\ IsHeap(DoInsertBefore(h, c, point, x))
         /\ DoInsertBefore(h, c, point, x).tree = LinkInsertBefore(h.tree, c, point, x)
<1> DEFINE before == h.tree.prev[point]
           g == Relinked(h, LinkInsertBefore(h.tree, c, point, x),
                          Follow(Follow(h.pos, x, before), point, x))
           e == EnsurePosition(g, c, x)
           m == [e EXCEPT !.pos[point] =
                   IF needsSpecialCaseFirst /\ before = NULL
                   THEN MakePosition(e, x, point, h.size[x]) ELSE @]
<1>1. IsHeap(g) /\ g.tree = LinkInsertBefore(h.tree, c, point, x)
  BY RelinkTree
<1>2. DoInsertBefore(h, c, point, x) = AddToSizes(m, c, h.size[x])
  BY DEF DoInsertBefore
<1> HIDE DEF g
<1>3. IsHeap(e) /\ e.tree = LinkInsertBefore(h.tree, c, point, x)
  BY <1>1, EnsureTree
<1> HIDE DEF e
<1>4. IsHeap(m) /\ m.tree = e.tree
  BY <1>3 DEF IsHeap
<1> HIDE DEF m
<1> QED
  BY <1>2, <1>3, <1>4, SizesTree

\* The links after ChunkMutator::remove are those of LinkRemove.
LEMMA RemoveTree ==
  ASSUME NEW h, IsHeap(h), NEW c, NEW x
  PROVE  DoRemove(h, c, x).tree = LinkRemove(h.tree, c, x)
<1> DEFINE g == Relinked(h, LinkRemove(h.tree, c, x),
                          Follow(h.pos, h.tree.next[x], h.tree.prev[x]))
<1>1. IsHeap(g) /\ g.tree = LinkRemove(h.tree, c, x)
  BY RelinkTree
<1>2. DoRemove(h, c, x) = TakeFromSizes(g, c, h.size[x])
  BY DEF DoRemove
<1> HIDE DEF g
<1> QED
  BY <1>1, <1>2, SizesTree

\* The links after ChunkMutator::removeLast are those of LinkRemoveLast.
LEMMA RemoveLastTree ==
  ASSUME NEW h, IsHeap(h), NEW c, NEW keep
  PROVE  DoRemoveLast(h, c, keep).tree = LinkRemoveLast(h.tree, c, keep)
<1> DEFINE g == [h EXCEPT !.tree = LinkRemoveLast(h.tree, c, keep)]
<1>1. IsHeap(g) /\ g.tree = LinkRemoveLast(h.tree, c, keep)
  BY DEF IsHeap
<1>2. \E n : DoRemoveLast(h, c, keep) = TakeFromSizes(g, c, n)
  BY DEF DoRemoveLast
<1> HIDE DEF g
<1> QED
  BY <1>1, <1>2, SizesTree

\* The links after ChunkMutator::splitBlockBefore: the tail is removed, moved
\* to the new Block, and the Block inserted after the old one.
LEMMA SplitTree ==
  ASSUME NEW h, IsHeap(h), NEW point, NEW b
  PROVE  LET block == h.tree.parent[point]
             keep  == IndexOf(h.tree, block, point) - 1
         IN  DoSplitBlock(h, point, b).tree =
               LinkInsertAfter(
                 LinkMoveTo(LinkRemoveLast(h.tree, block, keep), b,
                            SubSeq(h.tree.kids[block], keep + 1,
                                   Len(h.tree.kids[block]))),
                 Function, block, b)
<1> DEFINE block == h.tree.parent[point]
           keep == IndexOf(h.tree, block, point) - 1
           moving == SubSeq(h.tree.kids[block], keep + 1, Len(h.tree.kids[block]))
           made == [h EXCEPT !.pos[b] =
                      MakePosition(h, block, b, AddressOf(h)[point] - AddressOf(h)[Function])]
           taken == DoRemoveLast(made, block, keep)
<1>1. IsHeap(made) /\ made.tree = h.tree
  BY DEF IsHeap
<1>2. \E s, p : DoSplitBlock(h, point, b) =
        DoInsertAfter([tree |-> LinkMoveTo(taken.tree, b, moving), size |-> s, pos |-> p],
                      Function, block, b)
  BY DEF DoSplitBlock
<1> HIDE DEF made
<1>3. taken.tree = LinkRemoveLast(h.tree, block, keep)
  BY <1>1, RemoveLastTree
<1> HIDE DEF taken, moving
<1>4. PICK s, p : DoSplitBlock(h, point, b) =
        DoInsertAfter([tree |-> LinkMoveTo(taken.tree, b, moving), size |-> s, pos |-> p],
                      Function, block, b)
  BY <1>2
<1>5. DoSplitBlock(h, point, b).tree =
        LinkInsertAfter(LinkMoveTo(taken.tree, b, moving), Function, block, b)
  BY <1>4, InsertAfterTree DEF IsHeap
<1> QED
  BY <1>3, <1>5 DEF moving

-----------------------------------------------------------------------------
\* A tree without children is good.
LEMMA EmptyGood == GoodTree(EmptyTree)
BY DistinctChunks
   DEF GoodTree, EmptyTree, Trees, WellLinked, LinkedUnder, FreshAlone, Fresh

\* The inductive invariant holds of a freshly disassembled Function.
LEMMA InitInv == Init => MutatorInv
<1> SUFFICES ASSUME Init PROVE MutatorInv
  OBVIOUS
<1> DEFINE t0 == LinkAppend(EmptyTree, Function, InitialBlock)
<1>1. tree = LinkMoveTo(t0, InitialBlock, InitialCode)
  BY DEF Init
<1>2. InitialBlock \in Fresh(EmptyTree) \cap ChildType(Function)
  BY CodeAssumption, DistinctChunks
     DEF Fresh, EmptyTree, ChildType, Chunks, Containers
<1>3. GoodTree(t0)
  BY <1>2, EmptyGood, AppendGood DEF Grown, Containers
<1>4. t0.kids = [EmptyTree.kids EXCEPT ![Function] = Append(@, InitialBlock)]
  BY DEF LinkAppend
<1>5. t0.kids[Function] = <<InitialBlock>>
  BY <1>4 DEF EmptyTree, Containers
<1>6. \A b \in Blocks : t0.kids[b] = << >>
  BY <1>4, DistinctChunks DEF EmptyTree, Containers
<1>7. Loose(t0, InitialCode)
  BY <1>5, <1>6, CodeAssumption, DistinctChunks DEF Loose, Containers
<1>8. Distinct(InitialCode, Len(InitialCode))
  BY CodeAssumption DEF Distinct
<1> HIDE DEF t0
<1>9. GoodTree(tree)
  BY <1>1, <1>3, <1>6, <1>7, <1>8, CodeAssumption, MoveToGood
<1>10. /\ sem = [x \in Instrs |-> x] /\ owner = [x \in Instrs |-> x]
       /\ mut = NULL /\ todo = Idle /\ calls = 0
       /\ goal = Goal(InitialCode, NULL, NULL)
  BY DEF Init
<1> QED
  BY <1>9, <1>10, CodeAssumption
     DEF MutatorInv, TypeOK, GoodTree, LoopInv, OwnerInv, LandInv, Idle, Goal

\* A step outside the loops that leaves the semantics where they are.
Quiet ==
  /\ todo.kind = "idle" /\ todo' = todo
  /\ GoodTree(tree')
  /\ sem' = sem /\ owner' = owner
  /\ mut' \in Containers \cup {NULL}
  /\ calls' \in 0..MaxCalls
  /\ goal'.target \in Instrs \cup {NULL}
  /\ goal'.target # NULL => goal'.lands = sem[goal'.target]

\* A step that leaves links, semantics and loop alone keeps the invariant.
LEMMA QuietStep ==
  ASSUME MutatorInv, Quiet
  PROVE  MutatorInv'
<1>1. TypeOK'
  BY DEF MutatorInv, TypeOK, Quiet, GoodTree
<1>2. LoopInv' /\ OwnerInv' /\ LandInv'
  BY DEF MutatorInv, Quiet, LoopInv, OwnerInv, LandInv
<1> QED
  BY <1>1, <1>2 DEF MutatorInv, Quiet

\* While no mutator is alive no loop is under way.
LEMMA NoLoop ==
  ASSUME MutatorInv, mut = NULL
  PROVE  todo.kind = "idle"
BY DistinctChunks DEF MutatorInv, LoopInv, Chunks, Containers

\* Steps that change neither links nor code.
LEMMA SameLinks ==
  ASSUME MutatorInv, todo.kind = "idle", todo' = todo, tree' = tree, sem' = sem,
         owner' = owner, mut' \in Containers \cup {NULL}, calls' \in 0..MaxCalls,
         goal' = goal
  PROVE  MutatorInv'
<1>1. Quiet
  BY DEF MutatorInv, Quiet, LandInv
<1> QED
  BY <1>1, QuietStep

\* Calls that change the links from one good tree to another.
LEMMA OneCall ==
  ASSUME MutatorInv, Calling, GoodTree(tree'), UNCHANGED <<sem, owner, mut, todo>>,
         NEW code, NEW target \in Instrs \cup {NULL},
         goal' = Goal(code, target, IF target = NULL THEN NULL ELSE sem[target])
  PROVE  MutatorInv'
<1>1. calls' \in 0..MaxCalls
  BY CodeAssumption DEF Calling, MutatorInv, TypeOK
<1>2. mut' \in Containers \cup {NULL}
  BY DEF MutatorInv, TypeOK
<1>3. Quiet
  BY <1>1, <1>2 DEF Quiet, Calling, Idle, Goal
<1> QED
  BY <1>3, QuietStep

-----------------------------------------------------------------------------
\* The calls.

\* What the invariant says when a method is called.
LEMMA CallFacts ==
  ASSUME MutatorInv, Calling
  PROVE  /\ GoodTree(tree) /\ tree \in Trees /\ WellLinked(tree)
         /\ mut \in Containers /\ todo = Idle
         /\ IsHeap(heap) /\ heap.tree = tree
BY HeapTree DEF MutatorInv, TypeOK, Calling, GoodTree

\* append keeps the inductive invariant.
LEMMA AppendInv ==
  ASSUME MutatorInv, NEW x, append(x)
  PROVE  MutatorInv'
<1>1. Calling /\ x \in New
  BY DEF append
<1>2. tree' = LinkAppend(tree, mut, x)
  BY <1>1, CallFacts, AppendTree DEF append, Becomes
<1>3. GoodTree(tree')
  BY <1>1, <1>2, CallFacts, AppendGood DEF Grown, New
<1> QED
  BY <1>1, <1>3, OneCall DEF append

\* prepend keeps the inductive invariant.
LEMMA PrependInv ==
  ASSUME MutatorInv, NEW x, prepend(x)
  PROVE  MutatorInv'
<1>1. Calling /\ x \in New
  BY DEF prepend
<1>2. CASE tree.kids[mut] = << >>
  <2>1. tree' = LinkAppend(tree, mut, x)
    BY <1>1, <1>2, CallFacts, AppendTree DEF prepend, Becomes
  <2> QED
    BY <1>1, <2>1, CallFacts, AppendGood, OneCall DEF Grown, New, prepend
<1>3. CASE tree.kids[mut] # << >>
  <2> DEFINE first == tree.kids[mut][1]
  <2>1. tree' = LinkInsertBefore(tree, mut, first, x)
    BY <1>1, <1>3, CallFacts, InsertBeforeTree DEF prepend, Becomes
  <2>2. tree.kids[mut] \in Seq(Chunks)
    BY <1>1, CallFacts, TreeFacts
  <2>3. first \in Children(tree, mut)
    BY <1>3, <2>2 DEF Children
  <2> HIDE DEF first
  <2>4. GoodTree(tree')
    BY <1>1, <2>1, <2>3, CallFacts, InsertBeforeGood DEF Grown, New
  <2> QED
    BY <1>1, <2>4, OneCall DEF prepend
<1> QED
  BY <1>2, <1>3

\* insertAfter and insertBefore of a Block keep the inductive invariant.
LEMMA InsertBlockInv ==
  ASSUME MutatorInv, NEW point, NEW x,
         insertBlockAfter(point, x) \/ insertBlockBefore(point, x)
  PROVE  MutatorInv'
<1>1. Calling /\ x \in New /\ point \in Here
  BY DEF insertBlockAfter, insertBlockBefore
<1>2. CASE insertBlockAfter(point, x)
  <2>1. tree' = LinkInsertAfter(tree, mut, point, x)
    BY <1>1, <1>2, CallFacts, InsertAfterTree DEF insertBlockAfter, Becomes
  <2>2. GoodTree(tree')
    BY <1>1, <2>1, CallFacts, InsertAfterGood DEF Grown, New, Here
  <2> QED
    BY <1>1, <1>2, <2>2, OneCall DEF insertBlockAfter
<1>3. CASE insertBlockBefore(point, x)
  <2>1. tree' = LinkInsertBefore(tree, mut, point, x)
    BY <1>1, <1>3, CallFacts, InsertBeforeTree DEF insertBlockBefore, Becomes
  <2>2. GoodTree(tree')
    BY <1>1, <2>1, CallFacts, InsertBeforeGood DEF Grown, New, Here
  <2> QED
    BY <1>1, <1>3, <2>2, OneCall DEF insertBlockBefore
<1> QED
  BY <1>2, <1>3

\* remove keeps the inductive invariant.
LEMMA RemoveInv ==
  ASSUME MutatorInv, NEW x, remove(x)
  PROVE  MutatorInv'
<1>1. Calling /\ x \in Here
  BY DEF remove
<1>2. tree' = LinkRemove(tree, mut, x)
  BY <1>1, CallFacts, RemoveTree DEF remove, Becomes
<1>3. GoodTree(tree')
  BY <1>1, <1>2, CallFacts, RemoveGood DEF Here
<1> QED
  BY <1>1, <1>3, OneCall DEF remove

\* removeLast keeps the inductive invariant.
LEMMA RemoveLastInv ==
  ASSUME MutatorInv, removeLast
  PROVE  MutatorInv'
<1> DEFINE keep == Len(tree.kids[mut]) - 1
<1>1. Calling /\ tree.kids[mut] # << >>
  BY DEF removeLast
<1>2. tree' = LinkRemoveLast(tree, mut, keep)
  BY <1>1, CallFacts, RemoveLastTree DEF removeLast, Becomes
<1>3. tree.kids[mut] \in Seq(Chunks)
  BY <1>1, CallFacts, TreeFacts
<1>4. keep \in 0..Len(tree.kids[mut])
  BY <1>1, <1>3
<1> HIDE DEF keep
<1>5. GoodTree(tree')
  BY <1>1, <1>2, <1>4, CallFacts, RemoveLastGood
<1> QED
  BY <1>1, <1>5, OneCall DEF removeLast

\* splitBlockBefore keeps the inductive invariant.
LEMMA SplitInv ==
  ASSUME MutatorInv, NEW point \in Instrs, NEW b \in Blocks,
         splitBlockBefore(point, b)
  PROVE  MutatorInv'
<1> DEFINE block == tree.parent[point]
           keep == IndexOf(tree, block, point) - 1
<1>1. /\ Calling /\ mut = Function
      /\ b \in Fresh(tree) \cap Blocks /\ tree.kids[b] = << >>
      /\ block \in Children(tree, Function) /\ point \in Children(tree, block)
  BY DEF splitBlockBefore, Here
<1>2. tree' = LinkInsertAfter(
                LinkMoveTo(LinkRemoveLast(tree, block, keep), b,
                           SubSeq(tree.kids[block], keep + 1, Len(tree.kids[block]))),
                Function, block, b)
  <2>1. tree' = DoSplitBlock(heap, point, b).tree
    BY DEF splitBlockBefore, Becomes
  <2> QED
    BY <2>1, HeapTree, SplitTree
<1>3. block \in Containers
  BY <1>1, CallFacts, ChildPlace DEF ChildType, Containers
<1>4. tree.kids[block] \in Seq(Chunks)
  BY <1>1, <1>3, CallFacts, TreeFacts
<1>5. keep \in 0..Len(tree.kids[block])
  BY SMTT(40), <1>1, <1>4, IndexOfChild
<1> HIDE DEF keep, block
<1>6. GoodTree(tree')
  BY <1>1, <1>2, <1>5, CallFacts, SplitGood
<1>7. goal' = Goal(Stream(tree, sem), point, sem[point]) /\ point # NULL
  BY DistinctChunks DEF splitBlockBefore, Chunks
<1> QED
  BY <1>1, <1>6, <1>7, OneCall DEF splitBlockBefore

-----------------------------------------------------------------------------
\* The loops over a vector of Instructions.

\* The call that starts to insert a list keeps the inductive invariant.
LEMMA InsertListInv ==
  ASSUME MutatorInv, "after" \notin NullPoints,
         NEW kind \in {"after", "before", "jumpTo"},
         NEW point \in Instrs \cup {NULL}, NEW list \in Lists,
         insertList(kind, point, list)
  PROVE  MutatorInv'
<1>1. /\ Calling /\ mut \in Blocks
      /\ point \in Here \/ (point = NULL /\ NullPointTaken(kind, list))
      /\ list # << >> /\ ToSet(list) \subseteq New
      /\ \A i, j \in 1..Len(list) : list[i] = list[j] => i = j
      /\ todo' = [kind |-> kind, point |-> point, list |-> list]
      /\ UNCHANGED <<tree, size, pos, sem, owner, mut>>
  BY DEF insertList, Loop
<1>2. \E code : goal' = Goal(code, point,
                             IF point = NULL THEN NULL
                             ELSE IF kind = "jumpTo" THEN sem[list[1]]
                             ELSE sem[point])
  BY DEF insertList
<1>3. list \in Seq(Instrs)
  BY CodeAssumption DEF Lists, BoundedSeq
<1>4. TypeOK'
  <2>1. calls' \in 0..MaxCalls
    BY <1>1, CodeAssumption DEF Calling, MutatorInv, TypeOK
  <2> QED
    BY <1>1, <1>3, <2>1 DEF MutatorInv, TypeOK
<1>5. LoopInv'
  <2>1. \A i \in 1..Len(list) : list[i] \in Fresh(tree)
    BY <1>1, <1>3 DEF ToSet, New
  <2>2. kind = "after" /\ point = NULL => tree.kids[mut] = << >>
    BY <1>1, CallFacts, ChildPlace DEF NullPointTaken, Here
  <2> QED
    BY SMTT(40), <1>1, <2>1, <2>2 DEF LoopInv, Here
<1>6. OwnerInv' /\ LandInv'
  BY SMTT(40), <1>1, <1>2 DEF MutatorInv, OwnerInv, LandInv, Goal
<1> QED
  BY <1>1, <1>4, <1>5, <1>6 DEF MutatorInv

\* What an iteration can rely on, with x the Instruction that it inserts.
LEMMA LoopFacts ==
  ASSUME MutatorInv, todo.kind # "idle"
  PROVE  /\ GoodTree(tree) /\ mut \in Blocks /\ mut \in Containers
         /\ todo.list \in Seq(Instrs) /\ todo.list # << >>
         /\ Len(todo.list) \in Nat \ {0}
         /\ \A i \in 1..Len(todo.list) :
              todo.list[i] \in Instrs /\ todo.list[i] \in Fresh(tree) \cap ChildType(mut)
         /\ \A i, j \in 1..Len(todo.list) : todo.list[i] = todo.list[j] => i = j
         /\ todo.point \in Children(tree, mut) \cup {NULL}
         /\ todo.kind = "after" /\ todo.point = NULL => tree.kids[mut] = << >>
         /\ IsHeap(heap) /\ heap.tree = tree
<1>1. /\ GoodTree(tree) /\ mut \in Blocks /\ mut \in Containers
      /\ todo.list \in Seq(Instrs) /\ todo.list # << >>
      /\ \A i \in 1..Len(todo.list) : todo.list[i] \in Fresh(tree)
      /\ \A i, j \in 1..Len(todo.list) : todo.list[i] = todo.list[j] => i = j
      /\ todo.point \in Children(tree, mut) \cup {NULL}
      /\ todo.kind = "after" /\ todo.point = NULL => tree.kids[mut] = << >>
  BY DEF MutatorInv, TypeOK, LoopInv, Containers
<1>2. ChildType(mut) = Instrs
  BY <1>1, DistinctChunks DEF ChildType
<1> QED
  BY SMTT(40), <1>1, <1>2, HeapTree

\* Head and Tail by index.
LEMMA TailFacts ==
  ASSUME NEW S, NEW s \in Seq(S), s # << >>
  PROVE  /\ Tail(s) \in Seq(S) /\ Head(s) = s[1]
         /\ \A i \in 1..Len(Tail(s)) :
              Tail(s)[i] = s[i + 1] /\ i + 1 \in 1..Len(s) /\ i + 1 # 1
OBVIOUS

\* An iteration that inserts the first of the vector and keeps all semantics.
LEMMA HeadStep ==
  ASSUME MutatorInv, todo.kind \in {"after", "before"},
         Grown(tree, tree', mut, Head(todo.list)),
         NEW p, p = Head(todo.list) \/ (todo.kind = "before" /\ p = todo.point),
         todo' = Loop(todo.kind, p, Tail(todo.list)),
         UNCHANGED <<sem, owner, mut, goal, calls>>
  PROVE  MutatorInv'
<1> DEFINE s == todo.list
           x == Head(s)
           n == Len(s)
           r == Tail(s)
<1>1. /\ s \in Seq(Instrs) /\ s # << >> /\ n \in Nat \ {0} /\ x = s[1] /\ x \in Instrs
      /\ \A i \in 1..n : s[i] \in Fresh(tree)
      /\ \A i, j \in 1..n : s[i] = s[j] => i = j
      /\ todo.point \in Children(tree, mut) \cup {NULL}
      /\ mut \in Blocks
  <2>1. todo.kind # "idle"
    OBVIOUS
  <2>2. s \in Seq(Instrs) /\ s # << >> /\ n \in Nat \ {0}
    BY <2>1, LoopFacts
  <2>3. x = s[1] /\ x \in Instrs
    BY <2>2, TailFacts
  <2> HIDE DEF x
  <2> QED
    BY <2>1, <2>2, <2>3, LoopFacts
<1>2. /\ GoodTree(tree') /\ x \in Children(tree', mut)
      /\ Children(tree, mut) \subseteq Children(tree', mut)
      /\ Fresh(tree) \ {x} \subseteq Fresh(tree')
  BY DEF Grown
<1>3. /\ todo.kind \in {"idle", "after", "before", "jumpTo"}
      /\ todo.point \in Instrs \cup {NULL}
      /\ p \in Instrs \cup {NULL}
  BY <1>1 DEF MutatorInv, TypeOK
<1>4. /\ r \in Seq(Instrs)
      /\ \A i \in 1..Len(r) : r[i] = s[i + 1] /\ i + 1 \in 1..n /\ i + 1 # 1
  BY <1>1, TailFacts
<1>5. todo' = IF r = << >> THEN Idle
              ELSE [kind |-> todo.kind, point |-> p, list |-> r]
  BY DEF Loop
<1> HIDE DEF r
<1>6. TypeOK'
  <2>1. todo' \in [kind : {"idle", "after", "before", "jumpTo"},
                   point : Instrs \cup {NULL}, list : Seq(Instrs)]
    BY <1>3, <1>4, <1>5 DEF Idle
  <2> QED
    BY <1>2, <2>1 DEF MutatorInv, TypeOK, GoodTree
<1>7. LoopInv'
  <2>1. CASE r = << >>
    <3>1. todo'.kind = "idle"
      BY <2>1, <1>5 DEF Idle
    <3> QED
      BY <3>1 DEF LoopInv
  <2>2. CASE r # << >>
    <3>1. /\ todo'.kind = todo.kind /\ todo'.point = p /\ todo'.list = r
          /\ mut' = mut
      BY <1>5, <2>2
    <3>2. \A i \in 1..Len(r) : r[i] \in Fresh(tree')
      <4> SUFFICES ASSUME NEW i \in 1..Len(r) PROVE r[i] \in Fresh(tree')
        OBVIOUS
      <4>1. r[i] = s[i + 1] /\ i + 1 \in 1..n /\ i + 1 # 1
        BY ONLY <1>4
      <4>2. s[i + 1] \in Fresh(tree) /\ s[i + 1] # x
        BY ONLY <1>1, <4>1, 1 \in 1..n
      <4> QED
        BY ONLY <1>2, <4>1, <4>2
    <3>3. \A i, j \in 1..Len(r) : r[i] = r[j] => i = j
      BY <1>1, <1>4
    <3>4. p \in Children(tree', mut) \cup {NULL} /\ (todo.kind = "after" => p # NULL)
      BY <1>1, <1>2, DistinctChunks DEF Chunks
    <3> QED
      BY <1>1, <2>2, <3>1, <3>2, <3>3, <3>4 DEF LoopInv
  <2> QED
    BY <2>1, <2>2
<1>8. OwnerInv' /\ LandInv'
  BY SMTT(40), <1>5 DEF MutatorInv, OwnerInv, LandInv, Idle
<1> QED
  BY <1>2, <1>6, <1>7, <1>8 DEF MutatorInv

\* One turn of the loop in insertAfter keeps the inductive invariant.
LEMMA StepAfterInv ==
  ASSUME MutatorInv, stepAfter
  PROVE  MutatorInv'
<1> DEFINE x == Head(todo.list)
<1>1. todo.kind = "after" /\ todo.kind # "idle"
  BY DEF stepAfter
<1>2. x \in Fresh(tree) \cap ChildType(mut)
  BY <1>1, LoopFacts
<1>3. tree' = LinkInsertAfter(tree, mut, todo.point, x)
  <2>1. tree' = DoInsertAfter(heap, mut, todo.point, x).tree
    BY DEF stepAfter, Becomes
  <2> QED
    BY <2>1, HeapTree, InsertAfterTree
<1> HIDE DEF x
<1>4. Grown(tree, tree', mut, x)
  BY <1>1, <1>2, <1>3, LoopFacts, InsertAfterGood
<1>5. todo' = Loop(todo.kind, x, Tail(todo.list))
  BY DEF stepAfter, x
<1> QED
  BY <1>1, <1>4, <1>5, HeadStep DEF stepAfter, x

\* One turn of the loop in insertBefore keeps the inductive invariant.
LEMMA StepBeforeInv ==
  ASSUME MutatorInv, stepBefore
  PROVE  MutatorInv'
<1> DEFINE x == Head(todo.list)
<1>1. todo.kind = "before" /\ todo.kind # "idle"
  BY DEF stepBefore
<1>2. x \in Fresh(tree) \cap ChildType(mut)
  BY <1>1, LoopFacts
<1>3. tree' = IF todo.point = NULL THEN LinkAppend(tree, mut, x)
              ELSE LinkInsertBefore(tree, mut, todo.point, x)
  <2>1. tree' = (IF todo.point = NULL THEN DoAppend(heap, mut, x)
                 ELSE DoInsertBefore(heap, mut, todo.point, x)).tree
    BY DEF stepBefore, Becomes
  <2>2. IsHeap(heap) /\ heap.tree = tree
    BY HeapTree
  <2> QED
    BY <2>1, <2>2, InsertBeforeTree, AppendTree
<1> HIDE DEF x
<1>4. Grown(tree, tree', mut, x)
  BY <1>1, <1>2, <1>3, LoopFacts, InsertBeforeGood, AppendGood
<1>5. todo' = Loop(todo.kind, todo.point, Tail(todo.list))
  BY DEF stepBefore
<1> QED
  BY <1>1, <1>4, <1>5, HeadStep DEF stepBefore, x

\* Front by index.
LEMMA FrontFacts ==
  ASSUME NEW S, NEW s \in Seq(S), s # << >>
  PROVE  /\ Front(s) \in Seq(S)
         /\ Len(Front(s)) = Len(s) - 1
         /\ \A i \in 1..Len(Front(s)) :
              Front(s)[i] = s[i] /\ i \in 1..Len(s) /\ i # Len(s)
<1>1. PICK k \in Nat : k + 1 = Len(s) /\ k = Len(s) - 1
  BY Len(s) \in Nat, Len(s) # 0, Len(s) - 1 \in Nat
<1>2. /\ SubSeq(s, 1, k) \in Seq(S) /\ Len(SubSeq(s, 1, k)) = k
      /\ \A i \in 1..k : SubSeq(s, 1, k)[i] = s[i]
  BY <1>1
<1>3. Front(s) = SubSeq(s, 1, k)
  BY <1>1 DEF Front
<1>4. \A i \in 1..k : i \in 1..(k + 1) /\ i # k + 1
  OBVIOUS
<1>5. Front(s) \in Seq(S) /\ Len(Front(s)) = k
  BY <1>2, <1>3
<1>6. \A i \in 1..k : Front(s)[i] = s[i]
  BY <1>2, <1>3
<1> QED
  BY <1>1, <1>4, <1>5, <1>6

\* insertBeforeJumpTo, with its exchange of semantics, keeps the inductive
\* invariant.
LEMMA StepBeforeJumpToInv ==
  ASSUME MutatorInv, stepBeforeJumpTo
  PROVE  MutatorInv'
<1> DEFINE s == todo.list
           n == Len(s)
           x == s[n]
           p == todo.point
           r == Front(s)
<1>1. todo.kind = "jumpTo" /\ todo.kind # "idle"
  BY DEF stepBeforeJumpTo
<1>2. /\ s \in Seq(Instrs) /\ s # << >> /\ n \in Nat \ {0} /\ n \in 1..n
      /\ x \in Instrs /\ x \in Fresh(tree) \cap ChildType(mut)
      /\ \A i \in 1..n : s[i] \in Instrs /\ s[i] \in Fresh(tree)
      /\ \A i, j \in 1..n : s[i] = s[j] => i = j
      /\ p \in Children(tree, mut) \cup {NULL}
      /\ mut \in Blocks /\ mut \in Containers /\ GoodTree(tree)
      /\ IsHeap(heap) /\ heap.tree = tree
  <2>1. /\ s \in Seq(Instrs) /\ s # << >> /\ n \in Nat \ {0}
        /\ \A i \in 1..n : s[i] \in Instrs /\ s[i] \in Fresh(tree) \cap ChildType(mut)
        /\ \A i, j \in 1..n : s[i] = s[j] => i = j
        /\ p \in Children(tree, mut) \cup {NULL}
        /\ mut \in Blocks /\ mut \in Containers /\ GoodTree(tree)
        /\ IsHeap(heap) /\ heap.tree = tree
    BY <1>1, LoopFacts, Zenon
  <2>2. n \in 1..n
    BY ONLY <2>1
  <2> QED
    BY ONLY <2>1, <2>2
<1>3. /\ r \in Seq(Instrs) /\ Len(r) = n - 1
      /\ \A i \in 1..Len(r) : r[i] = s[i] /\ i \in 1..n /\ i # n
  BY <1>2, FrontFacts
<1>4. /\ todo' = IF r = << >> THEN Idle
                 ELSE [kind |-> todo.kind, point |-> p, list |-> r]
      /\ UNCHANGED <<mut, goal, calls>>
  BY DEF stepBeforeJumpTo, Loop
<1>5. p # NULL =>
        /\ p \in Children(tree, mut) /\ p \in Instrs /\ p # x
        /\ \A i \in 1..n : s[i] # p
  <2>1. WellLinked(tree) /\ tree \in Trees
    BY <1>2 DEF GoodTree
  <2>2. \A y \in Children(tree, mut) : y \notin Fresh(tree)
    BY <1>2, <2>1, ChildPlace
  <2> QED
    BY <1>2, <2>2 DEF MutatorInv, TypeOK
<1>6. p = NULL => tree' = LinkAppend(tree, mut, x) /\ sem' = sem /\ owner' = owner
  BY <1>2, AppendTree DEF stepBeforeJumpTo, Becomes
<1>7. p # NULL =>
        /\ tree' = LinkInsertAfter(tree, mut, p, x)
        /\ sem' = [sem EXCEPT ![p] = sem[x], ![x] = sem[p]]
        /\ owner' = [owner EXCEPT ![sem[p]] = x, ![sem[x]] = p]
  <2> DEFINE h == DoInsertAfter(heap, mut, p, x)
  <2>1. IsHeap(h) /\ h.tree = LinkInsertAfter(tree, mut, p, x)
    BY HeapTree, InsertAfterTree
  <2>2. p # NULL => \E z : tree' = [h EXCEPT !.size = z].tree
    BY DEF stepBeforeJumpTo, Becomes
  <2> HIDE DEF h
  <2>3. p # NULL => tree' = h.tree
    BY <2>1, <2>2 DEF IsHeap
  <2> QED
    BY <2>1, <2>3 DEF stepBeforeJumpTo
<1> HIDE DEF s, n, x, p, r
<1>8. Grown(tree, tree', mut, x)
  BY <1>2, <1>5, <1>6, <1>7, AppendGood, InsertAfterGood
<1>9. /\ GoodTree(tree') /\ x \in Children(tree', mut)
      /\ Children(tree, mut) \subseteq Children(tree', mut)
      /\ Fresh(tree) \ {x} \subseteq Fresh(tree')
  BY <1>8 DEF Grown
<1>10. sem \in [Instrs -> Instrs] /\ owner \in [Instrs -> Instrs] /\ OwnerInv
  BY DEF MutatorInv, TypeOK
<1>11. sem' \in [Instrs -> Instrs] /\ owner' \in [Instrs -> Instrs]
  BY <1>2, <1>5, <1>6, <1>7, <1>10
<1>12. TypeOK'
  BY <1>1, <1>2, <1>3, <1>4, <1>9, <1>11 DEF MutatorInv, TypeOK, GoodTree, Idle, p
<1>13. LoopInv'
  <2>1. CASE r = << >>
    <3>1. todo'.kind = "idle"
      BY <2>1, <1>4 DEF Idle
    <3> QED
      BY <3>1 DEF LoopInv
  <2>2. CASE r # << >>
    <3>1. todo'.kind = "jumpTo" /\ todo'.point = p /\ todo'.list = r /\ mut' = mut
      BY <1>1, <1>4, <2>2
    <3>2. \A i \in 1..Len(r) : r[i] \in Fresh(tree')
      BY <1>2, <1>3, <1>9 DEF x
    <3>3. \A i, j \in 1..Len(r) : r[i] = r[j] => i = j
      BY <1>2, <1>3
    <3>4. p \in Children(tree', mut) \cup {NULL}
      BY <1>2, <1>9
    <3> QED
      BY <1>2, <2>2, <3>1, <3>2, <3>3, <3>4 DEF LoopInv
  <2> QED
    BY <2>1, <2>2
<1>14. OwnerInv'
  <2>1. CASE p = NULL
    BY <2>1, <1>6, <1>10 DEF OwnerInv
  <2>2. CASE p # NULL
    <3> SUFFICES ASSUME NEW y \in Instrs PROVE owner'[sem'[y]] = y
      BY DEF OwnerInv
    <3>1. owner[sem[y]] = y /\ owner[sem[x]] = x /\ owner[sem[p]] = p
      BY <1>2, <1>5, <1>10, <2>2 DEF OwnerInv
    <3> QED
      BY <1>2, <1>5, <1>7, <1>10, <2>2, <3>1
  <2> QED
    BY <2>1, <2>2
<1>15. LandInv'
  <2>1. goal' = goal /\ goal.target \in Instrs \cup {NULL}
    BY <1>4 DEF MutatorInv, LandInv
  <2>2. ASSUME goal.target # NULL
        PROVE  goal.target = p /\ goal.lands = sem[s[1]] /\ p # NULL
    BY <1>1, <2>2 DEF MutatorInv, LandInv, p, s
  <2>3. CASE r = << >>
    <3>1. x = s[1] /\ todo' = Idle
      BY <1>2, <1>3, <1>4, <2>3 DEF x
    <3> QED
      <4>1. todo'.kind # "jumpTo"
        BY <3>1 DEF Idle
      <4>2. ASSUME p # NULL PROVE sem'[p] = sem[s[1]]
        BY <1>2, <1>5, <1>7, <1>10, <3>1, <4>2
      <4> QED
        BY <2>1, <2>2, <4>1, <4>2 DEF LandInv
  <2>4. CASE r # << >>
    <3>1. /\ todo'.kind = "jumpTo" /\ todo'.point = p /\ todo'.list = r
          /\ 1 \in 1..Len(r) /\ r[1] = s[1] /\ s[1] # x /\ s[1] \in Instrs
      BY SMTT(40), <1>1, <1>2, <1>3, <1>4, <2>4 DEF x
    <3>2. ASSUME p # NULL PROVE s[1] # p
      BY <1>2, <1>5, <3>2
    <3>3. ASSUME p # NULL PROVE sem'[s[1]] = sem[s[1]]
      BY ONLY <1>2, <1>5, <1>7, <1>10, <3>1, <3>2, <3>3
    <3> QED
      BY <2>1, <2>2, <3>1, <3>3 DEF LandInv
  <2> QED
    BY <2>3, <2>4
<1> QED
  BY <1>9, <1>12, <1>13, <1>14, <1>15 DEF MutatorInv

-----------------------------------------------------------------------------
\* Every step keeps the inductive invariant.
LEMMA NextInv ==
  ASSUME MutatorInv, "after" \notin NullPoints, [Next]_vars
  PROVE  MutatorInv'
<1>1. mut \in Containers \cup {NULL} /\ calls \in 0..MaxCalls
  BY DEF MutatorInv, TypeOK
<1>2. ASSUME NEW c \in Containers, Construct(c) PROVE MutatorInv'
  BY <1>1, <1>2, NoLoop, SameLinks DEF Construct
<1>3. CASE Destruct
  BY <1>1, <1>3, SameLinks DEF Destruct, Idle
<1>4. ASSUME NEW b \in Blocks, MakeBlock(b) PROVE MutatorInv'
  BY <1>1, <1>4, NoLoop, SameLinks DEF MakeBlock
<1>5. ASSUME NEW x \in Instrs, modifiedChildSize(x, 1) PROVE MutatorInv'
  <2>1. calls' \in 0..MaxCalls
    BY <1>1, <1>5, CodeAssumption DEF modifiedChildSize, Calling
  <2> QED
    BY <1>1, <1>5, <2>1, SameLinks DEF modifiedChildSize, Calling, Idle
<1>6. ASSUME NEW a \in Bases, setPosition(a) PROVE MutatorInv'
  <2>1. calls' \in 0..MaxCalls
    BY <1>1, <1>6, CodeAssumption DEF setPosition, Calling
  <2> QED
    BY <1>1, <1>6, <2>1, SameLinks DEF setPosition, Calling, Idle
<1>7. ASSUME NEW a \in Bases, assignAddress(a) PROVE MutatorInv'
  BY <1>1, <1>7, NoLoop, SameLinks DEF assignAddress
<1>8. CASE UNCHANGED vars
  BY <1>8 DEF vars, MutatorInv, TypeOK, GoodTree, LoopInv, OwnerInv, LandInv
<1> QED
  BY <1>2, <1>3, <1>4, <1>5, <1>6, <1>7, <1>8, AppendInv, PrependInv,
     InsertBlockInv, RemoveInv, RemoveLastInv, SplitInv, InsertListInv,
     StepAfterInv, StepBeforeInv, StepBeforeJumpToInv
     DEF Next

\* The inductive invariant holds in every reachable state.
LEMMA Invariance ==
  ASSUME "after" \notin NullPoints
  PROVE  Spec => []MutatorInv
BY InitInv, NextInv, PTL DEF Spec

\* The chunks' links and the state of a running call keep their types.
THEOREM TypeCorrect ==
  ASSUME "after" \notin NullPoints
  PROVE  Spec => []TypeOK
<1>1. MutatorInv => TypeOK
  BY DEF MutatorInv
<1> QED
  BY <1>1, Invariance, PTL

\* For any number of chunks and any sequence of calls, also between the calls on
\* a live mutator and between the iterations of a vector insertion: the parent,
\* prev and next pointers agree with the child lists.  The one call that has to
\* be excluded is insertAfter with a null insertPoint on a non-empty Block.
THEOREM LinksAgree ==
  ASSUME "after" \notin NullPoints
  PROVE  Spec => []LinkIntegrity
<1>1. MutatorInv => LinkIntegrity
  BY DEF MutatorInv, GoodTree, LinkIntegrity
<1> QED
  BY <1>1, Invariance, PTL

\* A semantic always points back to the Instruction that holds it, through any
\* number of the swaps that insertBeforeJumpTo makes.
THEOREM SemanticsOwned ==
  ASSUME "after" \notin NullPoints
  PROVE  Spec => []OwnerIntegrity
<1>1. MutatorInv => OwnerIntegrity
  <2> SUFFICES ASSUME MutatorInv, NEW b \in Blocks, NEW x \in Children(tree, b)
               PROVE  owner[sem[x]] = x
    BY DEF OwnerIntegrity
  <2>1. tree \in Trees /\ WellLinked(tree) /\ OwnerInv
    BY DEF MutatorInv, GoodTree
  <2>2. x \in ChildType(b)
    BY <2>1, ChildPlace DEF Containers
  <2>3. x \in Instrs
    BY <2>2, DistinctChunks DEF ChildType
  <2> QED
    BY <2>1, <2>3 DEF OwnerInv
<1> QED
  BY <1>1, Invariance, PTL

\* A jump to insertPoint lands on the first of the inserted Instructions after
\* insertBeforeJumpTo, whatever the length of the vector, and where it landed
\* before after every other insertion and after a split.
THEOREM JumpsLandRight ==
  ASSUME "after" \notin NullPoints
  PROVE  Spec => []JumpsLand
<1>1. todo = Idle => todo.kind # "jumpTo"
  BY DEF Idle
<1>2. MutatorInv => JumpsLand
  BY <1>1 DEF MutatorInv, LandInv, JumpsLand
<1> QED
  BY <1>2, Invariance, PTL
=============================================================================
