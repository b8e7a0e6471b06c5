---------------------------- MODULE ChunkMutator ----------------------------
(***************************************************************************)
(* ChunkMutator: the only way in which passes add, remove, resize and move *)
(* code in the Chunk hierarchy.  A pass constructs a mutator on a Function *)
(* or a Block, calls its methods, and the destructor brings the Positions  *)
(* up to date: links and sizes change at once, addresses at the end.       *)
(*                                                                         *)
(* An Instruction owns a semantic (its opcode and operands); the size of   *)
(* an Instruction is the size of its semantic, and a linked semantic       *)
(* points back to the Instruction that holds it.                           *)
(***************************************************************************)
EXTENDS ChunkPosition

CONSTANTS
  InitialCode,     \* the Instructions of the Function's first Block
  InitialBlock,    \* the Function's first Block
  InstrSize,       \* [Instrs -> Nat]: the size each Instruction is made with
  MaxSize,         \* bound: no pass grows a semantic beyond this size
  Bases,           \* addresses a Function is moved to
  MaxList,         \* bound: the longest vector of Instructions inserted at once
  MaxCalls,        \* bound: the calls made on mutators in one behaviour
  FirstGoes,       \* do passes remove the first of several children?
  NullPoints,      \* which insertions are called freely with a null insertPoint
  Assigning        \* are addresses assigned once the passes are done?

ASSUME CodeAssumption ==
  /\ InitialBlock \in Blocks
  /\ InitialCode \in Seq(Instrs)
  /\ \A i, j \in 1..Len(InitialCode) : InitialCode[i] = InitialCode[j] => i = j
  /\ MaxList \in Nat /\ MaxCalls \in Nat

VARIABLES
  tree,    \* links: children, parent, prev, next
  size,    \* [Chunks -> Nat]
  pos,     \* [Chunks -> Positions]
  sem,     \* [Instrs -> Instrs]: an Instruction's semantic, named after the
           \* Instruction that it was created with
  owner,   \* [Instrs -> Instrs]: the semantic's pointer to its Instruction
  mut,     \* the chunk of the live mutator, NULL if none
  todo,    \* the rest of a loop over a vector of Instructions
  goal,    \* what the last call was asked to do to the code
  calls    \* how many calls have been made

vars == <<tree, size, pos, sem, owner, mut, todo, goal, calls>>

Idle == [kind |-> "idle", point |-> NULL, list |-> << >>]

Loop(kind, point, list) ==
  IF list = << >> THEN Idle ELSE [kind |-> kind, point |-> point, list |-> list]

heap == [tree |-> tree, size |-> size, pos |-> pos]

-----------------------------------------------------------------------------
\* The code of the Function as one sequence of semantics.

Contents(t, s, x) ==
  IF x \in Instrs THEN <<s[x]>>
  ELSE [i \in 1..Len(t.kids[x]) |-> s[t.kids[x][i]]]

Stream(t, s) ==
  FlattenSeq([i \in 1..Len(t.kids[Function]) |->
                Contents(t, s, t.kids[Function][i])])

Attached(t, c) == c = Function \/ c \in Children(t, Function)

\* How much of the code comes before the child number i + 1 of c.
CodeBefore(t, s, c, i) ==
  LET k == IF c = Function THEN i ELSE IndexOf(t, Function, c) - 1
  IN  Len(FlattenSeq([j \in 1..k |-> Contents(t, s, t.kids[Function][j])]))
      + (IF c = Function THEN 0 ELSE i)

\* The code with n semantics replaced by items, n + 1 - th child of c on.
Spliced(t, s, c, i, n, items) ==
  LET code == Stream(t, s)
      k == CodeBefore(t, s, c, i)
  IN  IF Attached(t, c)
      THEN SubSeq(code, 1, k) \o items \o SubSeq(code, k + n + 1, Len(code))
      ELSE code

\* A call's effect: the code afterwards, and the semantic on which a jump to
\* the Instruction "target" must land afterwards.
Goal(code, target, lands) == [code |-> code, target |-> target, lands |-> lands]

-----------------------------------------------------------------------------
\* The methods, as functions of the heap.

\* The chunk and the chunks above it, up to but not including the Module.
Upward(t, c) == {a \in Containers : a = c \/ a = t.parent[c]}

AddToSizes(h, c, n) ==
  [h EXCEPT !.size = [a \in Chunks |->
     IF a \in Upward(h.tree, c) THEN @[a] + n ELSE @[a]]]

\* Sizes are decreased only where they are tracked, that is, not zero.
TakeFromSizes(h, c, n) ==
  [h EXCEPT !.size = [a \in Chunks |->
     IF a \in Upward(h.tree, c) /\ @[a] # 0 THEN @[a] - n ELSE @[a]]]

Relinked(h, t, p) == [tree |-> t, size |-> h.size, pos |-> p]

DoAppend(h, c, x) ==
  LET linked == Relinked(h, LinkAppend(h.tree, c, x),
                            Follow(h.pos, x, GetLast(h.tree, c)))
  IN  AddToSizes(EnsurePosition(linked, c, x), c, h.size[x])

DoInsertAfter(h, c, point, x) ==
  LET after  == IF point = NULL THEN NULL ELSE h.tree.next[point]
      linked == Relinked(h, LinkInsertAfter(h.tree, c, point, x),
                            Follow(Follow(h.pos, x, point), after, x))
      sized  == AddToSizes(EnsurePosition(linked, c, x), c, h.size[x])
  IN  IF after \in Blocks /\ h.tree.kids[after] # << >>
      THEN MakePositionFor(sized, after, h.tree.kids[after][1])
      ELSE sized

DoInsertBefore(h, c, point, x) ==
  LET before == h.tree.prev[point]
      linked == Relinked(h, LinkInsertBefore(h.tree, c, point, x),
                            Follow(Follow(h.pos, x, before), point, x))
      placed == EnsurePosition(linked, c, x)
      first  == needsSpecialCaseFirst /\ before = NULL
      moved  == [placed EXCEPT !.pos[point] =
                   IF first THEN MakePosition(placed, x, point, h.size[x]) ELSE @]
  IN  AddToSizes(moved, c, h.size[x])

DoRemove(h, c, x) ==
  TakeFromSizes(Relinked(h, LinkRemove(h.tree, c, x),
                            Follow(h.pos, h.tree.next[x], h.tree.prev[x])),
                c, h.size[x])

DoRemoveLast(h, c, keep) ==
  LET gone == SubSeq(h.tree.kids[c], keep + 1, Len(h.tree.kids[c]))
      removed == FoldLeft(LAMBDA n, x : n + h.size[x], 0, gone)
  IN  TakeFromSizes([h EXCEPT !.tree = LinkRemoveLast(@, c, keep)], c, removed)

\* Mutant: the Instructions are appended in the order in which they are taken
\* out, last first.
DoSplitBlockLastFirst(h, point, b) ==
  LET block   == h.tree.parent[point]
      keep    == IndexOf(h.tree, block, point) - 1
      n       == Len(h.tree.kids[block]) - keep
      moving  == [i \in 1..n |-> h.tree.kids[block][keep + n + 1 - i]]
      taken   == DoRemoveLast(h, block, keep)
      given   == FoldLeft(LAMBDA g, x : DoAppend(g, b, x), taken, moving)
  IN  DoInsertAfter([tree |-> LinkMoveTo(taken.tree, b, moving),
                     size |-> given.size, pos |-> given.pos],
                    Function, block, b)

\* splitBlockBefore on the Function: the Instructions of the Block from point
\* on are taken out, stripped of their links and Positions, appended one by
\* one to the new Block b, and b is inserted after the Block.
DoSplitBlock(h, point, b) ==
  LET block   == h.tree.parent[point]
      A       == AddressOf(h)
      keep    == IndexOf(h.tree, block, point) - 1
      moving  == SubSeq(h.tree.kids[block], keep + 1, Len(h.tree.kids[block]))
      made    == [h EXCEPT !.pos[b] =
                    MakePosition(h, block, b, A[point] - A[Function])]
      taken   == DoRemoveLast(made, block, keep)
      bare    == [taken EXCEPT
                    !.pos = [x \in Chunks |->
                      IF x \in ToSet(moving) THEN NoPosition ELSE @[x]]]
      give(g, x) == MakePositionFor(DoAppend(g, b, x), b, x)
      given   == FoldLeft(give, bare, moving)
  IN  DoInsertAfter([tree |-> LinkMoveTo(taken.tree, b, moving),
                     size |-> given.size, pos |-> given.pos],
                    Function, block, b)

Becomes(h) ==
  /\ tree' = h.tree
  /\ size' = h.size
  /\ pos' = h.pos

-----------------------------------------------------------------------------
\* Chunks that a caller can pass to the live mutator as new children.
New == Fresh(tree) \cap ChildType(mut)

Here == Children(tree, mut)

Calling ==
  /\ mut # NULL
  /\ todo = Idle
  /\ calls < MaxCalls
  /\ calls' = calls + 1

\* A mutator is constructed on a chunk of the Function, or on a new Block
\* that has been given a Position.  The passes that edit code run before
\* addresses are assigned.
Construct(c) ==
  /\ mut = NULL /\ calls < MaxCalls
  /\ Attached(tree, c) \/ (c \in Fresh(tree) /\ pos[c].kind # "none")
  /\ pos[Function].kind = "absolute"
  /\ mut' = c
  /\ UNCHANGED <<tree, size, pos, sem, owner, todo, goal, calls>>

\* The destructor.
Destruct ==
  /\ mut # NULL /\ todo = Idle
  /\ pos' = UpdatePositions(heap, mut)
  /\ mut' = NULL
  /\ UNCHANGED <<tree, size, sem, owner, todo, goal, calls>>

\* A pass makes a Block that is to follow the Function's last Block.
MakeBlock(b) ==
  /\ mut = NULL
  /\ b \in Fresh(tree) /\ pos[b].kind = "none"
  /\ pos' = [pos EXCEPT ![b] =
               MakePosition(heap, GetLast(tree, Function), b, size[Function])]
  /\ UNCHANGED <<tree, size, sem, owner, mut, todo, goal, calls>>

append(x) ==
  /\ Calling /\ x \in New
  /\ Becomes(DoAppend(heap, mut, x))
  /\ goal' = Goal(Spliced(tree, sem, mut, Len(tree.kids[mut]), 0,
                          Contents(tree, sem, x)), NULL, NULL)
  /\ UNCHANGED <<sem, owner, mut, todo>>

\* A Block whose Position makes it follow another Block is not put first.
Placeable(x) ==
  x \in Blocks /\ needsSpecialCaseFirst => pos[x].kind = "none"

prepend(x) ==
  /\ Calling /\ x \in New /\ Placeable(x)
  /\ Becomes(IF tree.kids[mut] = << >> THEN DoAppend(heap, mut, x)
             ELSE DoInsertBefore(heap, mut, tree.kids[mut][1], x))
  /\ goal' = Goal(Spliced(tree, sem, mut, 0, 0, Contents(tree, sem, x)),
                  NULL, NULL)
  /\ UNCHANGED <<sem, owner, mut, todo>>

\* insertAfter and insertBefore of one Block.
insertBlockAfter(point, x) ==
  /\ Calling /\ mut = Function /\ point \in Here /\ x \in New
  /\ Becomes(DoInsertAfter(heap, mut, point, x))
  /\ goal' = Goal(Spliced(tree, sem, mut, IndexOf(tree, mut, point), 0,
                          Contents(tree, sem, x)), NULL, NULL)
  /\ UNCHANGED <<sem, owner, mut, todo>>

insertBlockBefore(point, x) ==
  /\ Calling /\ mut = Function /\ point \in Here /\ x \in New /\ Placeable(x)
  /\ Becomes(DoInsertBefore(heap, mut, point, x))
  /\ goal' = Goal(Spliced(tree, sem, mut, IndexOf(tree, mut, point) - 1, 0,
                          Contents(tree, sem, x)), NULL, NULL)
  /\ UNCHANGED <<sem, owner, mut, todo>>

\* A null insertPoint means "first" to insertAfter and "last" to the others.
\* Unless NullPoints says otherwise it is used where the sibling pointers need
\* no repair, and where the order of a vector cannot matter.
NullPointTaken(kind, list) ==
  CASE kind = "before" -> TRUE
    [] kind = "after"  -> tree.kids[mut] = << >> \/ kind \in NullPoints
    [] kind = "jumpTo" -> Len(list) = 1 \/ kind \in NullPoints

\* Insertion of a vector of Instructions (a vector of one stands for the
\* methods that take a single Instruction).  The call starts a loop, whose
\* iterations are the next steps.
insertList(kind, point, list) ==
  /\ Calling /\ mut \in Blocks
  /\ point \in Here \/ (point = NULL /\ NullPointTaken(kind, list))
  /\ list # << >> /\ ToSet(list) \subseteq New
  /\ \A i, j \in 1..Len(list) : list[i] = list[j] => i = j
  /\ todo' = Loop(kind, point, list)
  /\ LET at == CASE point = NULL -> IF kind = "after" THEN 0
                                    ELSE Len(tree.kids[mut])
                 [] kind = "after" -> IndexOf(tree, mut, point)
                 [] OTHER -> IndexOf(tree, mut, point) - 1
         items == [i \in 1..Len(list) |-> sem[list[i]]]
     IN  goal' = Goal(Spliced(tree, sem, mut, at, 0, items),
                      point,
                      IF point = NULL THEN NULL
                      ELSE IF kind = "jumpTo" THEN sem[list[1]] ELSE sem[point])
  /\ UNCHANGED <<tree, size, pos, sem, owner, mut>>

stepAfter ==
  /\ todo.kind = "after"
  /\ LET x == Head(todo.list)
     IN  /\ Becomes(DoInsertAfter(heap, mut, todo.point, x))
         /\ todo' = Loop(todo.kind, x, Tail(todo.list))
  /\ UNCHANGED <<sem, owner, mut, goal, calls>>

stepBefore ==
  /\ todo.kind = "before"
  /\ LET x == Head(todo.list)
     IN  /\ Becomes(IF todo.point = NULL THEN DoAppend(heap, mut, x)
                    ELSE DoInsertBefore(heap, mut, todo.point, x))
         /\ todo' = Loop(todo.kind, todo.point, Tail(todo.list))
  /\ UNCHANGED <<sem, owner, mut, goal, calls>>

\* Mutants of the next action: the vector is walked from its start; semantics
\* are not swapped; they are swapped but not told so.
JumpToStep(x, rest, newSem, newOwner) ==
  /\ todo.kind = "jumpTo"
  /\ Becomes(IF todo.point = NULL THEN DoAppend(heap, mut, x)
             ELSE DoInsertAfter(heap, mut, todo.point, x))
  /\ sem' = (IF todo.point = NULL THEN sem ELSE newSem)
  /\ owner' = (IF todo.point = NULL THEN owner ELSE newOwner)
  /\ todo' = Loop(todo.kind, todo.point, rest)
  /\ UNCHANGED <<mut, goal, calls>>

Swapped(x) == [sem EXCEPT ![todo.point] = sem[x], ![x] = sem[todo.point]]

SwappedOwner(x) == [owner EXCEPT ![sem[todo.point]] = x, ![sem[x]] = todo.point]

stepBeforeJumpToFromStart ==
  JumpToStep(Head(todo.list), Tail(todo.list),
             Swapped(Head(todo.list)), SwappedOwner(Head(todo.list)))

stepBeforeJumpToNoSwap ==
  JumpToStep(Last(todo.list), Front(todo.list), sem, owner)

stepBeforeJumpToNoOwner ==
  JumpToStep(Last(todo.list), Front(todo.list), Swapped(Last(todo.list)), owner)

\* insertBeforeJumpTo puts the new Instruction after the point and swaps the
\* two semantics, so the vector is walked from its end.
stepBeforeJumpTo ==
  /\ todo.kind = "jumpTo"
  /\ LET x == todo.list[Len(todo.list)]
         p == todo.point
         h == DoInsertAfter(heap, mut, p, x)
     IN  /\ IF p = NULL
            THEN /\ Becomes(DoAppend(heap, mut, x))
                 /\ UNCHANGED <<sem, owner>>
            ELSE /\ Becomes([h EXCEPT !.size = [@ EXCEPT ![p] = size[x], ![x] = size[p]]])
                 /\ sem' = [sem EXCEPT ![p] = sem[x], ![x] = sem[p]]
                 /\ owner' = [owner EXCEPT ![sem[p]] = x, ![sem[x]] = p]
         /\ todo' = Loop(todo.kind, p, Front(todo.list))
  /\ UNCHANGED <<mut, goal, calls>>

\* Removal.  Passes remove single Instructions and Blocks that have become
\* empty, and delete them afterwards.
Removable(x) == x \in Blocks => tree.kids[x] = << >>

remove(x) ==
  /\ Calling /\ x \in Here /\ Removable(x)
  /\ x = tree.kids[mut][1] /\ Len(tree.kids[mut]) > 1 => FirstGoes
  /\ Becomes(DoRemove(heap, mut, x))
  /\ goal' = Goal(Spliced(tree, sem, mut, IndexOf(tree, mut, x) - 1,
                          Len(Contents(tree, sem, x)), << >>), NULL, NULL)
  /\ UNCHANGED <<sem, owner, mut, todo>>

removeLast ==
  /\ Calling /\ tree.kids[mut] # << >>
  /\ Removable(GetLast(tree, mut))
  /\ LET keep == Len(tree.kids[mut]) - 1
     IN  /\ Becomes(DoRemoveLast(heap, mut, keep))
         /\ goal' = Goal(Spliced(tree, sem, mut, keep,
                                 Len(Contents(tree, sem, GetLast(tree, mut))),
                                 << >>), NULL, NULL)
  /\ UNCHANGED <<sem, owner, mut, todo>>

splitBlockBefore(point, b) ==
  /\ Calling /\ mut = Function
  /\ b \in Fresh(tree) /\ tree.kids[b] = << >> /\ pos[b].kind = "none"
  /\ tree.parent[point] \in Here /\ point \in Children(tree, tree.parent[point])
  /\ Becomes(DoSplitBlock(heap, point, b))
  /\ goal' = Goal(Stream(tree, sem), point, sem[point])
  /\ UNCHANGED <<sem, owner, mut, todo>>

\* A pass gives x a semantic that is longer by n bytes and reports it.
modifiedChildSize(x, n) ==
  /\ Calling /\ mut \in Blocks /\ x \in Here
  /\ size[x] + n <= MaxSize
  /\ size' = AddToSizes([heap EXCEPT !.size[x] = @ + n], mut, n).size
  /\ UNCHANGED <<tree, pos, sem, owner, mut, todo, goal>>

\* setPosition on a Function, whose Position is absolute or a slot.
setPosition(a) ==
  /\ Calling /\ mut = Function
  /\ pos' = [pos EXCEPT ![Function].val = a]
  /\ UNCHANGED <<tree, size, sem, owner, mut, todo, goal>>

\* Generator::assignAddress gives the Function an assigned position, which
\* from then on takes the place of its original one.
assignAddress(a) ==
  /\ Assigning /\ mut = NULL
  /\ pos' = [pos EXCEPT ![Function] = SlotAt(a)]
  /\ UNCHANGED <<tree, size, sem, owner, mut, todo, goal, calls>>

-----------------------------------------------------------------------------
\* A Function with one Block, as the disassembler leaves it.
Init ==
  LET t0 == LinkAppend(EmptyTree, Function, InitialBlock)
      h0 == [tree |-> t0,
             size |-> [c \in Chunks |-> IF c \in Instrs THEN InstrSize[c] ELSE 0],
             pos |-> [c \in Chunks |->
                        CASE c = Function -> AbsoluteAt(CHOOSE a \in Bases : TRUE)
                          [] c = InitialBlock -> OffsetBy(0)
                          [] OTHER -> NoPosition]]
      h1 == FoldLeft(LAMBDA h, x : DoAppend(h, InitialBlock, x), h0, InitialCode)
  IN  /\ tree = LinkMoveTo(t0, InitialBlock, InitialCode)
      /\ size = h1.size
      /\ pos = UpdatePositions(h1, Function)
      /\ sem = [x \in Instrs |-> x]
      /\ owner = [x \in Instrs |-> x]
      /\ mut = NULL
      /\ todo = Idle
      /\ goal = Goal(InitialCode, NULL, NULL)
      /\ calls = 0

Lists == BoundedSeq(Instrs, MaxList)

Next ==
  \/ \E c \in Containers : Construct(c)
  \/ Destruct
  \/ \E b \in Blocks : MakeBlock(b)
  \/ \E x \in Blocks \cup Instrs : append(x) \/ prepend(x) \/ remove(x)
  \/ \E point, x \in Blocks : insertBlockAfter(point, x) \/ insertBlockBefore(point, x)
  \/ \E kind \in {"after", "before", "jumpTo"}, point \in Instrs \cup {NULL},
        list \in Lists : insertList(kind, point, list)
  \/ stepAfter
  \/ stepBefore
  \/ stepBeforeJumpTo
  \/ removeLast
  \/ \E point \in Instrs, b \in Blocks : splitBlockBefore(point, b)
  \/ \E x \in Instrs : modifiedChildSize(x, 1)
  \/ \E a \in Bases : setPosition(a) \/ assignAddress(a)

Spec == Init /\ [][Next]_vars

-----------------------------------------------------------------------------
\* Type invariant of the chunks' links and of a running call.  Sizes, Positions
\* and code are the subject of AddressIntegrity and StreamAsAsked.
TypeOK ==
  /\ tree \in Trees
  /\ sem \in [Instrs -> Instrs]
  /\ owner \in [Instrs -> Instrs]
  /\ mut \in Containers \cup {NULL}
  /\ todo \in [kind : {"idle", "after", "before", "jumpTo"},
               point : Instrs \cup {NULL}, list : Seq(Instrs)]
  /\ calls \in 0..MaxCalls

\* At every moment, also between two calls on a live mutator, the parent, prev
\* and next pointers of every child agree with its place in the child list
\* (what the unit test's CheckPrevNextIntegrity looks at after one call).
LinkIntegrity == WellLinked(tree)

\* A Block's and the Function's size is always the sum of its children's sizes:
\* ChunkMutator keeps sizes up to date immediately, on every call.  Once a
\* mutator has been destroyed, the Function's Instructions lie end to end from
\* the Function's address on, and every Block begins where its first
\* Instruction does (the unit test's CheckAddressIntegrity).
AddressIntegrity ==
  /\ \A c \in Containers :
       size[c] = FoldLeft(LAMBDA n, x : n + size[x], 0, tree.kids[c])
  /\ mut = NULL =>
    LET A == AddressOf(heap)
        line == FlattenSeq([i \in 1..Len(tree.kids[Function]) |->
                              tree.kids[tree.kids[Function][i]]])
    IN  /\ \A i \in 1..Len(line) :
             A[line[i]] = IF i = 1 THEN A[Function]
                          ELSE A[line[i - 1]] + size[line[i - 1]]
        /\ \A b \in Children(tree, Function) :
             tree.kids[b] # << >> => A[b] = A[tree.kids[b][1]]

\* Every call has exactly the effect on the Function's code that it was asked
\* for: what is inserted ends up in order at the point named, what is removed
\* and nothing else is gone, and splitting a Block changes no code at all,
\* although insertBeforeJumpTo works by inserting behind and swapping.
StreamAsAsked == todo = Idle => Stream(tree, sem) = goal.code

\* After insertBeforeJumpTo a jump to insertPoint lands on the first inserted
\* Instruction; after the other insertions and after a split it still lands on
\* what it landed on before.
JumpsLand == todo = Idle /\ goal.target # NULL => sem[goal.target] = goal.lands

\* The semantic held by an Instruction of the tree points back to that
\* Instruction, also after insertBeforeJumpTo has swapped semantics.
OwnerIntegrity ==
  \A b \in Blocks : \A x \in Children(tree, b) : owner[sem[x]] = x

-----------------------------------------------------------------------------
\* What the proofs add to make these invariants inductive.

\* In the loop over a vector: the rest of the vector has not been inserted, and
\* insertPoint is still a child.
LoopInv ==
  todo.kind # "idle" =>
    /\ mut \in Blocks
    /\ todo.list # << >>
    /\ \A i \in 1..Len(todo.list) : todo.list[i] \in Fresh(tree)
    /\ \A i, j \in 1..Len(todo.list) : todo.list[i] = todo.list[j] => i = j
    /\ todo.point \in Children(tree, mut) \cup {NULL}
    /\ todo.kind = "after" /\ todo.point = NULL => tree.kids[mut] = << >>

\* Every semantic, also of an Instruction that was never inserted or has been
\* removed, has exactly one Instruction.
OwnerInv == \A x \in Instrs : owner[sem[x]] = x

\* While insertBeforeJumpTo walks the vector from its end, the semantic that
\* jumps must finally land on is still held by the first of the vector.
LandInv ==
  /\ goal.target \in Instrs \cup {NULL}
  /\ goal.target # NULL =>
       IF todo.kind = "jumpTo"
       THEN goal.target = todo.point /\ goal.lands = sem[todo.list[1]]
       ELSE goal.lands = sem[goal.target]

MutatorInv == TypeOK /\ GoodTree(tree) /\ LoopInv /\ OwnerInv /\ LandInv
=============================================================================
