----------------------------- MODULE ChunkTree -----------------------------
(***************************************************************************)
(* The link structure of the Chunk hierarchy: every container's ordered    *)
(* list of children (IterableChunkList) and every chunk's parent, previous *)
(* and next pointer (ChunkImpl).  The operators below are the pointer      *)
(* updates that the methods of ChunkMutator make, in the order in which    *)
(* the code makes them.  A tree is a record                                *)
(*    [kids, parent, prev, next].                                          *)
(* Two levels of containers are represented: one Function and its Blocks.  *)
(***************************************************************************)
EXTENDS Naturals, Sequences, FiniteSets

CONSTANTS Function,   \* the Function at the root
          Blocks,     \* every Block that may ever exist
          Instrs,     \* every Instruction that may ever exist
          NULL        \* nullptr

Containers == {Function} \cup Blocks
Chunks == Containers \cup Instrs

ASSUME DistinctChunks ==
  /\ Function \notin Blocks \cup Instrs
  /\ Blocks \cap Instrs = {}
  /\ NULL \notin Chunks

\* What may be a child of c: Blocks of the Function, Instructions of a Block.
ChildType(c) == IF c = Function THEN Blocks ELSE Instrs

Trees ==
  [kids   : [Containers -> Seq(Chunks)],
   parent : [Chunks -> Containers \cup {NULL}],
   prev   : [Chunks -> Chunks \cup {NULL}],
   next   : [Chunks -> Chunks \cup {NULL}]]

\* A freshly constructed chunk has neither parent nor siblings nor children.
EmptyTree ==
  [kids   |-> [c \in Containers |-> << >>],
   parent |-> [c \in Chunks |-> NULL],
   prev   |-> [c \in Chunks |-> NULL],
   next   |-> [c \in Chunks |-> NULL]]

-----------------------------------------------------------------------------
\* IterableChunkList

Children(t, c) == {t.kids[c][i] : i \in 1..Len(t.kids[c])}

IndexOf(t, c, x) == CHOOSE i \in 1..Len(t.kids[c]) : t.kids[c][i] = x

GetLast(t, c) ==
  IF t.kids[c] = << >> THEN NULL ELSE t.kids[c][Len(t.kids[c])]

\* childList.insert(begin + i - 1, x): x becomes the i-th child.
InsertChild(s, i, x) ==
  [j \in 1..(Len(s) + 1) |->
     IF j < i THEN s[j] ELSE IF j = i THEN x ELSE s[j - 1]]

\* childList.erase(begin + i - 1)
EraseChild(s, i) ==
  [j \in 1..(Len(s) - 1) |-> IF j < i THEN s[j] ELSE s[j + 1]]

-----------------------------------------------------------------------------
\* The pointer updates of ChunkMutator's methods on the container c.

\* f with the assignments f[x] := y made only where x is not nullptr.
SetIfAny(f, x, y) == IF x = NULL THEN f ELSE [f EXCEPT ![x] = y]

LinkAppend(t, c, x) ==
  LET last == GetLast(t, c)
  IN  [kids   |-> [t.kids EXCEPT ![c] = Append(@, x)],
       parent |-> [t.parent EXCEPT ![x] = c],
       prev   |-> [t.prev EXCEPT ![x] = last],
       next   |-> IF last = NULL THEN [t.next EXCEPT ![x] = NULL]
                                 ELSE [t.next EXCEPT ![last] = x]]

\* Mutant: the chunk after x keeps pointing back to insertPoint.
LinkInsertAfterOneSided(t, c, point, x) ==
  LET after == IF point = NULL THEN NULL ELSE t.next[point]
      index == IF point = NULL THEN 1 ELSE IndexOf(t, c, point) + 1
  IN  [kids   |-> [t.kids EXCEPT ![c] = InsertChild(@, index, x)],
       parent |-> [t.parent EXCEPT ![x] = c],
       prev   |-> [t.prev EXCEPT ![x] = point],
       next   |-> SetIfAny([t.next EXCEPT ![x] = after], point, x)]

LinkInsertAfter(t, c, point, x) ==
  LET after == IF point = NULL THEN NULL ELSE t.next[point]
      index == IF point = NULL THEN 1 ELSE IndexOf(t, c, point) + 1
  IN  [kids   |-> [t.kids EXCEPT ![c] = InsertChild(@, index, x)],
       parent |-> [t.parent EXCEPT ![x] = c],
       prev   |-> SetIfAny([t.prev EXCEPT ![x] = point], after, x),
       next   |-> SetIfAny([t.next EXCEPT ![x] = after], point, x)]

LinkInsertBefore(t, c, point, x) ==
  LET before == t.prev[point]
  IN  [kids   |-> [t.kids EXCEPT ![c] = InsertChild(@, IndexOf(t, c, point), x)],
       parent |-> [t.parent EXCEPT ![x] = c],
       prev   |-> [t.prev EXCEPT ![x] = before, ![point] = x],
       next   |-> [SetIfAny(t.next, before, x) EXCEPT ![x] = point]]

\* The removed child keeps its own parent, prev and next pointers.
LinkRemove(t, c, x) ==
  LET before == t.prev[x]
      after  == t.next[x]
  IN  [t EXCEPT !.kids[c] = EraseChild(@, IndexOf(t, c, x)),
                !.next = SetIfAny(@, before, after),
                !.prev = SetIfAny(@, after, before)]

\* Removes the children from index keep + 1 on, last first.
LinkRemoveLast(t, c, keep) ==
  LET gone == {t.kids[c][i] : i \in (keep + 1)..Len(t.kids[c])}
  IN  [t EXCEPT !.kids[c] = SubSeq(@, 1, keep),
                !.next = [x \in Chunks |->
                            IF \E r \in gone : t.prev[r] = x THEN NULL ELSE @[x]]]

\* Clears the pointers of the chunks of s, then appends them to the empty b.
LinkMoveTo(t, b, s) ==
  LET moved == {s[i] : i \in 1..Len(s)}
      at(x) == CHOOSE i \in 1..Len(s) : s[i] = x
  IN  [kids   |-> [t.kids EXCEPT ![b] = s],
       parent |-> [x \in Chunks |-> IF x \in moved THEN b ELSE t.parent[x]],
       prev   |-> [x \in Chunks |->
                     IF x \notin moved THEN t.prev[x]
                     ELSE IF at(x) = 1 THEN NULL ELSE s[at(x) - 1]],
       next   |-> [x \in Chunks |->
                     IF x \notin moved THEN t.next[x]
                     ELSE IF at(x) = Len(s) THEN NULL ELSE s[at(x) + 1]]]

-----------------------------------------------------------------------------
\* What the pointers are meant to say.

\* c's children are distinct, of the right type, and agree with the pointers.
LinkedUnder(t, c) ==
  LET s == t.kids[c]
  IN  \A i \in 1..Len(s) :
        /\ s[i] \in ChildType(c)
        /\ t.parent[s[i]] = c
        /\ t.prev[s[i]] = (IF i = 1 THEN NULL ELSE s[i - 1])
        /\ t.next[s[i]] = (IF i = Len(s) THEN NULL ELSE s[i + 1])
        /\ \A j \in 1..Len(s) : s[i] = s[j] => i = j

WellLinked(t) == \A c \in Containers : LinkedUnder(t, c)

\* The chunks that were never inserted.
Fresh(t) == {x \in Chunks \ {Function} : t.parent[x] = NULL}

\* A chunk that was never inserted has no siblings.
FreshAlone(t) == \A x \in Fresh(t) : t.prev[x] = NULL /\ t.next[x] = NULL

GoodTree(t) ==
  /\ t \in Trees
  /\ WellLinked(t)
  /\ FreshAlone(t)
=============================================================================
