--------------------------- MODULE ChunkPosition ---------------------------
(***************************************************************************)
(* Position objects and the PositionFactory: how a chunk's address is      *)
(* found from its own Position, its parent and its previous sibling, in    *)
(* the four PositionFactory modes without generation counters.  The        *)
(* operators work on a heap                                                *)
(*    h = [tree, size, pos]                                                *)
(* with the links of ChunkTree, the size and the Position of every chunk.  *)
(***************************************************************************)
EXTENDS ChunkTree, Vectors

CONSTANT Mode   \* PositionFactory::Mode

Modes == {"OFFSET", "SUBSEQUENT", "CACHED_OFFSET", "CACHED_SUBSEQUENT"}

ASSUME ModeAssumption == Mode \in Modes

\* val is the address of an absolute or slot position, the offset of an
\* offset position; after is SubsequentPosition::afterThis.
Positions ==
  [kind  : {"none", "absolute", "slot", "offset", "subsequent",
            "cachedOffset", "cachedSubsequent"},
   val   : Int,
   after : Chunks \cup {NULL},
   cache : Int]

NoPosition == [kind |-> "none", val |-> 0, after |-> NULL, cache |-> 0]
AbsoluteAt(a) == [NoPosition EXCEPT !.kind = "absolute", !.val = a]
SlotAt(a)     == [NoPosition EXCEPT !.kind = "slot", !.val = a]
OffsetBy(o)   == [NoPosition EXCEPT !.kind = "offset", !.val = o]

IsSubsequent(p) == p.kind \in {"subsequent", "cachedSubsequent"}

needsUpdatePasses == Mode \in {"CACHED_OFFSET", "CACHED_SUBSEQUENT", "OFFSET"}
needsSpecialCaseFirst == Mode \in {"SUBSEQUENT", "CACHED_SUBSEQUENT"}

-----------------------------------------------------------------------------
\* PositionManager::getAddress.  A chunk without a Position has no address:
\* the code would dereference a null pointer.
AddressOf(h) ==
  LET A[c \in Chunks] ==
        LET p == h.pos[c]
            up == h.tree.parent[c]
        IN  CASE p.kind \in {"absolute", "slot"} -> p.val
              [] p.kind = "offset" -> IF up = NULL THEN 0 ELSE A[up] + p.val
              [] p.kind = "subsequent" -> A[p.after] + h.size[p.after]
              [] p.kind \in {"cachedOffset", "cachedSubsequent"} -> p.cache
  IN  A

\* Position::recalculate: c's Position brought up to date with its parent and
\* its previous sibling, whose addresses are taken as they stand.
Recalculated(h, c) ==
  LET p    == h.pos[c]
      A    == AddressOf(h)
      up   == h.tree.parent[c]
      back == h.tree.prev[c]
      off  == IF up = NULL \/ back = NULL THEN 0
              ELSE (A[back] - A[up]) + h.size[back]
  IN  CASE p.kind = "offset" -> [p EXCEPT !.val = off]
        [] p.kind = "cachedOffset" ->
             [p EXCEPT !.val = off,
                       !.cache = IF up = NULL THEN 0 ELSE A[up] + off]
        [] p.kind = "cachedSubsequent" ->
             [p EXCEPT !.cache = A[p.after] + h.size[p.after]]
        [] OTHER -> p

\* PositionFactory::makePosition.  The cached classes fill their cache when
\* they are constructed.
MakePosition(h, previous, c, offset) ==
  LET fill(p) == Recalculated([h EXCEPT !.pos[c] = p], c)
      behind  == [NoPosition EXCEPT !.after = previous]
  IN  IF previous = NULL THEN OffsetBy(offset)
      ELSE CASE Mode = "OFFSET" -> OffsetBy(offset)
             [] Mode = "SUBSEQUENT" -> [behind EXCEPT !.kind = "subsequent"]
             [] Mode = "CACHED_OFFSET" ->
                  fill([OffsetBy(offset) EXCEPT !.kind = "cachedOffset"])
             [] Mode = "CACHED_SUBSEQUENT" ->
                  fill([behind EXCEPT !.kind = "cachedSubsequent"])

\* ChunkMutator::makePositionFor.  The previous chunk is found by index in
\* the child list, not through the sibling pointer.
MakePositionFor(h, c, x) ==
  LET i == IndexOf(h.tree, c, x)
      A == AddressOf(h)
      back == h.tree.kids[c][i - 1]
  IN  [h EXCEPT !.pos[x] = IF i = 1 THEN MakePosition(h, NULL, x, 0)
                           ELSE MakePosition(h, back, x, A[back] - A[c])]

EnsurePosition(h, c, x) ==
  IF h.pos[x].kind = "none" THEN MakePositionFor(h, c, x) ELSE h

\* Mutant: sibling pointers change, SubsequentPositions do not.
FollowNothing(pos, x, p) == pos

\* setPreviousSibling(x, p) and setNextSibling(p, x) also redirect a
\* SubsequentPosition of x, but not to nullptr.
Follow(pos, x, p) ==
  IF x # NULL /\ p # NULL /\ IsSubsequent(pos[x])
  THEN [pos EXCEPT ![x].after = p] ELSE pos

\* ChunkMutator::updatePositions on c.  Only a Function with an
\* AbsolutePosition is a root from which positions are recalculated, parents
\* before children and siblings in order.
PreOrder(t) ==
  <<Function>> \o FlattenSeq([i \in 1..Len(t.kids[Function]) |->
                    LET b == t.kids[Function][i] IN <<b>> \o t.kids[b]])

UpdatePositions(h, c) ==
  LET rooted == c = Function \/ h.tree.parent[c] = Function
      step(g, x) == [g EXCEPT !.pos[x] = Recalculated(g, x)]
  IN  IF needsUpdatePasses /\ rooted /\ h.pos[Function].kind = "absolute"
      THEN FoldLeft(step, h, PreOrder(h.tree)).pos
      ELSE h.pos
=============================================================================
