---------------------------- MODULE IntervalSet -----------------------------
(* What an IntervalTree promises: it is a bag of ranges, whatever the        *)
(* sequence of calls that filled it.  The state is a tree and, as the        *)
(* reference, the bag of ranges it should hold; the calls are those of       *)
(* util/intervaltree.h with every range and point that fits.                 *)
EXTENDS IntervalTree, Bags

CONSTANTS
  Total,      \* the total range of the tree
  MaxHeld     \* bound on the number of ranges in the tree

VARIABLES tree, held

vars == <<tree, held>>

Points == Total.start .. Total.end

\* Range is used with at least one address (see CanAdd).
Ranges == {r \in [start : Points, end : Points] : r.start < r.end}

Init ==
  /\ tree = Node(Total)
  /\ held = EmptyBag

AddRange(r) ==
  /\ BagCardinality(held) < MaxHeld
  /\ tree' = add(tree, r)
  /\ held' = held (+) SetToBag({r})

\* A range that is not there is asked for as well.
RemoveRange(r) ==
  /\ tree' = remove(tree, r)
  /\ held' = held (-) SetToBag({r})

SplitAt(point) ==
  LET found == {r \in BagToSet(held) : r.start < point /\ point < r.end}
      starts == {r \in BagToSet(held) : r.start = point}
  IN  /\ BagCardinality(held) < MaxHeld
      /\ tree' = splitAt(tree, point)
      /\ held' = IF starts = {} /\ \E r \in found : found = {r} /\ held[r] = 1
                 THEN LET r == CHOOSE r \in found : TRUE
                      IN  (held (-) SetToBag({r}))
                            (+) SetToBag({Span(r.start, point), Span(point, r.end)})
                 ELSE held

\* What is left of r when a range is taken out of it.
Left(r, range) ==
  {s \in {Span(r.start, IF range.start < r.end THEN range.start ELSE r.end),
          Span(IF range.end > r.start THEN range.end ELSE r.start, r.end)}
     : s.start < s.end}

Subtract(range) ==
  LET cut == {r \in BagToSet(held) : \E p \in Points : ContainsPoint(r, p)
                                                    /\ ContainsPoint(range, p)}
      rest == [r \in BagToSet(held) \ cut |-> held[r]]
      Pieces(b, r) == [p \in Left(r, range) |-> held[r]] (+) b
  IN  /\ tree' = subtract(tree, range)
      /\ held' = FoldLeft(Pieces, rest, SetToSeq(cut))
      /\ BagCardinality(held') <= MaxHeld

Next ==
  \/ \E r \in Ranges : AddRange(r) \/ RemoveRange(r) \/ Subtract(r)
  \/ \E point \in Points : SplitAt(point)

Spec == Init /\ [][Next]_vars

-----------------------------------------------------------------------------
BagOf(list) == [r \in ToSet(list) |-> Cardinality({k \in DOMAIN list : list[k] = r})]

Held(Test(_)) ==
  LET found == {r \in BagToSet(held) : Test(r)} IN [r \in found |-> held[r]]

Disjoint ==
  \A r, s \in BagToSet(held) : held[r] = 1 /\ (r # s => ~Overlaps(r, s))

\* The tree holds the ranges that were added, split and cut, each as often as
\* it was added: no call loses a range that lies in another half of the tree,
\* and the nodes that calls leave empty hide nothing.
HoldsItsRanges == BagOf(getAllData(tree)) = held

\* Both searches for what overlaps find every range that does, and no other:
\* the loops over overlapStart and overlapEnd do not break too early, and the
\* halves that are not searched hold nothing.
FindsOverlapping ==
  /\ \A p \in Points :
       BagOf(findOverlappingPoint(tree, p)) = Held(LAMBDA r : ContainsPoint(r, p))
  /\ \A range \in Ranges :
       BagOf(findOverlapping(tree, range)) = Held(LAMBDA r : Overlaps(r, range))

\* A search for a bound finds one if there is one; if the ranges of the tree
\* are disjoint, it finds the one next to the point.
BoundsAreNearest ==
  \A p \in Points, over \in BOOLEAN :
    LET lower == findLowerBound(tree, p, over)
        upper == findUpperBound(tree, p, over)
        lowers == {r \in BagToSet(held) : r.end <= p \/ (over /\ ContainsPoint(r, p))}
        uppers == {r \in BagToSet(held) : p < r.start \/ (over /\ ContainsPoint(r, p))}
    IN  /\ IF lowers = {} THEN lower = NoRange ELSE lower \in lowers
        /\ IF uppers = {} THEN upper = NoRange ELSE upper \in uppers
        /\ Disjoint =>
             /\ \A r \in lowers : r.end <= lower.end
             /\ \A r \in uppers : upper.start <= r.start

\* inStartOrderTraversal goes in the order of the starts and complement has
\* exactly the addresses that no range has, if the ranges are disjoint.
TraversalInOrder ==
  Disjoint =>
    /\ \A k \in 2 .. Len(getAllData(tree)) :
         getAllData(tree)[k - 1].start < getAllData(tree)[k].start
    /\ \A p \in Total.start .. (Total.end - 1) :
         (findOverlappingPoint(complement(tree), p) = <<>>)
           <=> \E r \in BagToSet(held) : ContainsPoint(r, p)

\* What a caller may rely on.
ActsAsBag == HoldsItsRanges /\ FindsOverlapping /\ BoundsAreNearest /\ TraversalInOrder
=============================================================================
