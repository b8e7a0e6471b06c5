---------------------------- MODULE IntervalTree ----------------------------
(* util/intervaltree.cpp and util/range.cpp: a binary tree over a range of   *)
(* addresses.  Every node halves its total range at the midpoint and keeps   *)
(* the ranges that contain the midpoint, in order of their start             *)
(* (overlapStart) and in descending order of their end (overlapEnd); the     *)
(* others go down to the lower or the higher half.                           *)
(*                                                                           *)
(* A Range is Span(start, end), its end exclusive.  overlapEnd holds what   *)
(* overlapStart holds, so a node is modelled with the one list.  Results of  *)
(* searches that find nothing are NoRange.                                   *)
EXTENDS Integers, SequencesExt

Span(start, end) == [start |-> start, end |-> end]
NoRange == Span(-1, -1)
ContainsPoint(r, point) == point >= r.start /\ point < r.end
ContainsRange(r, other) == other.start >= r.start /\ other.end <= r.end
Overlaps(r, other) == ~(other.start >= r.end \/ other.end <= r.start)
Below(r, point) == r.end <= point
Above(r, point) == point < r.start

ByStart(a, b) == a.start < b.start \/ (a.start = b.start /\ a.end < b.end)
ByEnd(a, b) == b.end < a.end \/ (b.end = a.end /\ b.start < a.start)

-----------------------------------------------------------------------------
NoNode == [total |-> NoRange]

Node(total) ==
  [total |-> total, midpoint |-> total.start + (total.end - total.start) \div 2,
   overlapStart |-> <<>>, lower |-> NoNode, higher |-> NoNode]

overlapEnd(n) == SortSeq(n.overlapStart, ByEnd)

Lower(n) ==
  IF n.lower = NoNode THEN Node(Span(n.total.start, n.midpoint)) ELSE n.lower

Higher(n) ==
  IF n.higher = NoNode THEN Node(Span(n.midpoint, n.total.end)) ELSE n.higher

\* A range outside the total range of the tree is refused.  A range with no
\* address in it contains no midpoint: the recursion of the code does not end.
CanAdd(n, r) == ContainsRange(n.total, r)

RECURSIVE add(_, _)
add(n, r) ==
  IF ~CanAdd(n, r) THEN n
  ELSE IF Below(r, n.midpoint) THEN [n EXCEPT !.lower = add(Lower(n), r)]
  ELSE IF ContainsPoint(r, n.midpoint) THEN
    [n EXCEPT !.overlapStart = SortSeq(Append(@, r), ByStart)]
  ELSE [n EXCEPT !.higher = add(Higher(n), r)]

RECURSIVE remove(_, _)
remove(n, r) ==
  IF n = NoNode THEN n
  ELSE IF Below(r, n.midpoint) THEN [n EXCEPT !.lower = remove(@, r)]
  ELSE IF Above(r, n.midpoint) THEN [n EXCEPT !.higher = remove(@, r)]
  ELSE IF Contains(n.overlapStart, r) THEN
    [n EXCEPT !.overlapStart = RemoveFirst(@, r)]
  ELSE n

-----------------------------------------------------------------------------
\* What a loop over the list sees when it breaks at the first element of stops.
UntilBreak(list, stops) ==
  LET at == {k \in DOMAIN list : list[k] \in stops}
  IN  IF at = {} THEN list ELSE SubSeq(list, 1, Min(at))

RECURSIVE findOverlappingPoint(_, _)
findOverlappingPoint(n, point) ==
  LET Has(r) == ContainsPoint(r, point)
  IN  IF n = NoNode THEN <<>>
      ELSE IF point < n.midpoint THEN
        findOverlappingPoint(n.lower, point)
          \o SelectSeq(UntilBreak(n.overlapStart, {r \in ToSet(n.overlapStart) : Above(r, point)}), Has)
      ELSE
        SelectSeq(UntilBreak(overlapEnd(n), {r \in ToSet(n.overlapStart) : Below(r, point)}), Has)
          \o findOverlappingPoint(n.higher, point)

RECURSIVE findOverlapping(_, _)
findOverlapping(n, range) ==
  IF n = NoNode THEN <<>>
  ELSE
    LET searchHigher == ~Below(range, n.midpoint)
        searchLower == ~(Above(range, n.midpoint) \/ n.midpoint = range.start)
    IN  (IF searchLower THEN findOverlapping(n.lower, range) ELSE <<>>)
          \o SelectSeq(n.overlapStart, LAMBDA r : Overlaps(r, range))
          \o (IF searchHigher THEN findOverlapping(n.higher, range) ELSE <<>>)

\* The first of several results that is one.
FirstFound(results) ==
  LET found == SelectSeq(results, LAMBDA r : r # NoRange)
  IN  IF found = <<>> THEN NoRange ELSE Head(found)

\* findLowerBound and findLowerBoundOrOverlapping differ in what they take.
LowerTest(r, point, orOverlapping) ==
  Below(r, point) \/ (orOverlapping /\ ContainsPoint(r, point))

UpperTest(r, point, orOverlapping) ==
  Above(r, point) \/ (orOverlapping /\ ContainsPoint(r, point))

\* Mutant: the lower half is searched first.
RECURSIVE LowerBoundLowerFirst(_, _, _)
LowerBoundLowerFirst(n, point, orOverlapping) ==
  IF n = NoNode THEN NoRange
  ELSE FirstFound(
    <<LowerBoundLowerFirst(n.lower, point, orOverlapping)>>
      \o SelectSeq(Reverse(overlapEnd(n)),
                   LAMBDA r : LowerTest(r, point, orOverlapping))
      \o <<IF point >= n.midpoint
           THEN LowerBoundLowerFirst(n.higher, point, orOverlapping) ELSE NoRange>>)

RECURSIVE findLowerBound(_, _, _)
findLowerBound(n, point, orOverlapping) ==
  IF n = NoNode THEN NoRange
  ELSE FirstFound(
    <<IF point >= n.midpoint
      THEN findLowerBound(n.higher, point, orOverlapping) ELSE NoRange>>
      \o SelectSeq(Reverse(overlapEnd(n)),
                   LAMBDA r : LowerTest(r, point, orOverlapping))
      \o <<findLowerBound(n.lower, point, orOverlapping)>>)

RECURSIVE findUpperBound(_, _, _)
findUpperBound(n, point, orOverlapping) ==
  IF n = NoNode THEN NoRange
  ELSE FirstFound(
    <<IF point < n.midpoint
      THEN findUpperBound(n.lower, point, orOverlapping) ELSE NoRange>>
      \o SelectSeq(n.overlapStart,
                   LAMBDA r : UpperTest(r, point, orOverlapping))
      \o <<findUpperBound(n.higher, point, orOverlapping)>>)

\* inStartOrderTraversal, and with it getAllData.
RECURSIVE getAllData(_)
getAllData(n) ==
  IF n = NoNode THEN <<>>
  ELSE getAllData(n.lower) \o n.overlapStart \o getAllData(n.higher)

-----------------------------------------------------------------------------
splitAt(n, point) ==
  LET found == findOverlappingPoint(n, point)
      r == found[1]
  IN  IF \/ ~ContainsPoint(n.total, point)
         \/ Len(found) # 1
         \/ point \in {r.start, r.end}
      THEN n
      ELSE add(add(remove(n, r), Span(r.start, point)), Span(point, r.end))

\* What is left of every range that overlaps the one subtracted begins again
\* behind the addendum.
subtractWithAddendum(n, range, addendum) ==
  LET Cut(t, r) ==
        LET before == IF r.start < range.start
                      THEN add(remove(t, r), Span(r.start, range.start))
                      ELSE remove(t, r)
        IN  IF addendum.end < r.end
            THEN add(before, Span(addendum.end, r.end)) ELSE before
  IN  FoldLeft(Cut, n, findOverlapping(n, range))

subtract(n, range) == subtractWithAddendum(n, range, range)

unionWith(n, other) == FoldLeft(add, n, getAllData(other))

complement(n) ==
  LET Gap(acc, r) ==
        [tree |-> IF r.start > acc.lastPoint
                  THEN add(acc.tree, Span(acc.lastPoint, r.start)) ELSE acc.tree,
         lastPoint |-> IF r.end > acc.lastPoint THEN r.end ELSE acc.lastPoint]
      acc == FoldLeft(Gap, [tree |-> Node(n.total), lastPoint |-> n.total.start],
                      getAllData(n))
  IN  IF acc.lastPoint < n.total.end
      THEN add(acc.tree, Span(acc.lastPoint, n.total.end)) ELSE acc.tree
=============================================================================
