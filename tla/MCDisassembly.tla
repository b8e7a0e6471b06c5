--------------------------- MODULE MCDisassembly ----------------------------
(* A behaviour is either one of an IntervalTree that is filled and searched  *)
(* by arbitrary calls, or one of linearDisassembly for one of the binaries.  *)
EXTENDS FunctionRanges

CONSTANTS Length, MaxHeld

VARIABLES unit, tree, held

MCTotal == Span(0, 6)
Set == INSTANCE IntervalSet WITH Total <- MCTotal

MCNowhere == -1

\* The second instruction of a section has two bytes, the others have one.
Place(k) == IF k <= 2 THEN 99 + k ELSE 100 + k

Instr(id, k, target) ==
  [id |-> id, size |-> IF k = 2 THEN 2 ELSE 1, target |-> target]

Codes(ids) ==
  {[k \in 1 .. Length |->
      IF k = 1 THEN Instr("op", k, target) ELSE Instr(code[k], k, MCNowhere)]
     : code \in [2 .. Length -> ids],
       target \in {MCNowhere} \cup {Place(k) : k \in 2 .. Length}}

Bounds == {Place(k) : k \in 1 .. (Length + 1)}
Single == {r \in [start : Bounds, end : Bounds] : r.start < r.end}

\* No known function, one anywhere, two that are disjoint, and one known both
\* from its FDE and from its symbol.
Knowns ==
  {<<>>} \cup {<<r>> : r \in Single}
    \cup {<<Span(Place(1), Place(2)), Span(Place(4), Place(5))>>,
          <<Span(Place(2), Place(4)), Span(Place(2), Place(4))>>}

Binary(code, known, entry) ==
  [start |-> Place(1), code |-> code, known |-> known, entry |-> entry,
   arrays |-> IF entry = Place(1) THEN <<Place(4), 0>> ELSE <<>>]

MCBinaries ==
  {Binary(code, known, entry)
     : code \in Codes({"op", "nop", "ret"}), known \in Knowns,
       entry \in {Place(1), Place(3)}}
    \cup {Binary(code, <<>>, Place(3)) : code \in Codes({"op", "nop", "bad"})}

-----------------------------------------------------------------------------
DisassemblyInit ==
  \/ unit = "section" /\ Init /\ tree = NoNode /\ held = 0
  \/ /\ unit = "tree" /\ Set!Init
     /\ pc = "known" /\ bin = 0
     /\ knownFunctions = 0 /\ splitRanges = 0
     /\ functionPadding = 0 /\ functionsWithoutPadding = 0

DisassemblyNext ==
  /\ UNCHANGED unit
  /\ \/ unit = "section" /\ Next /\ UNCHANGED <<tree, held>>
     \/ unit = "tree" /\ Set!Next /\ UNCHANGED vars

DisassemblySpec ==
  DisassemblyInit /\ [][DisassemblyNext]_<<vars, unit, tree, held>>

\* An IntervalTree is a bag of ranges: it holds the ranges that were added,
\* split and cut, findOverlapping finds every one that overlaps, and if they are
\* disjoint the bounds found are the nearest and the traversal is in order.
TreeIsABag == unit = "tree" => Set!ActsAsBag
=============================================================================
