--------------------------- MODULE FunctionRanges ---------------------------
(* DisassembleX86Function::linearDisassembly (disasm/disassemble.cpp): how   *)
(* the code section of a binary without symbols is divided into functions.   *)
(* The section is cut where code is known or seen to be called, the nops at  *)
(* the end of every piece are dropped as padding, and the functions known    *)
(* from .eh_frame and from dynamic symbols are taken out and put back in.    *)
(*                                                                           *)
(* An instruction is its id, its size and, for a direct call, its target.    *)
(* capstone stops at bytes it cannot decode (id "bad").  .init and .fini are *)
(* outside the section and are left out.                                     *)
EXTENDS IntervalTree

CONSTANTS
  Binaries,   \* [start, code, known, entry, arrays]: the address and the
              \* instructions of the section, the ranges of FDEs and of dynamic
              \* function symbols, the entry point, the words of .init_array
              \* and .fini_array
  Nowhere     \* the target of an instruction that is no direct call

VARIABLES
  bin, pc,
  knownFunctions, splitRanges, functionPadding, functionsWithoutPadding

trees == <<knownFunctions, splitRanges, functionPadding, functionsWithoutPadding>>
vars == <<bin, pc, trees>>

\* The address of the k-th instruction of the section.
AddressOf(b, k) ==
  FoldLeft(LAMBDA sum, ins : sum + ins.size, b.start, SubSeq(b.code, 1, k - 1))

Section(b) == Span(b.start, AddressOf(b, Len(b.code) + 1))

\* cs_disasm over a range: the indices of the instructions it returns.
Decoded(b, range) ==
  LET inside == {k \in DOMAIN b.code : ContainsPoint(range, AddressOf(b, k))}
      bad == {k \in inside : b.code[k].id = "bad"}
      count == Cardinality(IF bad = {} THEN inside
                           ELSE {k \in inside : k < Min(bad)})
      first == IF inside = {} THEN 1 ELSE Min(inside)
  IN  [k \in 1 .. count |-> first + k - 1]

Init ==
  /\ bin \in Binaries
  /\ pc = "known"
  /\ knownFunctions = Node(Section(bin))
  /\ splitRanges = knownFunctions
  /\ functionPadding = knownFunctions
  /\ functionsWithoutPadding = knownFunctions

-----------------------------------------------------------------------------
\* The FDEs, then the dynamic symbols of functions with a size; what lies
\* outside the section is skipped.
FindKnown ==
  /\ pc = "known"
  /\ knownFunctions' = FoldLeft(add, knownFunctions, bin.known)
  /\ pc' = "entries"
  /\ UNCHANGED <<bin, splitRanges, functionPadding, functionsWithoutPadding>>

SplitAtEntries ==
  /\ pc = "entries"
  /\ splitRanges' = FoldLeft(splitAt, add(splitRanges, Section(bin)),
                             <<bin.entry>> \o bin.arrays)
  /\ pc' = "first"
  /\ UNCHANGED <<bin, knownFunctions, functionPadding, functionsWithoutPadding>>

\* One instruction of firstDisassemblyPass: the run of nops before it is
\* padding if it is not a nop itself.
PassOver(acc, k) ==
  LET ins == bin.code[k]
      at == AddressOf(bin, k)
  IN  [split |-> IF ins.target # Nowhere THEN splitAt(acc.split, ins.target)
                 ELSE acc.split,
       padding |-> IF ins.id # "nop" /\ acc.nopBytes > 0
                   THEN add(acc.padding, Span(at - acc.nopBytes, at))
                   ELSE acc.padding,
       nopBytes |-> IF ins.id = "nop" THEN acc.nopBytes + ins.size ELSE 0]

\* The nops at the end of what was decoded are taken for the end of the section.
firstDisassemblyPass ==
  LET acc == FoldLeft(PassOver,
               [split |-> splitRanges, padding |-> functionPadding, nopBytes |-> 0],
               Decoded(bin, Section(bin)))
      end == Section(bin).end
  IN  /\ pc = "first"
      /\ splitRanges' = acc.split
      /\ functionPadding' = IF acc.nopBytes > 0
                            THEN add(acc.padding, Span(end - acc.nopBytes, end))
                            ELSE acc.padding
      /\ pc' = "shrink"
      /\ UNCHANGED <<bin, knownFunctions, functionsWithoutPadding>>

\* The padding at or below the end of a range.
BoundOf(func) == findLowerBound(functionPadding, func.end, TRUE)

EndsInPadding(func, bound) ==
  func.end = bound.end \/ ContainsPoint(bound, func.end)

\* Mutant: the whole padding is dropped, also what the next function begins
\* with.
ShrunkByBound(func) ==
  LET bound == BoundOf(func)
  IN  IF bound = NoRange THEN <<>> ELSE <<Span(func.start, bound.start)>>

\* What is added for a piece of the section; nothing if no padding lies at or
\* below its end.
Shrunk(func) ==
  LET bound == BoundOf(func)
  IN  IF bound = NoRange THEN <<>>
      ELSE IF EndsInPadding(func, bound) THEN <<Span(func.start, bound.start)>>
      ELSE <<func>>

Shrinking == FlattenSeq([k \in DOMAIN getAllData(splitRanges) |->
                           Shrunk(getAllData(splitRanges)[k])])

Shrink ==
  /\ pc = "shrink"
  /\ \A k \in DOMAIN Shrinking : Shrinking[k].start < Shrinking[k].end
  /\ functionsWithoutPadding' = FoldLeft(add, functionsWithoutPadding, Shrinking)
  /\ pc' = "subtract"
  /\ UNCHANGED <<bin, knownFunctions, splitRanges, functionPadding>>

\* A piece that is all padding: fromEndpoints fails, or add never returns.
ShrinkToNothing ==
  /\ pc = "shrink"
  /\ \E k \in DOMAIN Shrinking : Shrinking[k].start >= Shrinking[k].end
  /\ pc' = "abort"
  /\ UNCHANGED <<bin, trees>>

\* Mutant: a known function is only taken out if padding follows.
TakeOutIfPadded(tree, func) ==
  LET bound == BoundOf(func)
  IN  IF bound # NoRange /\ EndsInPadding(func, bound)
      THEN subtractWithAddendum(tree, func, bound)
      ELSE tree

TakeOut(tree, func) ==
  LET bound == BoundOf(func)
  IN  IF bound # NoRange /\ EndsInPadding(func, bound)
      THEN subtractWithAddendum(tree, func, bound)
      ELSE subtract(tree, func)

TakeOutKnown ==
  /\ pc = "subtract"
  /\ functionsWithoutPadding' = FoldLeft(TakeOut, functionsWithoutPadding,
                                         getAllData(knownFunctions))
  /\ pc' = "union"
  /\ UNCHANGED <<bin, knownFunctions, splitRanges, functionPadding>>

PutBackKnown ==
  /\ pc = "union"
  /\ functionsWithoutPadding' = unionWith(functionsWithoutPadding, knownFunctions)
  /\ pc' = "crtbegin"
  /\ UNCHANGED <<bin, knownFunctions, splitRanges, functionPadding>>

-----------------------------------------------------------------------------
\* disassembleCrtBeginFunctions: a function ends at a ret that is followed by
\* nops and then by something else than a ret.  The modes in which the code
\* looks at the instruction again are passed through: FOUND splits.
NextMode(mode, id) ==
  IF id = "nop" /\ mode # "NONE" THEN "NOP"
  ELSE IF id = "ret" THEN "RET"
  ELSE IF mode = "NOP" THEN "FOUND"
  ELSE "NONE"

CrtBegin(acc, k) ==
  LET mode == NextMode(acc.mode, bin.code[k].id)
  IN  IF mode = "FOUND"
      THEN [mode |-> "NONE", tree |-> splitAt(acc.tree, AddressOf(bin, k))]
      ELSE [mode |-> mode, tree |-> acc.tree]

\* Mutant: everything behind the entry point is gone over.
CrtBeginToTheEnd ==
  LET crtbegin == findUpperBound(functionsWithoutPadding, bin.entry, FALSE)
      acc == FoldLeft(CrtBegin, [mode |-> "NONE", tree |-> functionsWithoutPadding],
                      Decoded(bin, Span(crtbegin.start, Section(bin).end)))
  IN  /\ pc = "crtbegin"
      /\ functionsWithoutPadding' =
           IF crtbegin = NoRange THEN functionsWithoutPadding ELSE acc.tree
      /\ pc' = "done"
      /\ UNCHANGED <<bin, knownFunctions, splitRanges, functionPadding>>

\* The first range behind the entry point is taken for the functions of
\* crtbegin.o.
disassembleCrtBeginFunctions ==
  LET crtbegin == findUpperBound(functionsWithoutPadding, bin.entry, FALSE)
      acc == FoldLeft(CrtBegin, [mode |-> "NONE", tree |-> functionsWithoutPadding],
                      Decoded(bin, crtbegin))
  IN  /\ pc = "crtbegin"
      /\ functionsWithoutPadding' =
           IF crtbegin = NoRange THEN functionsWithoutPadding ELSE acc.tree
      /\ pc' = "done"
      /\ UNCHANGED <<bin, knownFunctions, splitRanges, functionPadding>>

Next ==
  \/ FindKnown
  \/ SplitAtEntries
  \/ firstDisassemblyPass
  \/ Shrink
  \/ ShrinkToNothing
  \/ TakeOutKnown
  \/ PutBackKnown
  \/ disassembleCrtBeginFunctions

Spec == Init /\ [][Next]_vars

-----------------------------------------------------------------------------
Ranges(tree) == getAllData(tree)
IsDone == pc = "done"
Functions == Ranges(functionsWithoutPadding)

IsDisjoint(list) == \A j, k \in DOMAIN list : j # k => ~Overlaps(list[j], list[k])

Covered(list, p) == \E k \in DOMAIN list : ContainsPoint(list[k], p)

\* The addresses of the bytes of instructions with the given id.
BytesOf(id) ==
  UNION {AddressOf(bin, k) .. (AddressOf(bin, k + 1) - 1)
           : k \in {k \in DOMAIN bin.code : bin.code[k].id = id}}

DecodesToTheEnd == \A k \in DOMAIN bin.code : bin.code[k].id # "bad"

\* Where the section is cut: at what the arrays, the entry point and the calls
\* that were decoded point to.
Cuts ==
  {p \in {bin.entry} \cup ToSet(bin.arrays)
         \cup {bin.code[k].target : k \in ToSet(Decoded(bin, Section(bin)))}
     : p # Nowhere /\ ContainsPoint(Section(bin), p)}

\* The known functions that lie in the section.
Known == SelectSeq(bin.known, LAMBDA r : ContainsRange(Section(bin), r))

\* No address is in two functions, provided no two known functions overlap:
\* what was taken out for a known function does not meet what is put back.
FunctionsDisjoint ==
  IsDone /\ IsDisjoint(Known) => IsDisjoint(Functions)

\* Every function known from .eh_frame or from a dynamic symbol is in the list
\* with its own range, however the section was cut, unless it is the one taken
\* for the functions of crtbegin.o.
KnownFunctionsKept ==
  pc \in {"crtbegin", "done"} =>
    \A k \in DOMAIN Known :
      \/ Contains(Functions, Known[k])
      \/ /\ IsDone
         /\ Known[k].start > bin.entry
         /\ \A j \in DOMAIN Functions :
              Functions[j].start \notin (bin.entry + 1) .. (Known[k].start - 1)

\* Where padding was found at or below it, every byte of code that is not a nop
\* is in a function: nothing but padding is dropped.
CodeIsKept ==
  IsDone /\ DecodesToTheEnd /\ IsDisjoint(Known) =>
    \A p \in (Section(bin).start .. (Section(bin).end - 1)) \ BytesOf("nop") :
      \/ Covered(Functions, p)
      \/ \E k \in DOMAIN Ranges(splitRanges) :
           LET piece == Ranges(splitRanges)[k]
           IN  ContainsPoint(piece, p) /\ BoundOf(piece) = NoRange

\* As the comment on the loop says, functions are shrunk by their padding: every
\* byte of code that is not a nop is still in a function.  The code adds nothing
\* for a piece with no padding at or below its end.
ShrinkingKeepsCode ==
  pc = "subtract" /\ DecodesToTheEnd =>
    \A p \in (Section(bin).start .. (Section(bin).end - 1)) \ BytesOf("nop") :
      Covered(Functions, p)
=============================================================================
