----------------------------- MODULE CodeEditor -----------------------------
(***************************************************************************)
(* What the passes may assume of ChunkMutator: a Function is a sequence of *)
(* semantics, and a jump names a label (an Instruction) and lands on the   *)
(* semantic that the label holds.  Code is put in at one place, with every *)
(* jump into the code landing where it did, or in front of the target of a *)
(* jump, which from then on lands on the new code; or it is taken out of   *)
(* one place.  Nothing is said of Blocks, pointers, sizes or Positions.    *)
(***************************************************************************)
EXTENDS Naturals, FiniteSets, SequencesExt

CONSTANTS Items,    \* the semantics
          Labels    \* the Instructions

VARIABLES code,     \* the code of the Function, a sequence of Items
          lands     \* [Labels -> Items]

vars == <<code, lands>>

\* Sequences of distinct Items of S.
Pieces(S) == {p \in BoundedSeq(S, Cardinality(S)) : IsInjective(p)}

Absent == Items \ ToSet(code)

Splice(k, n, piece) ==
  SubSeq(code, 1, k) \o piece \o SubSeq(code, k + n + 1, Len(code))

Insert(k, piece) ==
  /\ code' = Splice(k, 0, piece)
  /\ UNCHANGED lands

\* The label x, which holds code that is not in the Function, trades places
\* with the label p of the item number k + 1.
InsertJumpTo(k, p, x) ==
  /\ lands[p] = code[k + 1]
  /\ lands[x] \in Absent
  /\ code' = Splice(k, 0, <<lands[x]>>)
  /\ lands' = [lands EXCEPT ![p] = lands[x], ![x] = lands[p]]

Erase(k, n) ==
  /\ code' = Splice(k, n, << >>)
  /\ UNCHANGED lands

\* Code that is not part of the Function yet is edited.
EditElsewhere ==
  /\ UNCHANGED code
  /\ lands' \in [Labels -> Items]
  /\ IsInjective(lands')
  /\ \A l \in Labels : lands[l] \in ToSet(code) => lands'[l] = lands[l]

Init ==
  /\ code \in Pieces(Items)
  /\ lands \in [Labels -> Items]
  /\ IsInjective(lands)

Next ==
  \/ \E k \in 0..Len(code) : \E piece \in Pieces(Absent) : Insert(k, piece)
  \/ \E k \in 0..(Len(code) - 1), p, x \in Labels : InsertJumpTo(k, p, x)
  \/ \E k \in 0..(Len(code) - 1) : \E n \in 1..(Len(code) - k) : Erase(k, n)
  \/ EditElsewhere

Spec == Init /\ [][Next]_vars
=============================================================================
