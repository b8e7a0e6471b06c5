------------------------------ MODULE Vectors ------------------------------
(***************************************************************************)
(* The few operators on vectors that the models with proofs use.  They are *)
(* those of SequencesExt, kept apart because the many definitions of that  *)
(* module would be part of every proof obligation.                         *)
(***************************************************************************)
EXTENDS Integers, Sequences, Folds

ToSet(s) == {s[i] : i \in DOMAIN s}

Front(s) == SubSeq(s, 1, Len(s) - 1)

Last(s) == s[Len(s)]

\* op(... op(op(base, s[1]), s[2]) ..., s[n])
FoldLeft(op(_, _), base, s) ==
  MapThenFoldSet(LAMBDA x, y : op(y, x), base, LAMBDA i : s[i],
                 LAMBDA I : CHOOSE i \in I : \A j \in I : j <= i,
                 DOMAIN s)

FlattenSeq(ss) == FoldLeft(\o, << >>, ss)

BoundedSeq(S, n) == UNION {[1..m -> S] : m \in 0..n}
=============================================================================
