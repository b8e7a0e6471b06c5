---------------------------- MODULE PromoteJumps ----------------------------
(***************************************************************************)
(* PromoteJumpsPass (src/pass/promotejumps.cpp) on one Function, and the   *)
(* writing of its jumps (src/instr/linked-x86_64.cpp).  A jump with a      *)
(* displacement of one byte is given one of four when its target is out of *)
(* reach or in another Function; that makes the code longer, so that the   *)
(* pass goes over the Function until nothing changes.                      *)
(***************************************************************************)
EXTENDS JumpEncoding

VARIABLES code,
          size,     \* of the Function
          at,       \* the next instruction
          changed,
          status,   \* "running", "done" or "aborted"
          first     \* the code as the pass found it (history)

vars == << code, size, at, changed, status, first >>

Init ==
  /\ code \in Bodies
  /\ size = TotalSize(code, DOMAIN code)
  /\ at = 1
  /\ changed = FALSE
  /\ status = "running"
  /\ first = code

IsShort(c, i) == c[i].link # "none" /\ c[i].disp = 1

\* jumps out of the Function are left as they are
needsPromotionByReach(c, i) ==
  IsShort(c, i) /\ ~fitsIn(calculateDisplacement(c, i), 256)

needsPromotion(c, i) ==
  /\ IsShort(c, i)
  /\ \/ ~fitsIn(calculateDisplacement(c, i), 256)
     \/ isExternalJump(c[i])

promote(x) == [x EXCEPT !.opcode = getWiderOpcode(x), !.disp = 4]

visit ==
  /\ status = "running"
  /\ at <= Len(code)
  /\ code' = IF needsPromotion(code, at) THEN [code EXCEPT ![at] = promote(@)]
                                         ELSE code
  /\ size' = size + getSize(code'[at]) - getSize(code[at])
  /\ changed' = (changed \/ needsPromotion(code, at))
  /\ status' = IF code[at].link # "none"
                  /\ ~fitsIn(calculateDisplacement(code, at), Word)
               THEN "aborted" ELSE "running"
  /\ at' = at + 1
  /\ UNCHANGED first

\* changed is not reset
EndRoundStillChanged ==
  /\ status = "running"
  /\ at > Len(code)
  /\ IF changed THEN at' = 1 /\ UNCHANGED status
                ELSE status' = "done" /\ UNCHANGED at
  /\ UNCHANGED << code, size, changed, first >>

\* the loop of visit(Function)
EndRound ==
  /\ status = "running"
  /\ at > Len(code)
  /\ IF changed THEN at' = 1 /\ UNCHANGED status
                ELSE status' = "done" /\ UNCHANGED at
  /\ changed' = FALSE
  /\ UNCHANGED << code, size, first >>

Next == visit \/ EndRound

Spec == Init /\ [][Next]_vars

FairSpec == Spec /\ WF_vars(Next)

-----------------------------------------------------------------------------
\* the displacement in the bytes that writeTo() produces for jump i
writeTo(c, i) ==
  narrow(calculateDisplacement(c, i), IF c[i].disp = 1 THEN 256 ELSE Word)

\* Opcodes and displacements keep the lengths that jumps may have.
TypeOK ==
  /\ code \in Seq(Instructions)
  /\ size \in Nat
  /\ at \in 1..(Len(code) + 1)
  /\ changed \in BOOLEAN
  /\ status \in {"running", "done", "aborted"}

\* After the pass every jump is written with the displacement that leads to the
\* target of its link, and no jump to another Function, which may still be
\* moved, is short (promotejumps.cpp:29-36).
\* A JRCXZ out of reach, which has no wide form and loses its opcode, is
\* excepted.
JumpsReach ==
  status = "done" =>
    \A i \in DOMAIN code : code[i].link # "none" /\ code[i].opcode # 0 =>
      /\ writeTo(code, i) = calculateDisplacement(code, i)
      /\ isExternalJump(code[i]) => code[i].disp = 4

\* The sets of short jumps of c that can be promoted and leave the others in
\* reach.
Sufficient(c) ==
  LET Short == {i \in DOMAIN c : IsShort(c, i)}
      With(S) == [i \in DOMAIN c |-> IF i \in S THEN promote(c[i]) ELSE c[i]]
  IN  {S \in SUBSET Short : \A i \in Short \ S :
         /\ ~isExternalJump(c[i])
         /\ calculateDisplacement(With(S), i) \in -128..127}

\* No jump is promoted that could have stayed short: what has been promoted is
\* in every set of jumps that would do, in whatever order the jumps come to
\* need it (promotejumps.cpp:9).
PromotesNoMore ==
  status = "done" =>
    \A S \in Sufficient(first) : {i \in DOMAIN code : code[i] # first[i]} \subseteq S

\* The repetition ends (promotejumps.cpp:12).
PassEnds == <>(status # "running")
=============================================================================
