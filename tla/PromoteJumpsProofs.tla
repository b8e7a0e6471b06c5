------------------------- MODULE PromoteJumpsProofs -------------------------
(***************************************************************************)
(* For any Function: when the pass stops, every jump reaches its target.   *)
(* The invariant is about the current round: as long as nothing has been   *)
(* changed in it, what the round has gone over needs no promotion, and     *)
(* since the code is the same as when it was looked at, it still does not  *)
(* when the round ends.                                                    *)
(***************************************************************************)
EXTENDS PromoteJumps, TLAPS

\* Instruction i has been looked at and left as it is.
Settled(i) ==
  code[i].link # "none" =>
    /\ ~needsPromotion(code, i)
    /\ fitsIn(calculateDisplacement(code, i), Word)

CodeOK ==
  /\ code \in Seq(Instructions)
  /\ \A i \in DOMAIN code : code[i].link # "none" => code[i].disp # 0 /\ code[i].id \in Jumps

RoundInv ==
  /\ CodeOK
  /\ at \in Nat \ {0}
  /\ changed \in BOOLEAN
  /\ status = "running" /\ ~changed => \A i \in DOMAIN code : i < at => Settled(i)
  /\ status = "done" => \A i \in DOMAIN code : Settled(i)

LEMMA InitRound == Init => RoundInv
<1> SUFFICES ASSUME Init PROVE RoundInv
  OBVIOUS
<1>1. CodeOK
  BY PromoteJumpsAssumption DEF Init, CodeOK, Instructions
<1>2. \A i \in DOMAIN code : ~(i < at)
  BY <1>1 DEF Init, CodeOK
<1>3. at \in Nat \ {0} /\ status # "done"
  BY DEF Init
<1>4. changed \in BOOLEAN
  BY Zenon DEF Init
<1> QED
  BY <1>1, <1>2, <1>3, <1>4 DEF RoundInv

\* Promotion changes opcode and displacement only.
LEMMA PromotedType ==
  ASSUME NEW x \in Instructions, x.id \in Jumps
  PROVE  /\ promote(x) \in Instructions
         /\ promote(x).disp = 4 /\ promote(x).id = x.id /\ promote(x).link = x.link
<1>1. getWiderOpcode(x) \in Nat
  BY DEF getWiderOpcode, Jumps
<1> QED
  BY <1>1 DEF promote, Instructions

LEMMA visitStep ==
  ASSUME RoundInv, visit
  PROVE  RoundInv'
<1>1. /\ CodeOK /\ Len(code) \in Nat /\ DOMAIN code = 1..Len(code)
      /\ at \in Nat \ {0} /\ at <= Len(code) /\ status = "running" /\ changed \in BOOLEAN
      /\ at' = at + 1
      /\ changed' = (changed \/ needsPromotion(code, at))
      /\ status' \in {"running", "aborted"}
  BY DEF RoundInv, visit, CodeOK
<1>2. CASE needsPromotion(code, at)
  <2>1. at \in DOMAIN code /\ code[at] \in Instructions
        /\ code[at].id \in Jumps
    BY <1>1, <1>2 DEF needsPromotion, IsShort, CodeOK
  <2>2. code' = [code EXCEPT ![at] = promote(code[at])]
    BY <1>2 DEF visit
  <2>3. CodeOK'
    BY <1>1, <2>1, <2>2, PromotedType DEF CodeOK
  <2>4. changed' = TRUE
    BY <1>1, <1>2
  <2> QED
    BY <1>1, <2>3, <2>4 DEF RoundInv
<1>3. CASE ~needsPromotion(code, at)
  <2>1. code' = code
    BY <1>3 DEF visit
  <2>2. ASSUME status' = "running" PROVE Settled(at)
    BY <1>3, <2>2 DEF visit, Settled
  <2>3. changed' \in BOOLEAN
    BY <1>1, <1>3
  <2>4. ~changed' => ~changed
    BY <1>1
  <2>5. ASSUME status' = "running", ~changed', NEW i \in DOMAIN code', i < at'
        PROVE  Settled(i)'
    <3>1. i < at \/ i = at
      BY <1>1, <2>1, <2>5
    <3>2. Settled(i)
      BY <1>1, <2>1, <2>2, <2>4, <2>5, <3>1 DEF RoundInv
    <3> QED
      BY <2>1, <3>2 DEF Settled
  <2> QED
    BY <1>1, <2>1, <2>3, <2>5 DEF RoundInv, CodeOK
<1> QED
  BY <1>2, <1>3

LEMMA EndRoundStep ==
  ASSUME RoundInv, EndRound
  PROVE  RoundInv'
<1>1. /\ CodeOK /\ DOMAIN code = 1..Len(code) /\ Len(code) \in Nat
      /\ at \in Nat \ {0} /\ at > Len(code) /\ code' = code /\ changed' = FALSE
  BY DEF RoundInv, EndRound, CodeOK
<1>2. CASE changed
  <2>1. at' = 1 /\ status' = "running" /\ \A i \in DOMAIN code : ~(i < 1)
    BY <1>1, <1>2 DEF EndRound
  <2>2. at' \in Nat \ {0} /\ status' # "done"
    BY <2>1
  <2>2a. changed' \in BOOLEAN
    BY <1>1, Zenon
  <2>3. CodeOK' /\ \A i \in DOMAIN code' : ~(i < at')
    BY <1>1, <2>1 DEF CodeOK
  <2> QED
    BY <2>2, <2>2a, <2>3 DEF RoundInv
<1>3. CASE ~changed
  <2>1. status' = "done" /\ at' = at
    BY <1>3 DEF EndRound
  <2>2. \A i \in DOMAIN code : Settled(i)
    BY <1>1, <1>3 DEF RoundInv, EndRound
  <2>3. \A i \in DOMAIN code : Settled(i)'
    BY <1>1, <2>2 DEF Settled
  <2> QED
    BY <1>1, <2>1, <2>3 DEF RoundInv, CodeOK
<1> QED
  BY <1>2, <1>3

\* When PromoteJumpsPass is done with a Function, whatever it looks like, every
\* jump is written with a displacement that leads to its target, and jumps to
\* other Functions are wide (promotejumps.cpp:9-44).
THEOREM EveryJumpReaches == Spec => []JumpsReach
<1>1. RoundInv /\ [Next]_vars => RoundInv'
  <2> SUFFICES ASSUME RoundInv, [Next]_vars PROVE RoundInv'
    OBVIOUS
  <2>1. CASE UNCHANGED vars
    BY <2>1 DEF vars, RoundInv, CodeOK, Settled
  <2> QED
    BY <2>1, visitStep, EndRoundStep DEF Next
<1>2. RoundInv => JumpsReach
  <2> SUFFICES ASSUME RoundInv, status = "done",
                      NEW i \in DOMAIN code, code[i].link # "none"
               PROVE  /\ writeTo(code, i) = calculateDisplacement(code, i)
                      /\ isExternalJump(code[i]) => code[i].disp = 4
    BY DEF JumpsReach
  <2>1. /\ ~needsPromotion(code, i) /\ code[i].disp \in {1, 4}
        /\ fitsIn(calculateDisplacement(code, i), Word)
    <3>1. CodeOK /\ Settled(i)
      BY DEF RoundInv
    <3>2. code[i] \in Instructions /\ code[i].disp # 0
      BY <3>1 DEF CodeOK
    <3>3. code[i].disp \in {0, 1, 4}
      BY <3>2 DEF Instructions
    <3> QED
      BY <3>1, <3>2, <3>3 DEF Settled
  <2>2. CASE code[i].disp = 1
    BY <2>1, <2>2 DEF needsPromotion, IsShort, fitsIn, writeTo
  <2>3. CASE code[i].disp = 4
    BY <2>1, <2>3 DEF fitsIn, writeTo
  <2> QED
    BY <2>1, <2>2, <2>3
<1> QED
  BY InitRound, <1>1, <1>2, PTL DEF Spec
=============================================================================
