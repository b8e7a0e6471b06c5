---------------------------- MODULE JumpEncoding ----------------------------
(***************************************************************************)
(* The sizes, addresses and displacements of the jumps of a Function       *)
(* (src/instr/linked-x86_64.cpp) and what PromoteJumpsPass asks of them    *)
(* (src/pass/promotejumps.cpp).                                            *)
(*                                                                         *)
(* An instruction is a record: id, the jump's opcode or "other"; opcode,   *)
(* the number of its opcode bytes; disp, the size of its displacement;     *)
(* link, "none", "within" (SCOPE_WITHIN_FUNCTION), "external" or "table"   *)
(* (a GSTableLink); and target, the number of an instruction of the        *)
(* Function, an address, or the offset of an entry in the GSTable.         *)
(* Addresses follow from sizes, as the mutator keeps them.                 *)
(***************************************************************************)
EXTENDS Integers, Sequences, FiniteSetsExt

CONSTANTS Bodies,      \* the Functions that may be visited
          Start,       \* the address of the Function
          Word         \* the number of values of four bytes

Jumps == {"jmp", "jcc", "jrcxz", "call"}

Instructions ==
  [id : Jumps \cup {"other"}, opcode : Nat, disp : {0, 1, 4},
   link : {"none", "within", "external", "table"}, target : Int]

ASSUME PromoteJumpsAssumption ==
  /\ Start \in Int
  /\ Word \in Nat
  /\ \A code \in Bodies :
       /\ code \in Seq(Instructions)
       /\ \A i \in DOMAIN code :
            /\ code[i].disp # 0 <=> code[i].id \in Jumps
            /\ code[i].link # "none" => code[i].id \in Jumps
            /\ code[i].link = "within" => code[i].target \in DOMAIN code

getSize(x) == x.opcode + x.disp

TotalSize(c, S) == MapThenSumSet(LAMBDA i : getSize(c[i]), S)

getAddress(c, i) == Start + TotalSize(c, 1..(i - 1))

getTargetAddress(c, i) ==
  IF c[i].link = "within" THEN getAddress(c, c[i].target) ELSE c[i].target

isRIPRelative(x) == x.link # "table"
isExternalJump(x) == x.link \in {"external", "table"}

calculateDisplacement(c, i) ==
  getTargetAddress(c, i)
    - (IF isRIPRelative(c[i]) THEN getAddress(c, i) + getSize(c[i]) ELSE 0)

\* the value that is left of d when it is stored in one of n ways
narrow(d, n) == ((d + n \div 2) % n) - n \div 2

fitsIn(d, n) == narrow(d, n) = d

\* JRCXZ is left without an opcode
getWiderOpcode(x) == [jmp |-> 1, jcc |-> 2, jrcxz |-> 0, call |-> 0][x.id]

=============================================================================
