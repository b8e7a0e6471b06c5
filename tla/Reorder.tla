------------------------------ MODULE Reorder ------------------------------
(***************************************************************************)
(* ReorderPush (src/pass/reorderpush.cpp) on one Block, with the analysis  *)
(* it rests on, ReachingDef (src/analysis/reachingdef.cpp).  ReachingDef   *)
(* goes over the instructions once and records for each one which earlier  *)
(* ones it must not be moved before; ReorderPush then picks, at random,    *)
(* any instruction whose predecessors have all been picked, and in the end *)
(* gives the semantics of the instructions out in the new order.  (The     *)
(* exchange of pushes and pops is switched off by an #if.)                 *)
(*                                                                         *)
(* An instruction is a record: op, its mnemonic and the mode of its        *)
(* operands, or another string for all that have no handler; src and dst,  *)
(* its registers; size; and link, whether its semantic points back at the  *)
(* Instruction: "linked" (LinkedInstruction), "flow"                       *)
(* (ControlFlowInstruction) or "none".  The base register of a memory      *)
(* operand is src, or dst where the operand is the destination, and index  *)
(* holds its index register, if it has one.                                *)
(* Instructions are numbered in the order of the Block; place[i] is the    *)
(* number of picks up to and including that of instruction i.              *)
(***************************************************************************)
EXTENDS Integers, Sequences, FiniteSets, Folds

CONSTANTS Registers, SP, FLAGS, MEMORY_REG,
          Candidates,  \* the Blocks that may be visited
          TooBig       \* 100

ASSUME ReorderAssumption ==
  /\ SP \in Registers
  /\ FLAGS \notin Registers
  /\ MEMORY_REG \notin Registers \cup {FLAGS}
  /\ TooBig \in Nat
  /\ \A block \in Candidates :
       block \in Seq([op : STRING, src : Registers, dst : Registers,
                      index : SUBSET Registers, size : Nat, link : {"none", "linked", "flow"}])

Places == Registers \cup {FLAGS, MEMORY_REG}

VARIABLES block,            \* the semantics, in order
          phase,            \* "analyze", "pick", "done", "aborted"
          analysed,         \* instructions gone over
          killMap,          \* instruction -> the ones it must follow
          currentWriteMap,  \* place -> its last writer, or 0
          currentReadMap,   \* place -> its readers since then
          place, picked,
          owner,            \* semantic -> the Instruction it points back at
          size              \* of the Block

vars == << block, phase, analysed, killMap, currentWriteMap, currentReadMap,
           place, picked, owner, size >>

Total(f, S) == MapThenFoldSet(+, 0, LAMBDA i : f[i],
                              LAMBDA I : CHOOSE i \in I : TRUE, S)

Sizes(b) == [i \in DOMAIN b |-> b[i].size]

Init ==
  /\ block \in Candidates
  /\ phase = "analyze"
  /\ analysed = 0
  /\ killMap = [i \in DOMAIN block |-> {}]
  /\ currentWriteMap = [r \in Places |-> 0]
  /\ currentReadMap = [r \in Places |-> {}]
  /\ place = [i \in DOMAIN block |-> 0]
  /\ picked = 0
  /\ owner = [i \in DOMAIN block |-> i]
  /\ size = Total(Sizes(block), DOMAIN block)

-----------------------------------------------------------------------------
(* The handlers of ReachingDef: the calls of setRegRead and setRegWrite,   *)
(* of setMemRead and setMemWrite, and of handleMem.                        *)

Adds == {"add_imm_reg", "add_reg_reg", "add_mem_reg"}
Compares == {"cmp_reg_reg", "cmp_imm_reg", "cmp_imm_mem"}
Moves == {"mov_imm_reg", "mov_reg_reg", "mov_mem_reg", "mov_reg_mem", "lea"}
Pushes == {"push_reg", "push_mem"}
Pops == {"pop_reg", "pop_mem"}

hasHandler(x) == x.op \in Adds \cup Compares \cup Moves \cup Pushes \cup Pops

\* none of the handlers is for a jump or a call
ASSUME FlowAssumption ==
  \A b \in Candidates : \A i \in DOMAIN b : b[i].link = "flow" => ~hasHandler(b[i])

OnlyIf(condition, r) == IF condition THEN {r} ELSE {}

hasMem(x) ==
  x.op \in {"add_mem_reg", "cmp_imm_mem", "mov_mem_reg", "mov_reg_mem", "lea",
            "push_mem", "pop_mem"}

Reads(x) ==
  OnlyIf(x.op \in {"add_reg_reg", "add_mem_reg", "cmp_reg_reg", "cmp_imm_mem",
                   "mov_reg_reg", "mov_mem_reg", "mov_reg_mem", "lea",
                   "push_reg", "push_mem", "pop_mem"}, x.src)
  \cup OnlyIf(x.op \in Adds \cup {"cmp_reg_reg", "cmp_imm_reg", "mov_reg_mem"},
              x.dst)
  \cup OnlyIf(x.op \in {"add_mem_reg", "cmp_imm_mem", "mov_mem_reg"} \cup Pops,
              MEMORY_REG)
  \cup OnlyIf(x.op \in Pushes \cup Pops, SP)
  \cup (IF hasMem(x) THEN x.index ELSE {})

\* comparisons leave the flags alone
WritesNoFlags(x) ==
  OnlyIf(x.op \in Adds \cup {"mov_imm_reg", "mov_reg_reg", "mov_mem_reg", "lea",
                             "pop_reg"}, x.dst)
  \cup OnlyIf(x.op \in Adds, FLAGS)
  \cup OnlyIf(x.op \in {"mov_reg_mem"} \cup Pushes, MEMORY_REG)
  \cup OnlyIf(x.op \in Pushes \cup Pops, SP)

Writes(x) ==
  OnlyIf(x.op \in Adds \cup {"mov_imm_reg", "mov_reg_reg", "mov_mem_reg", "lea",
                             "pop_reg"}, x.dst)
  \cup OnlyIf(x.op \in Adds \cup Compares, FLAGS)
  \cup OnlyIf(x.op \in {"mov_reg_mem"} \cup Pushes, MEMORY_REG)
  \cup OnlyIf(x.op \in Pushes \cup Pops, SP)

\* fillMovabs is only for an immediate operand; fillPop writes its register
\* before it reads and writes SP, and setRegWrite asserts that nothing is
\* written twice
failsAssertion(x) == x.op = "movabs_mem_reg" \/ (x.op = "pop_reg" /\ x.dst = SP)

-----------------------------------------------------------------------------
(* One instruction of ReachingDef::analyze()                               *)

\* what the setRegRead and setRegWrite of instruction i add to killMap[i]
Kills(i) ==
  ({currentWriteMap[r] : r \in Reads(block[i]) \cup Writes(block[i])} \ {0})
  \cup UNION {currentReadMap[r] : r \in Writes(block[i])}

\* a Block of one instruction or of very many is left alone
skip ==
  /\ phase = "analyze"
  /\ analysed = 0
  /\ Len(block) > TooBig \/ Len(block) = 1
  /\ phase' = "done"
  /\ place' = [i \in DOMAIN block |-> i]
  /\ picked' = Len(block)
  /\ UNCHANGED << block, analysed, killMap, currentWriteMap, currentReadMap,
                  owner, size >>

Analysing == phase = "analyze" /\ Len(block) # 1 /\ Len(block) <= TooBig
             /\ analysed < Len(block)

\* what is recorded for the places stays as it was
setBarrierAlone ==
  /\ Analysing
  /\ LET i == analysed + 1
     IN  /\ ~hasHandler(block[i]) /\ ~failsAssertion(block[i])
         /\ killMap' = [killMap EXCEPT ![i] = 1..analysed]
         /\ analysed' = i
  /\ UNCHANGED << block, phase, currentWriteMap, currentReadMap, place, picked,
                  owner, size >>

setBarrier ==
  /\ Analysing
  /\ LET i == analysed + 1
     IN  /\ ~hasHandler(block[i]) /\ ~failsAssertion(block[i])
         /\ killMap' = [killMap EXCEPT ![i] = 1..analysed]
         /\ currentWriteMap' = [r \in Places |-> i]
         /\ analysed' = i
  /\ UNCHANGED << block, phase, currentReadMap, place, picked, owner, size >>

fill ==
  /\ Analysing
  /\ LET i == analysed + 1
         x == block[i]
     IN  /\ hasHandler(x) /\ ~failsAssertion(x)
         /\ killMap' = [killMap EXCEPT ![i] = Kills(i)]
         /\ currentWriteMap' = [r \in Places |->
              IF r \in Writes(x) THEN i ELSE currentWriteMap[r]]
         /\ currentReadMap' = [r \in Places |->
              (IF r \in Writes(x) THEN {} ELSE currentReadMap[r])
              \cup OnlyIf(r \in Reads(x), i)]
         /\ analysed' = i
  /\ UNCHANGED << block, phase, place, picked, owner, size >>

fillAborts ==
  /\ Analysing
  /\ failsAssertion(block[analysed + 1])
  /\ phase' = "aborted"
  /\ UNCHANGED << block, analysed, killMap, currentWriteMap, currentReadMap,
                  place, picked, owner, size >>

-----------------------------------------------------------------------------
(* Picking                                                                 *)

\* the instructions that a search from i along killMap finds
inKillClosure(i) ==
  {j \in DOMAIN block :
     \A V \in SUBSET DOMAIN block :
       killMap[i] \subseteq V /\ (\A v \in V : killMap[v] \subseteq V) => j \in V}

computeDependencyClosure ==
  /\ phase = "analyze"
  /\ Len(block) # 1 /\ Len(block) <= TooBig
  /\ analysed = Len(block)
  /\ killMap' = [i \in DOMAIN block |-> inKillClosure(i)]
  /\ phase' = "pick"
  /\ UNCHANGED << block, analysed, currentWriteMap, currentReadMap, place,
                  picked, owner, size >>

visited == {i \in DOMAIN block : place[i] # 0}

areDependenciesCovered(i) == killMap[i] \subseteq visited

pickNextInstruction(i) ==
  /\ phase = "pick"
  /\ i \notin visited
  /\ areDependenciesCovered(i)
  /\ place' = [place EXCEPT ![i] = picked + 1]
  /\ picked' = picked + 1
  /\ UNCHANGED << block, phase, analysed, killMap, currentWriteMap,
                  currentReadMap, owner, size >>

\* Mutant: modifiedChildSize() is called for LinkedInstructions only.
RewriteLinkedSizes ==
  /\ phase = "pick"
  /\ picked = Len(block)
  /\ phase' = "done"
  /\ block' = [n \in DOMAIN block |->
                 block[CHOOSE i \in DOMAIN block : place[i] = n]]
  /\ owner' = [i \in DOMAIN block |->
                 IF block[i].link = "linked" /\ place[i] # i
                 THEN place[i] ELSE owner[i]]
  /\ size' = size + Total([n \in DOMAIN block |->
                             block[n].size - block'[n].size],
                          {n \in DOMAIN block : block'[n].link = "linked"})
  /\ UNCHANGED << analysed, killMap, currentWriteMap, currentReadMap, place,
                  picked >>

\* the loop over newOrder: setSemantic(), setInstruction() for
\* LinkedInstructions only, and modifiedChildSize() with the old size less the
\* new one
Rewrite ==
  /\ phase = "pick"
  /\ picked = Len(block)
  /\ phase' = "done"
  /\ block' = [n \in DOMAIN block |->
                 block[CHOOSE i \in DOMAIN block : place[i] = n]]
  /\ owner' = [i \in DOMAIN block |->
                 IF block[i].link = "linked" /\ place[i] # i
                 THEN place[i] ELSE owner[i]]
  /\ size' = size + Total([n \in DOMAIN block |->
                             block[n].size - block'[n].size], DOMAIN block)
  /\ UNCHANGED << analysed, killMap, currentWriteMap, currentReadMap, place,
                  picked >>

Next ==
  \/ skip \/ setBarrier \/ fill \/ fillAborts
  \/ computeDependencyClosure
  \/ \E i \in DOMAIN block : pickNextInstruction(i)
  \/ Rewrite

Spec == Init /\ [][Next]_vars

FairSpec == Spec /\ WF_vars(Next)

-----------------------------------------------------------------------------
(* What the instructions really do: any place, for all but these.          *)

MemIndex(x) == IF hasMem(x) THEN x.index ELSE {}

TrueReads(x) ==
  IF x.op = "mov_imm_reg" THEN {}
  ELSE IF x.op \in {"mov_reg_reg", "lea"} THEN {x.src} \cup MemIndex(x)
  ELSE IF x.op \in {"add_imm_reg", "cmp_imm_reg"} THEN {x.dst}
  ELSE IF x.op \in {"add_reg_reg", "cmp_reg_reg", "mov_reg_mem"}
       THEN {x.src, x.dst} \cup MemIndex(x)
  ELSE IF x.op \in {"cmp_imm_mem", "mov_mem_reg"}
       THEN {x.src, MEMORY_REG} \cup MemIndex(x)
  ELSE IF x.op = "add_mem_reg" THEN {x.src, x.dst, MEMORY_REG} \cup MemIndex(x)
  ELSE IF x.op = "push_reg" THEN {x.src, SP}
  ELSE IF x.op = "pop_reg" THEN {SP, MEMORY_REG}
  ELSE IF x.op \in {"push_mem", "pop_mem"}
       THEN {x.src, SP, MEMORY_REG} \cup MemIndex(x)
  ELSE Places

TrueWrites(x) ==
  IF x.op \in Adds THEN {x.dst, FLAGS}
  ELSE IF x.op \in Compares THEN {FLAGS}
  ELSE IF x.op = "mov_reg_mem" THEN {MEMORY_REG}
  ELSE IF x.op \in Moves THEN {x.dst}
  ELSE IF x.op = "pop_reg" THEN {x.dst, SP}
  ELSE IF x.op \in Pushes \cup {"pop_mem"} THEN {SP, MEMORY_REG}
  ELSE Places

\* in the order given by pos, b finds in place r what a has put there
Supplies(semantic, pos, a, b, r) ==
  /\ r \in TrueWrites(semantic[a]) /\ r \in TrueReads(semantic[b])
  /\ pos[a] < pos[b]
  /\ \A c \in DOMAIN pos :
       r \in TrueWrites(semantic[c]) => ~(pos[a] < pos[c] /\ pos[c] < pos[b])

\* in the order given by pos, a is the last to write place r
Remains(semantic, pos, a, r) ==
  /\ r \in TrueWrites(semantic[a])
  /\ \A c \in DOMAIN pos : r \in TrueWrites(semantic[c]) => pos[c] <= pos[a]

\* the semantics in their first order, once they have been given out again
Original == IF phase = "done" THEN [i \in DOMAIN block |-> block[place[i]]]
                              ELSE block

\* The order found so far and the maps of the analysis have their types.
TypeOK ==
  /\ phase \in {"analyze", "pick", "done", "aborted"}
  /\ analysed \in 0..Len(block)
  /\ killMap \in [DOMAIN block -> SUBSET DOMAIN block]
  /\ currentWriteMap \in [Places -> 0..Len(block)]
  /\ currentReadMap \in [Places -> SUBSET DOMAIN block]
  /\ place \in [DOMAIN block -> 0..Len(block)]
  /\ picked \in 0..Len(block)
  /\ owner \in [DOMAIN block -> DOMAIN block]

\* Whatever is picked, every instruction finds in every register, in the flags
\* and in memory what the same instruction as before has put there, and at the
\* end of the Block every place holds what it held (reorderpush.cpp:86-95).
\* Pops into memory, which fillPop does not record as writing memory, are
\* excepted.
SameDataFlow ==
  (phase = "done" /\ \A i \in DOMAIN block : block[i].op # "pop_mem") =>
    LET before == [i \in DOMAIN block |-> i]
    IN  \A r \in Places : \A a \in DOMAIN block :
          /\ Remains(Original, place, a, r) <=> Remains(Original, before, a, r)
          /\ \A b \in DOMAIN block :
               Supplies(Original, place, a, b, r)
                 <=> Supplies(Original, before, a, b, r)

\* The assertion of visitInstructionGroups (reachingdef.cpp:70) holds: as long
\* as instructions remain one of them can be picked.
NeverStuck ==
  phase = "pick" /\ picked < Len(block) =>
    \E i \in (DOMAIN block) \ visited : areDependenciesCovered(i)

\* Every semantic that points back at its Instruction points at the one that
\* holds it, although ReorderPush only corrects LinkedInstructions
\* (reorderpush.cpp:112): no ControlFlowInstruction changes its place.
BackPointersRight ==
  phase = "done" =>
    \A i \in DOMAIN block : Original[i].link # "none" => owner[i] = place[i]

\* The Block's size is the size of what it holds when the semantics have been
\* given out, although every call of modifiedChildSize is told the old size less
\* the new one, the wrong way round (reorderpush.cpp:115): over a permutation
\* the differences cancel.
BlockSizeKept == phase = "done" => size = Total(Sizes(block), DOMAIN block)

\* Every Block is done with (reachingdef.cpp:57-77), unless an assertion fails.
ReorderEnds == <>(phase \in {"done", "aborted"})
=============================================================================
