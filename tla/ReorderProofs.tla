--------------------------- MODULE ReorderProofs ---------------------------
(***************************************************************************)
(* For Blocks of any length on any registers: whatever ReorderPush picks,  *)
(* the data flow of the Block is what it was, and picking never gets       *)
(* stuck.                                                                  *)
(*                                                                         *)
(* killMap only names some of the earlier instructions that an instruction *)
(* conflicts with: the last writer of a place and the readers since then.  *)
(* The invariant Guarded says why that is enough: a set of instructions    *)
(* that is closed under killMap and contains an instruction contains all   *)
(* that it conflicts with.                                                 *)
(***************************************************************************)
EXTENDS Reorder, TLAPS, FiniteSetTheorems, WellFoundedInduction

Semantics == [op : STRING, src : Registers, dst : Registers,
              index : SUBSET Registers, size : Nat, link : {"none", "linked", "flow"}]

\* What the analysis takes an instruction to read and write.
R(x) == IF hasHandler(x) THEN Reads(x) ELSE Places
W(x) == IF hasHandler(x) THEN Writes(x) ELSE Places

Conflict(x, y) ==
  \E r \in Places : \/ r \in W(x) /\ r \in R(y) \cup W(y)
                    \/ r \in R(x) /\ r \in W(y)

Closed(kill, V) == \A v \in V : kill[v] \subseteq V

BlockOK ==
  /\ block \in Seq(Semantics)
  /\ \A i \in DOMAIN block : block[i].link = "flow" => ~hasHandler(block[i])

KillsEarlier == \A i \in DOMAIN block : killMap[i] \subseteq 1..(i - 1)

\* What the analysis has recorded after the first instructions.
LastWriters ==
  \A r \in Places :
    /\ currentWriteMap[r] <= analysed
    /\ currentWriteMap[r] # 0 => r \in W(block[currentWriteMap[r]])
    /\ \A j \in DOMAIN block :
         j <= analysed /\ r \in W(block[j]) => j <= currentWriteMap[r]

ReadersSince ==
  \A r \in Places :
    /\ \A j \in currentReadMap[r] : j <= analysed
    /\ \A j \in DOMAIN block :
         j <= analysed /\ r \in R(block[j]) /\ currentWriteMap[r] < j
           => j \in currentReadMap[r]

Guarded ==
  \A i, j \in DOMAIN block :
    i < j /\ j <= analysed /\ Conflict(block[i], block[j]) =>
      \A V \in SUBSET DOMAIN block : Closed(killMap, V) /\ j \in V => i \in V

AnalysisInv ==
  phase = "analyze" =>
    /\ place = [i \in DOMAIN block |-> 0] /\ picked = 0
    /\ \A i \in DOMAIN block : analysed < i => killMap[i] = {}
    /\ KillsEarlier /\ LastWriters /\ ReadersSince /\ Guarded

\* The picks so far: numbered without gaps or repetition.
Numbered ==
  /\ \A i, j \in visited : place[i] = place[j] => i = j
  /\ \A i \in visited : place[i] <= picked
  /\ IsFiniteSet(visited) /\ Cardinality(visited) = picked

\* An instruction has been picked after all that it conflicts with.
InOrder(semantic) ==
  \A i, j \in DOMAIN block :
    i < j /\ Conflict(semantic[i], semantic[j]) /\ place[j] # 0 =>
      place[i] # 0 /\ place[i] < place[j]

PickInv ==
  phase = "pick" =>
    /\ KillsEarlier /\ Numbered /\ InOrder(block)
    /\ \A i, j \in DOMAIN block :
         i < j /\ Conflict(block[i], block[j]) => i \in killMap[j]

\* No semantic has been given to another Instruction.
OwnersInv == phase # "done" => owner = [i \in DOMAIN block |-> i]

DoneInv ==
  phase = "done" =>
    /\ \A i \in DOMAIN block : place[i] \in DOMAIN block
    /\ \A i, j \in DOMAIN block : place[i] = place[j] => i = j
    /\ InOrder(Original)
    /\ \A i \in DOMAIN block :
         /\ Original[i] \in Semantics
         /\ Original[i].link = "flow" => ~hasHandler(Original[i])
         /\ owner[i] = IF Original[i].link = "linked" THEN place[i] ELSE i

ReorderInv ==
  BlockOK /\ TypeOK /\ AnalysisInv /\ PickInv /\ OwnersInv /\ DoneInv

-----------------------------------------------------------------------------
\* What an instruction reads and writes are places.
LEMMA EffectsArePlaces ==
  ASSUME NEW x \in Semantics
  PROVE  /\ R(x) \subseteq Places /\ W(x) \subseteq Places
         /\ hasHandler(x) => Reads(x) = R(x) /\ Writes(x) = W(x)
         /\ hasHandler(x) \in BOOLEAN
<1>1. x.src \in Places /\ x.dst \in Places /\ x.index \subseteq Places
      /\ SP \in Places /\ FLAGS \in Places /\ MEMORY_REG \in Places
  BY ReorderAssumption DEF Semantics, Places
<1>2. Reads(x) \subseteq Places
  BY <1>1 DEF Reads, OnlyIf
<1>3. Writes(x) \subseteq Places
  BY <1>1 DEF Writes, OnlyIf
<1> QED
  BY <1>2, <1>3 DEF R, W, hasHandler

LEMMA CountTo ==
  ASSUME NEW n \in Nat
  PROVE  IsFiniteSet(1..n) /\ Cardinality(1..n) = n
<1>1. 1 > n => n = 0
  OBVIOUS
<1>2. n - 1 + 1 = n
  OBVIOUS
<1> QED
  BY <1>1, <1>2, FS_Interval

LEMMA FunctionIsSequence ==
  ASSUME NEW n \in Nat, NEW S, NEW f \in [1..n -> S]
  PROVE  f \in Seq(S) /\ Len(f) = n
OBVIOUS

LEMMA InitReorder == Init => ReorderInv
<1> SUFFICES ASSUME Init PROVE ReorderInv
  OBVIOUS
<1>1. BlockOK
  BY ReorderAssumption, FlowAssumption DEF Init, BlockOK, Semantics
<1>2. Len(block) \in Nat /\ DOMAIN block = 1..Len(block)
  BY <1>1 DEF BlockOK
<1>3. TypeOK
  BY <1>2 DEF Init, TypeOK
<1>4. AnalysisInv
  BY <1>2 DEF Init, AnalysisInv, KillsEarlier, LastWriters, ReadersSince, Guarded
<1> QED
  BY <1>1, <1>3, <1>4 DEF Init, ReorderInv, PickInv, OwnersInv, DoneInv

-----------------------------------------------------------------------------
(* Analysis steps                                                          *)

\* Whichever way instruction analysed + 1 is recorded, what it conflicts with
\* is guarded, provided its entry of killMap holds the last writers of what it
\* touches and the readers of what it writes.
LEMMA GuardedStep ==
  ASSUME ReorderInv, phase = "analyze", analysed < Len(block),
         NEW n, n = analysed + 1, NEW kill,
         killMap' = [killMap EXCEPT ![n] = kill],
         block' = block, analysed' = n,
         \A r \in R(block[n]) \cup W(block[n]) :
           currentWriteMap[r] # 0 => currentWriteMap[r] \in kill,
         \A r \in W(block[n]) : \A j \in currentReadMap[r] :
           currentWriteMap[r] < j => j \in kill
  PROVE  Guarded'
<1>0. /\ BlockOK /\ TypeOK /\ Guarded /\ LastWriters /\ ReadersSince
      /\ \A i \in DOMAIN block : analysed < i => killMap[i] = {}
  BY DEF ReorderInv, AnalysisInv
<1>1. /\ BlockOK /\ TypeOK /\ Guarded /\ LastWriters /\ ReadersSince
      /\ Len(block) \in Nat /\ DOMAIN block = 1..Len(block)
      /\ n \in DOMAIN block /\ analysed \in Nat /\ killMap[n] = {}
  <2>1. Len(block) \in Nat /\ DOMAIN block = 1..Len(block)
    BY <1>0 DEF BlockOK
  <2>2. analysed \in Nat /\ n \in DOMAIN block
    BY <1>0, <2>1 DEF TypeOK
  <2> QED
    BY <1>0, <2>1, <2>2
<1> SUFFICES ASSUME NEW i \in DOMAIN block, NEW j \in DOMAIN block,
                    i < j, j <= n, Conflict(block[i], block[j]),
                    NEW V \in SUBSET DOMAIN block, Closed(killMap', V), j \in V
             PROVE  i \in V
  BY DEF Guarded
<1>2. Closed(killMap, V)
  BY <1>1 DEF Closed, TypeOK
<1>3. CASE j # n
  <2>1. j <= analysed
    BY <1>1, <1>3
  <2> QED
    BY <1>1, <1>2, <2>1 DEF Guarded
<1>4. CASE j = n
  <2>1. kill \subseteq V
    BY <1>1, <1>4 DEF Closed, TypeOK
  <2>2. i <= analysed
    BY <1>1, <1>4
  <2>3. PICK r \in Places : \/ r \in W(block[i]) /\ r \in R(block[n]) \cup W(block[n])
                            \/ r \in R(block[i]) /\ r \in W(block[n])
    BY <1>4 DEF Conflict
  <2> DEFINE w == currentWriteMap[r]
  <2>4. w \in Nat /\ w <= analysed /\ (w # 0 => w \in V)
    BY <1>1, <2>1, <2>3 DEF TypeOK, LastWriters
  <2>5. CASE i <= w
    <3>1. w # 0 /\ w \in DOMAIN block /\ r \in W(block[w])
      BY <1>1, <2>4, <2>5 DEF LastWriters
    <3>2. CASE i = w
      BY <2>4, <3>1, <3>2
    <3>3. CASE i < w
      <4>1. Conflict(block[i], block[w])
        BY <2>3, <3>1 DEF Conflict
      <4> QED
        BY <1>1, <1>2, <2>4, <3>1, <3>3, <4>1 DEF Guarded
    <3> QED
      BY <1>1, <2>4, <2>5, <3>2, <3>3
  <2>6. CASE w < i
    <3>1. r \notin W(block[i])
      BY <1>1, <2>2, <2>4, <2>6 DEF LastWriters
    <3>2. r \in R(block[i]) /\ r \in W(block[n])
      BY <2>3, <3>1
    <3>3. i \in currentReadMap[r]
      BY <1>1, <2>2, <2>6, <3>2 DEF ReadersSince
    <3> QED
      BY <2>1, <2>6, <3>2, <3>3
  <2> QED
    BY <1>1, <2>4, <2>5, <2>6
<1> QED
  BY <1>3, <1>4

\* setBarrier: the instruction follows all earlier ones, and whatever comes
\* later follows it.
LEMMA setBarrierStep ==
  ASSUME ReorderInv, setBarrier
  PROVE  ReorderInv'
<1> DEFINE n == analysed + 1
<1>1. /\ BlockOK /\ TypeOK /\ AnalysisInv
      /\ Len(block) \in Nat /\ DOMAIN block = 1..Len(block)
      /\ phase = "analyze" /\ analysed < Len(block)
  BY DEF ReorderInv, setBarrier, Analysing, BlockOK
<1>2. analysed \in Nat /\ n \in DOMAIN block
  BY <1>1 DEF TypeOK
<1>3. /\ killMap' = [killMap EXCEPT ![n] = 1..analysed]
      /\ currentWriteMap' = [r \in Places |-> n]
      /\ analysed' = n /\ W(block[n]) = Places
      /\ UNCHANGED << block, phase, currentReadMap, place, picked, owner >>
  BY DEF setBarrier, W
<1>3a. 1..analysed \subseteq DOMAIN block /\ n = analysed + 1
  BY <1>1, <1>2
<1> HIDE DEF n
<1>4. TypeOK'
  BY <1>1, <1>2, <1>3, <1>3a DEF TypeOK
<1>5. LastWriters'
  BY <1>1, <1>2, <1>3, <1>3a DEF LastWriters
<1>6. ReadersSince'
  BY <1>1, <1>2, <1>3, <1>3a DEF ReadersSince, AnalysisInv, TypeOK
<1>7. KillsEarlier' /\ \A i \in DOMAIN block : n < i => killMap'[i] = {}
  <2>1. \A i \in DOMAIN block : killMap'[i] = IF i = n THEN 1..analysed ELSE killMap[i]
    BY <1>1, <1>3 DEF TypeOK
  <2>2. n - 1 = analysed
    BY <1>2, <1>3a
  <2>3. KillsEarlier'
    BY <1>1, <1>3, <2>1, <2>2 DEF KillsEarlier, AnalysisInv
  <2>4. \A i \in DOMAIN block : n < i => i # n /\ analysed < i
    BY <1>1, <1>2, <1>3a
  <2> QED
    BY <1>1, <2>1, <2>3, <2>4 DEF AnalysisInv
<1>8. Guarded'
  <2>1. \A r \in Places : currentWriteMap[r] \in Nat /\ currentWriteMap[r] <= analysed
                          /\ currentReadMap[r] \subseteq 1..analysed
    BY <1>1, <1>2 DEF AnalysisInv, TypeOK, LastWriters, ReadersSince
  <2>2. R(block[n]) \subseteq Places
    BY <1>1, <1>2, EffectsArePlaces DEF BlockOK
  <2>3. \A r \in R(block[n]) \cup W(block[n]) :
          currentWriteMap[r] # 0 => currentWriteMap[r] \in 1..analysed
    BY <1>2, <1>3, <2>1, <2>2
  <2>4. \A r \in W(block[n]) : \A j \in currentReadMap[r] : j \in 1..analysed
    BY <1>3, <2>1
  <2> DEFINE kill == 1..analysed
  <2> HIDE DEF kill
  <2>5. killMap' = [killMap EXCEPT ![n] = kill]
    BY <1>3 DEF kill
  <2>6. (\A r \in R(block[n]) \cup W(block[n]) :
           currentWriteMap[r] # 0 => currentWriteMap[r] \in kill)
        /\ \A r \in W(block[n]) : \A j \in currentReadMap[r] : j \in kill
    BY <2>3, <2>4 DEF kill
  <2> QED
    BY <1>1, <1>3, <1>3a, <2>5, <2>6, GuardedStep
<1>9. AnalysisInv'
  BY <1>1, <1>3, <1>5, <1>6, <1>7, <1>8 DEF AnalysisInv
<1> QED
  BY <1>1, <1>3, <1>4, <1>9 DEF ReorderInv, BlockOK, PickInv, OwnersInv, DoneInv

\* fill: the handlers add the last writers and the readers themselves.
LEMMA fillStep ==
  ASSUME ReorderInv, fill
  PROVE  ReorderInv'
<1> DEFINE n == analysed + 1
<1>1. /\ BlockOK /\ TypeOK /\ AnalysisInv
      /\ Len(block) \in Nat /\ DOMAIN block = 1..Len(block)
      /\ phase = "analyze" /\ analysed < Len(block)
  BY DEF ReorderInv, fill, Analysing, BlockOK
<1>2. analysed \in Nat /\ n \in DOMAIN block
  BY <1>1 DEF TypeOK
<1>3. /\ hasHandler(block[n])
      /\ killMap' = [killMap EXCEPT ![n] = Kills(n)]
      /\ currentWriteMap' = [r \in Places |->
           IF r \in Writes(block[n]) THEN n ELSE currentWriteMap[r]]
      /\ currentReadMap' = [r \in Places |->
           (IF r \in Writes(block[n]) THEN {} ELSE currentReadMap[r])
           \cup OnlyIf(r \in Reads(block[n]), n)]
      /\ analysed' = n
      /\ UNCHANGED << block, phase, place, picked, owner >>
  BY DEF fill
<1>4. /\ Reads(block[n]) = R(block[n]) /\ Writes(block[n]) = W(block[n])
      /\ R(block[n]) \subseteq Places /\ W(block[n]) \subseteq Places
  BY <1>1, <1>2, <1>3, EffectsArePlaces DEF BlockOK
<1>5. \A r \in Places : currentWriteMap[r] \in Nat /\ currentWriteMap[r] <= analysed
                        /\ currentReadMap[r] \subseteq 1..analysed
  BY <1>1, <1>2 DEF AnalysisInv, TypeOK, LastWriters, ReadersSince
<1> HIDE DEF n
<1>6. Kills(n) \subseteq 1..analysed
  BY <1>2, <1>4, <1>5 DEF Kills
<1>6a. 1..analysed \subseteq DOMAIN block /\ n = analysed + 1
  BY <1>1, <1>2 DEF n
<1>7. TypeOK'
  <2>1. killMap' \in [DOMAIN block -> SUBSET DOMAIN block]
    BY <1>1, <1>3, <1>6, <1>6a DEF TypeOK
  <2>2. currentWriteMap' \in [Places -> 0..Len(block)]
    BY <1>1, <1>2, <1>3, <1>5, <1>6a
  <2>3. currentReadMap' \in [Places -> SUBSET DOMAIN block]
    BY <1>1, <1>2, <1>3, <1>5, <1>6a DEF OnlyIf
  <2> QED
    BY <1>1, <1>2, <1>3, <1>6a, <2>1, <2>2, <2>3 DEF TypeOK
<1>8. LastWriters'
  BY <1>1, <1>2, <1>3, <1>4, <1>5, <1>6a DEF LastWriters, AnalysisInv
<1>9. ReadersSince'
  BY <1>1, <1>2, <1>3, <1>4, <1>5, <1>6a DEF ReadersSince, AnalysisInv, OnlyIf
<1>10. KillsEarlier' /\ \A i \in DOMAIN block : n < i => killMap'[i] = {}
  <2>1. \A i \in DOMAIN block : killMap'[i] = IF i = n THEN Kills(n) ELSE killMap[i]
    BY <1>1, <1>3 DEF TypeOK
  <2>2. n - 1 = analysed
    BY <1>2, <1>6a
  <2>3. KillsEarlier'
    BY <1>1, <1>3, <2>1, <2>2, <1>6 DEF KillsEarlier, AnalysisInv
  <2>4. \A i \in DOMAIN block : n < i => i # n /\ analysed < i
    BY <1>1, <1>2, <1>6a
  <2> QED
    BY <1>1, <2>1, <2>3, <2>4 DEF AnalysisInv
<1>11. Guarded'
  <2>1. \A r \in R(block[n]) \cup W(block[n]) :
           currentWriteMap[r] # 0 => currentWriteMap[r] \in Kills(n)
    BY <1>4 DEF Kills
  <2>2. \A r \in W(block[n]) : \A j \in currentReadMap[r] : j \in Kills(n)
    BY <1>4 DEF Kills
  <2> QED
    BY <1>1, <1>3, <1>6a, <2>1, <2>2, GuardedStep
<1>12. AnalysisInv'
  BY <1>1, <1>3, <1>8, <1>9, <1>10, <1>11 DEF AnalysisInv
<1> QED
  BY <1>1, <1>3, <1>7, <1>12 DEF ReorderInv, BlockOK, PickInv, OwnersInv, DoneInv

\* computeDependencyClosure: what an instruction conflicts with is now in its
\* entry of killMap.
LEMMA closureStep ==
  ASSUME ReorderInv, computeDependencyClosure
  PROVE  ReorderInv'
<1>1. /\ BlockOK /\ TypeOK /\ AnalysisInv
      /\ Len(block) \in Nat /\ DOMAIN block = 1..Len(block)
      /\ phase = "analyze" /\ analysed = Len(block)
      /\ phase' = "pick"
      /\ killMap' = [i \in DOMAIN block |-> inKillClosure(i)]
      /\ UNCHANGED << block, analysed, currentWriteMap, currentReadMap, place,
                      picked, owner >>
  BY DEF ReorderInv, computeDependencyClosure, BlockOK
<1>2. \A i \in DOMAIN block : inKillClosure(i) \subseteq 1..(i - 1)
  <2> SUFFICES ASSUME NEW i \in DOMAIN block, NEW j \in inKillClosure(i)
               PROVE  j \in 1..(i - 1)
    OBVIOUS
  <2> DEFINE V == 1..(i - 1)
  <2>1. V \in SUBSET DOMAIN block
    BY <1>1
  <2>2. killMap[i] \subseteq V /\ \A v \in V : killMap[v] \subseteq V
    BY <1>1, <2>1 DEF AnalysisInv, KillsEarlier
  <2> HIDE DEF V
  <2>3. j \in V
    BY <2>1, <2>2 DEF inKillClosure
  <2> QED
    BY <2>3 DEF V
<1>3. ASSUME NEW i \in DOMAIN block, NEW j \in DOMAIN block, i < j,
             Conflict(block[i], block[j])
      PROVE  i \in inKillClosure(j)
  <2> SUFFICES ASSUME NEW V \in SUBSET DOMAIN block, killMap[j] \subseteq V,
                      \A v \in V : killMap[v] \subseteq V
               PROVE  i \in V
    BY DEF inKillClosure
  <2> DEFINE U == V \cup {j}
  <2>1. U \in SUBSET DOMAIN block /\ Closed(killMap, U) /\ j \in U
    BY DEF Closed
  <2>2. Guarded /\ j <= analysed
    BY <1>1 DEF AnalysisInv
  <2> HIDE DEF U
  <2>3. i \in U
    BY <1>3, <2>1, <2>2 DEF Guarded
  <2> QED
    BY <1>1, <1>3, <2>3 DEF U
<1>4. TypeOK'
  <2>1. \A i \in DOMAIN block : inKillClosure(i) \subseteq DOMAIN block
    BY DEF inKillClosure
  <2> QED
    BY <1>1, <2>1 DEF TypeOK
<1>5. PickInv'
  <2>1. visited' = {}
    BY <1>1 DEF visited, AnalysisInv
  <2>2. Numbered'
    BY <1>1, <2>1, FS_EmptySet DEF Numbered, AnalysisInv
  <2>3. InOrder(block)'
    BY <1>1 DEF InOrder, AnalysisInv
  <2>4. KillsEarlier'
    BY <1>1, <1>2 DEF KillsEarlier
  <2> QED
    BY <1>1, <1>3, <2>2, <2>3, <2>4 DEF PickInv
<1> QED
  BY <1>1, <1>4, <1>5 DEF ReorderInv, BlockOK, AnalysisInv, OwnersInv, DoneInv

-----------------------------------------------------------------------------
(* Picking steps                                                           *)

LEMMA pickStep ==
  ASSUME ReorderInv, NEW i \in DOMAIN block, pickNextInstruction(i)
  PROVE  ReorderInv'
<1>1. /\ BlockOK /\ TypeOK /\ PickInv
      /\ Len(block) \in Nat /\ DOMAIN block = 1..Len(block)
      /\ phase = "pick" /\ place[i] = 0 /\ killMap[i] \subseteq visited
      /\ place' = [place EXCEPT ![i] = picked + 1] /\ picked' = picked + 1
      /\ UNCHANGED << block, phase, analysed, killMap, currentWriteMap,
                      currentReadMap, owner >>
  BY DEF ReorderInv, pickNextInstruction, BlockOK, visited, areDependenciesCovered
<1>2. /\ visited \subseteq DOMAIN block /\ i \notin visited
      /\ picked \in Nat /\ Numbered /\ InOrder(block)
  BY <1>1 DEF visited, TypeOK, PickInv
<1>3. \A j \in DOMAIN block : place'[j] = IF j = i THEN picked + 1 ELSE place[j]
  BY <1>1 DEF TypeOK
<1>4. visited' = visited \cup {i}
  BY <1>1, <1>2, <1>3 DEF visited
<1>5. picked + 1 <= Len(block)
  <2>1. IsFiniteSet(visited \cup {i}) /\ Cardinality(visited \cup {i}) = picked + 1
    BY <1>2, FS_AddElement DEF Numbered
  <2>2. IsFiniteSet(1..Len(block)) /\ Cardinality(1..Len(block)) = Len(block)
    BY <1>1, CountTo
  <2>3. visited \cup {i} \in SUBSET (1..Len(block))
    BY <1>1, <1>2
  <2> QED
    BY <2>1, <2>2, <2>3, FS_Subset
<1>6. TypeOK'
  BY <1>1, <1>2, <1>5 DEF TypeOK
<1>7. Numbered'
  <2>1. IsFiniteSet(visited') /\ Cardinality(visited') = picked'
    BY <1>1, <1>2, <1>4, FS_AddElement DEF Numbered
  <2>2. \A j \in visited : place'[j] = place[j] /\ place[j] <= picked /\ place[j] \in Nat
    BY <1>1, <1>2, <1>3 DEF Numbered, TypeOK
  <2>3. place'[i] = picked + 1
    BY <1>3
  <2>4. \A j, k \in visited' : place'[j] = place'[k] => j = k
    BY <1>2, <1>4, <2>2, <2>3 DEF Numbered
  <2>5. \A j \in visited' : place'[j] <= picked'
    BY <1>1, <1>2, <1>4, <2>2, <2>3
  <2> QED
    BY <2>1, <2>4, <2>5 DEF Numbered
<1>8. InOrder(block)'
  <2> SUFFICES ASSUME NEW a \in DOMAIN block, NEW b \in DOMAIN block, a < b,
                      Conflict(block[a], block[b]), place'[b] # 0
               PROVE  place'[a] # 0 /\ place'[a] < place'[b]
    BY <1>1 DEF InOrder
  <2>1. a \in killMap[b] /\ a # b
    BY <1>1 DEF PickInv
  <2>2. CASE b = i
    <3>1. a \in visited
      BY <1>1, <2>1, <2>2
    <3> QED
      BY <1>1, <1>2, <1>3, <2>1, <2>2, <3>1 DEF Numbered, visited, TypeOK
  <2>3. CASE b # i
    <3>1. place[b] # 0 /\ place[a] # 0 /\ place[a] < place[b]
      BY <1>2, <1>3, <2>3 DEF InOrder
    <3> QED
      BY <1>1, <1>3, <2>3, <3>1
  <2> QED
    BY <2>2, <2>3
<1>9. PickInv'
  BY <1>1, <1>7, <1>8 DEF PickInv, KillsEarlier
<1> QED
  BY <1>1, <1>6, <1>9 DEF ReorderInv, BlockOK, AnalysisInv, OwnersInv, DoneInv

\* Rewrite: all instructions have been picked, so that their places are a
\* permutation and give back the first order.
LEMMA RewriteStep ==
  ASSUME ReorderInv, Rewrite
  PROVE  ReorderInv'
<1>1. /\ BlockOK /\ TypeOK /\ Numbered /\ InOrder(block)
      /\ Len(block) \in Nat /\ DOMAIN block = 1..Len(block)
      /\ phase = "pick" /\ picked = Len(block) /\ phase' = "done"
      /\ block' = [n \in DOMAIN block |->
                     block[CHOOSE i \in DOMAIN block : place[i] = n]]
      /\ owner' = [i \in DOMAIN block |->
                     IF block[i].link = "linked" /\ place[i] # i
                     THEN place[i] ELSE owner[i]]
      /\ UNCHANGED << analysed, killMap, currentWriteMap, currentReadMap, place,
                      picked >>
      /\ owner = [i \in DOMAIN block |-> i]
  BY DEF ReorderInv, PickInv, OwnersInv, Rewrite, BlockOK
<1>2. visited = DOMAIN block
  <2>1. IsFiniteSet(1..Len(block)) /\ Cardinality(1..Len(block)) = Len(block)
    BY <1>1, CountTo
  <2>2. visited \in SUBSET (1..Len(block)) /\ Cardinality(visited) = Len(block)
    BY <1>1 DEF visited, Numbered
  <2> QED
    BY <1>1, <2>1, <2>2, FS_Subset
<1>3. \A i \in DOMAIN block : place[i] \in DOMAIN block
  BY <1>1, <1>2 DEF visited, Numbered, TypeOK
<1>4. \A i, j \in DOMAIN block : place[i] = place[j] => i = j
  BY <1>2, <1>1 DEF Numbered
<1>5. \A n \in DOMAIN block : \E i \in DOMAIN block : place[i] = n
  <2> DEFINE D == 1..Len(block)
  <2>1. IsFiniteSet(D)
    BY <1>1, FS_Interval
  <2>2. place \in Injection(D, D)
    BY <1>1, <1>3, <1>4 DEF TypeOK, Injection, IsInjective
  <2> HIDE DEF D
  <2>3. place \in Surjection(D, D)
    BY <2>1, <2>2, FS_Injection
  <2> QED
    BY <1>1, <2>3 DEF Surjection, D
<1>6. DOMAIN block' = DOMAIN block /\ block' \in [1..Len(block) -> Semantics]
  BY ONLY <1>1, <1>5, BlockOK DEF BlockOK
<1>7. BlockOK' /\ Len(block') = Len(block)
  <2>1. block' \in Seq(Semantics) /\ Len(block') = Len(block)
    BY <1>1, <1>6, FunctionIsSequence
  <2>2. \A n \in DOMAIN block : \E i \in DOMAIN block : block'[n] = block[i]
    BY <1>1, <1>5
  <2>3. ASSUME NEW n \in DOMAIN block', block'[n].link = "flow"
        PROVE  ~hasHandler(block'[n])
    <3>1. PICK i \in DOMAIN block : block'[n] = block[i]
      BY <1>6, <2>2
    <3> QED
      BY ONLY <1>1, <2>3, <3>1 DEF BlockOK
  <2> QED
    BY <2>1, <2>3 DEF BlockOK
<1>8. \A i \in DOMAIN block : block'[place[i]] = block[i]
  BY <1>1, <1>3, <1>4
<1>9. TypeOK'
  BY <1>1, <1>3, <1>6, <1>7 DEF TypeOK
<1>10. \A i \in DOMAIN block : Original'[i] = block[i]
  BY <1>1, <1>6, <1>8 DEF Original
<1>11. InOrder(Original)'
  BY <1>1, <1>6, <1>10 DEF InOrder
<1>12. DoneInv'
  <2>1. \A i \in DOMAIN block :
          owner'[i] = IF block[i].link = "linked" THEN place[i] ELSE i
    BY <1>1
  <2>2. \A i \in DOMAIN block : block[i] \in Semantics
                 /\ (block[i].link = "flow" => ~hasHandler(block[i]))
    BY <1>1 DEF BlockOK
  <2> QED
    BY <1>1, <1>3, <1>4, <1>6, <1>10, <1>11, <2>1, <2>2 DEF DoneInv
<1> QED
  BY <1>1, <1>7, <1>9, <1>12 DEF ReorderInv, AnalysisInv, PickInv, OwnersInv

LEMMA skipStep ==
  ASSUME ReorderInv, skip
  PROVE  ReorderInv'
<1>1. /\ BlockOK /\ TypeOK
      /\ Len(block) \in Nat /\ DOMAIN block = 1..Len(block)
      /\ phase = "analyze" /\ phase' = "done"
      /\ place' = [i \in DOMAIN block |-> i] /\ picked' = Len(block)
      /\ owner = [i \in DOMAIN block |-> i]
      /\ UNCHANGED << block, analysed, killMap, currentWriteMap, currentReadMap,
                      owner >>
  BY DEF ReorderInv, skip, BlockOK, OwnersInv
<1>2. TypeOK'
  BY <1>1 DEF TypeOK
<1>3. \A i \in DOMAIN block : Original'[i] = block[i]
  BY <1>1 DEF Original
<1>4. InOrder(Original)'
  BY <1>1, <1>3 DEF InOrder
<1>5. \A i \in DOMAIN block : block[i] \in Semantics
                 /\ (block[i].link = "flow" => ~hasHandler(block[i]))
  BY <1>1 DEF BlockOK
<1>6. DoneInv'
  BY <1>1, <1>3, <1>4, <1>5 DEF DoneInv
<1> QED
  BY <1>1, <1>2, <1>6 DEF ReorderInv, BlockOK, AnalysisInv, PickInv, OwnersInv

LEMMA fillAbortsStep ==
  ASSUME ReorderInv, fillAborts
  PROVE  ReorderInv'
BY DEF ReorderInv, fillAborts, Analysing, BlockOK, TypeOK, AnalysisInv, PickInv,
       OwnersInv, DoneInv

LEMMA ReorderInvariant == Spec => []ReorderInv
<1>1. ReorderInv /\ [Next]_vars => ReorderInv'
  <2> SUFFICES ASSUME ReorderInv, [Next]_vars PROVE ReorderInv'
    OBVIOUS
  <2>1. CASE UNCHANGED vars
    BY ZenonT(60), <2>1 DEF vars, ReorderInv, BlockOK, TypeOK, AnalysisInv, KillsEarlier,
                LastWriters, ReadersSince, Guarded, PickInv, Numbered, visited,
                InOrder, OwnersInv, DoneInv, Original
  <2>2. CASE Next
    BY <2>2, skipStep, setBarrierStep, fillStep, fillAbortsStep, closureStep,
       pickStep, RewriteStep DEF Next
  <2> QED
    BY <2>1, <2>2
<1> QED
  BY InitReorder, <1>1, PTL DEF Spec

-----------------------------------------------------------------------------
(* The properties                                                          *)

\* The variables of Reorder have their types, for every Block.
THEOREM ReorderTypeCorrect == Spec => []TypeOK
<1>1. ReorderInv => TypeOK
  BY DEF ReorderInv
<1> QED
  BY ReorderInvariant, <1>1, PTL

\* The assertion of visitInstructionGroups (reachingdef.cpp:70) never fails:
\* the first instruction that is left can always be picked, because killMap
\* only names earlier ones.
THEOREM PickingNeverStuck == Spec => []NeverStuck
<1>1. ASSUME ReorderInv, phase = "pick", picked < Len(block)
      PROVE  \E i \in (DOMAIN block) \ visited : areDependenciesCovered(i)
  <2> DEFINE Rest == (DOMAIN block) \ visited
  <2>1. /\ Len(block) \in Nat /\ DOMAIN block = 1..Len(block)
        /\ KillsEarlier /\ Numbered /\ TypeOK /\ visited \subseteq DOMAIN block
    BY <1>1 DEF ReorderInv, BlockOK, PickInv, visited
  <2>2. Rest # {}
    <3> SUFFICES ASSUME Rest = {} PROVE FALSE
      OBVIOUS
    <3>1. visited = 1..Len(block)
      BY <2>1
    <3>2. Cardinality(visited) = Len(block)
      BY <2>1, <3>1, CountTo
    <3> QED
      BY <1>1, <2>1, <3>2 DEF Numbered, TypeOK
  <2>3. Rest \subseteq Nat
    BY <2>1
  <2> HIDE DEF Rest
  <2>4. PICK i \in Rest : \A j \in Rest : ~(<< j, i >> \in OpToRel(<, Nat))
    BY <2>2, <2>3, NatLessThanWellFounded, WFMin
  <2>5. \A j \in Rest : ~(j < i)
    BY <2>3, <2>4 DEF OpToRel
  <2>6. killMap[i] \subseteq visited
    BY <2>1, <2>5 DEF Rest, KillsEarlier
  <2> QED
    BY <2>6 DEF Rest, areDependenciesCovered
<1>2. ReorderInv => NeverStuck
  BY <1>1 DEF NeverStuck
<1> QED
  BY ReorderInvariant, <1>2, PTL

\* The handlers of ReachingDef record all that an instruction does, pops into
\* memory excepted: a write is recorded as one, and a read as a read or, for the
\* memory that a push reads, as a write.
LEMMA HandlersComplete ==
  ASSUME NEW x, x.op # "pop_mem"
  PROVE  /\ TrueWrites(x) = W(x)
         /\ TrueReads(x) \subseteq R(x) \cup W(x)
<1>1. CASE x.op \in Adds
  BY <1>1 DEF Adds, Compares, Moves, Pushes, Pops, hasHandler, OnlyIf,
              Reads, Writes, R, W, TrueReads, TrueWrites, hasMem, MemIndex
<1>2. CASE x.op \in Compares
  BY <1>2 DEF Adds, Compares, Moves, Pushes, Pops, hasHandler, OnlyIf,
              Reads, Writes, R, W, TrueReads, TrueWrites, hasMem, MemIndex
<1>3. CASE x.op \in Moves
  BY <1>3 DEF Adds, Compares, Moves, Pushes, Pops, hasHandler, OnlyIf,
              Reads, Writes, R, W, TrueReads, TrueWrites, hasMem, MemIndex
<1>4. CASE x.op \in Pushes \cup Pops
  BY <1>4 DEF Adds, Compares, Moves, Pushes, Pops, hasHandler, OnlyIf,
              Reads, Writes, R, W, TrueReads, TrueWrites, hasMem, MemIndex
<1>5. CASE ~hasHandler(x)
  BY <1>5 DEF Adds, Compares, Moves, Pushes, Pops, hasHandler, R, W,
              TrueReads, TrueWrites
<1> QED
  BY <1>1, <1>2, <1>3, <1>4, <1>5 DEF hasHandler

\* Two orders of the same semantics that agree on every conflicting pair have
\* the same data flow.
LEMMA SameOrderSameFlow ==
  ASSUME NEW D, D \subseteq Nat, NEW semantic, NEW pos \in [D -> Nat],
         \A i, j \in D : pos[i] = pos[j] => i = j,
         \A i, j \in D : \A r \in Places :
           /\ i < j
           /\ \/ r \in TrueWrites(semantic[i]) /\ r \in TrueReads(semantic[j])
              \/ r \in TrueReads(semantic[i]) /\ r \in TrueWrites(semantic[j])
              \/ r \in TrueWrites(semantic[i]) /\ r \in TrueWrites(semantic[j])
           => pos[i] < pos[j],
         NEW a \in D, NEW b \in D, NEW r \in Places
  PROVE  LET before == [i \in D |-> i]
         IN  /\ Remains(semantic, pos, a, r) <=> Remains(semantic, before, a, r)
             /\ Supplies(semantic, pos, a, b, r)
                  <=> Supplies(semantic, before, a, b, r)
<1> DEFINE before == [i \in D |-> i]
<1>1. \A i \in D : pos[i] \in Nat /\ before[i] = i /\ i \in Nat
  OBVIOUS
<1>2. DOMAIN pos = D /\ DOMAIN before = D
  OBVIOUS
<1>3. \A i, j \in D :
        \/ r \in TrueWrites(semantic[i]) /\ r \in TrueReads(semantic[j])
        \/ r \in TrueReads(semantic[i]) /\ r \in TrueWrites(semantic[j])
        \/ r \in TrueWrites(semantic[i]) /\ r \in TrueWrites(semantic[j])
        => (pos[i] < pos[j] <=> before[i] < before[j])
  <2> SUFFICES ASSUME NEW i \in D, NEW j \in D,
                 \/ r \in TrueWrites(semantic[i]) /\ r \in TrueReads(semantic[j])
                 \/ r \in TrueReads(semantic[i]) /\ r \in TrueWrites(semantic[j])
                 \/ r \in TrueWrites(semantic[i]) /\ r \in TrueWrites(semantic[j])
               PROVE  pos[i] < pos[j] <=> before[i] < before[j]
    OBVIOUS
  <2>1. CASE i < j
    BY <1>1, <2>1
  <2>2. CASE j < i
    <3>1. pos[j] < pos[i]
      BY <2>2
    <3> QED
      BY <1>1, <2>2, <3>1
  <2>3. CASE i = j
    BY <1>1, <2>3
  <2> QED
    BY <1>1, <2>1, <2>2, <2>3
<1> HIDE DEF before
<1>4. Remains(semantic, pos, a, r) <=> Remains(semantic, before, a, r)
  <2>1. ASSUME NEW c \in D, r \in TrueWrites(semantic[a]), r \in TrueWrites(semantic[c])
        PROVE  pos[c] <= pos[a] <=> before[c] <= before[a]
    <3>1. pos[a] < pos[c] <=> before[a] < before[c]
      BY <1>3, <2>1
    <3> QED
      BY <1>1, <3>1
  <2> QED
    BY <1>2, <2>1 DEF Remains
<1>5. Supplies(semantic, pos, a, b, r) <=> Supplies(semantic, before, a, b, r)
  BY <1>2, <1>3 DEF Supplies
<1> QED
  BY <1>4, <1>5 DEF before

\* Whatever is picked, every instruction finds in every place what it found
\* before, and leaves at the end what it left (reorderpush.cpp:86-95), for
\* Blocks of any length without a pop into memory.
THEOREM ReorderingKeepsDataFlow == Spec => []SameDataFlow
<1>1. ASSUME ReorderInv, phase = "done",
             \A i \in DOMAIN block : block[i].op # "pop_mem",
             NEW r \in Places, NEW a \in DOMAIN block, NEW b \in DOMAIN block
      PROVE  LET before == [i \in DOMAIN block |-> i]
             IN  /\ Remains(Original, place, a, r) <=> Remains(Original, before, a, r)
                 /\ Supplies(Original, place, a, b, r)
                      <=> Supplies(Original, before, a, b, r)
  <2> DEFINE D == DOMAIN block
             sem == Original
  <2>1. /\ BlockOK /\ TypeOK /\ DoneInv /\ D = 1..Len(block) /\ Len(block) \in Nat
    BY <1>1 DEF ReorderInv, BlockOK
  <2>2. D \subseteq Nat /\ place \in [D -> Nat]
        /\ \A i, j \in D : place[i] = place[j] => i = j
    BY <1>1, <2>1 DEF TypeOK, DoneInv
  <2>3. \A i \in D : sem[i].op # "pop_mem" /\ sem[i] \in Semantics
    BY <1>1, <2>1 DEF DoneInv, Original
  <2> HIDE DEF sem
  <2>4. ASSUME NEW i \in D
        PROVE  /\ TrueWrites(sem[i]) = W(sem[i])
               /\ TrueReads(sem[i]) \subseteq R(sem[i]) \cup W(sem[i])
    BY <2>3, <2>4, HandlersComplete
  <2>5. ASSUME NEW i \in D, NEW j \in D, NEW q \in Places, i < j,
               \/ q \in TrueWrites(sem[i]) /\ q \in TrueReads(sem[j])
               \/ q \in TrueReads(sem[i]) /\ q \in TrueWrites(sem[j])
               \/ q \in TrueWrites(sem[i]) /\ q \in TrueWrites(sem[j])
        PROVE  place[i] < place[j]
    <3>1. Conflict(sem[i], sem[j])
      BY <2>4, <2>5 DEF Conflict
    <3>2. place[j] # 0
      BY <1>1, <2>1 DEF DoneInv
    <3> QED
      BY <1>1, <2>1, <2>5, <3>1, <3>2 DEF DoneInv, InOrder, sem
  <2>6. LET before == [i \in D |-> i]
        IN  /\ Remains(sem, place, a, r) <=> Remains(sem, before, a, r)
            /\ Supplies(sem, place, a, b, r) <=> Supplies(sem, before, a, b, r)
    <3> HIDE DEF D
    <3>1. a \in D /\ b \in D /\ r \in Places
      BY <1>1 DEF D
    <3> QED
      BY ONLY <2>2, <2>5, <3>1, SameOrderSameFlow
  <2> QED
    BY <2>6 DEF sem
<1>2. ReorderInv => SameDataFlow
  BY <1>1 DEF SameDataFlow
<1> QED
  BY ReorderInvariant, <1>2, PTL

-----------------------------------------------------------------------------
(* A barrier keeps its place                                               *)

\* An injection below m, and one above it, pin m down.
LEMMA PinnedDown ==
  ASSUME NEW n \in Nat, NEW f \in [1..n -> 1..n], NEW m \in 1..n,
         \A i, j \in 1..n : f[i] = f[j] => i = j,
         \A i \in 1..n : /\ i < m => f[i] < f[m]
                         /\ m < i => f[m] < f[i]
  PROVE  f[m] = m
<1>1. m - 1 <= f[m] - 1
  <2> DEFINE k == m - 1
             l == f[m] - 1
             g == [i \in 1..k |-> f[i]]
  <2>1. k \in Nat /\ l \in Nat
    OBVIOUS
  <2>2. \A i \in 1..k : i \in 1..n /\ f[i] \in 1..l
    <3> SUFFICES ASSUME NEW i \in 1..k PROVE i \in 1..n /\ f[i] \in 1..l
      OBVIOUS
    <3>1. i \in 1..n /\ i < m
      OBVIOUS
    <3>2. f[i] < f[m] /\ f[i] \in 1..n /\ f[m] \in 1..n
      BY <3>1
    <3> QED
      BY <3>1, <3>2
  <2>3. g \in [1..k -> 1..l] /\ \A i, j \in 1..k : g[i] = g[j] => i = j
    BY <2>2
  <2>4. g \in Injection(1..k, 1..l)
    BY <2>3 DEF Injection, IsInjective
  <2> HIDE DEF g, k, l
  <2> QED
    BY <2>1, <2>4, CountTo, FS_Injection DEF k, l
<1>2. n - m <= n - f[m]
  <2> DEFINE k == n - m
             l == n - f[m]
             g == [i \in 1..k |-> f[m + i] - f[m]]
  <2>1. k \in Nat /\ l \in Nat
    OBVIOUS
  <2>2. \A i \in 1..k : m + i \in 1..n /\ m < m + i
    OBVIOUS
  <2>3. \A i \in 1..k : f[m + i] - f[m] \in 1..l
    <3> SUFFICES ASSUME NEW i \in 1..k PROVE f[m + i] - f[m] \in 1..l
      OBVIOUS
    <3>1. f[m] < f[m + i] /\ f[m + i] \in 1..n /\ f[m] \in 1..n
      BY <2>2
    <3>2. \A u, v \in 1..n : u < v => v - u \in 1..(n - u)
      OBVIOUS
    <3> QED
      BY ONLY <3>1, <3>2
  <2>4. g \in [1..k -> 1..l]
    BY <2>3
  <2>5. ASSUME NEW i \in 1..k, NEW j \in 1..k, g[i] = g[j] PROVE i = j
    <3>1. f[m + i] \in Int /\ f[m + j] \in Int /\ f[m] \in Int
      BY <2>2
    <3>2. f[m + i] = f[m + j]
      BY <2>5, <3>1
    <3>3. m + i = m + j
      BY <2>2, <3>2
    <3> QED
      BY <3>3
  <2>6. g \in Injection(1..k, 1..l)
    BY <2>4, <2>5 DEF Injection, IsInjective
  <2> HIDE DEF g, k, l
  <2> QED
    BY <2>1, <2>6, CountTo, FS_Injection DEF k, l
<1> QED
  BY <1>1, <1>2

\* Every semantic that points back at its Instruction points at the one that
\* holds it: a ControlFlowInstruction is a barrier, and a barrier keeps its
\* place, so that correcting the LinkedInstructions is enough
\* (reorderpush.cpp:112).
THEOREM ReorderingKeepsBackPointers == Spec => []BackPointersRight
<1>1. ASSUME ReorderInv, phase = "done", NEW m \in DOMAIN block,
             Original[m].link # "none"
      PROVE  owner[m] = place[m]
  <2> DEFINE sem == Original
             n == Len(block)
  <2>1. /\ DOMAIN block = 1..n /\ n \in Nat /\ DoneInv
        /\ place \in [1..n -> 1..n]
        /\ InOrder(sem) /\ \A i, j \in 1..n : place[i] = place[j] => i = j
        /\ \A i \in 1..n : sem[i] \in Semantics
    <3>1. DOMAIN block = 1..n /\ n \in Nat
      BY <1>1 DEF ReorderInv, BlockOK
    <3>2. place \in [1..n -> 0..n] /\ DoneInv
      BY <1>1, <3>1 DEF ReorderInv, TypeOK
    <3>3. \A i \in 1..n : place[i] \in 1..n /\ sem[i] \in Semantics
      BY <1>1, <3>1, <3>2 DEF DoneInv
    <3>4. InOrder(sem) /\ \A i, j \in 1..n : place[i] = place[j] => i = j
      BY <1>1, <3>1, <3>2 DEF DoneInv
    <3> HIDE DEF n, sem
    <3>5. place \in [1..n -> 1..n]
      BY <3>2, <3>3
    <3> QED
      BY <3>1, <3>2, <3>3, <3>4, <3>5
  <2>2. /\ owner[m] = IF sem[m].link = "linked" THEN place[m] ELSE m
        /\ sem[m].link = "flow" => ~hasHandler(sem[m])
        /\ sem[m].link \in {"none", "linked", "flow"}
    BY <1>1, <2>1 DEF DoneInv, Semantics
  <2>3. CASE sem[m].link = "flow"
    <3> HIDE DEF sem
    <3>1. W(sem[m]) = Places
      BY <2>2, <2>3 DEF W
    <3>2. ASSUME NEW i \in 1..n PROVE \E r \in Places : r \in R(sem[i]) \cup W(sem[i])
      <4>1. R(sem[i]) \subseteq Places /\ W(sem[i]) \subseteq Places
        BY <2>1, EffectsArePlaces
      <4>2. R(sem[i]) \cup W(sem[i]) # {}
        BY ReorderAssumption DEF R, W, Reads, Writes, hasHandler, OnlyIf, Adds,
           Compares, Moves, Pushes, Pops, Places
      <4> QED
        BY <4>1, <4>2
    <3>3. \A i \in 1..n : Conflict(sem[i], sem[m]) /\ Conflict(sem[m], sem[i])
      BY <3>1, <3>2 DEF Conflict
    <3>4. \A i \in 1..n : /\ i < m => place[i] < place[m]
                          /\ m < i => place[m] < place[i]
      BY ONLY <1>1, <2>1, <3>3 DEF InOrder
    <3>5. place[m] = m
      BY <1>1, <2>1, <3>4, PinnedDown
    <3> QED
      BY <2>2, <2>3, <3>5
  <2> QED
    BY <1>1, <2>2, <2>3
<1>2. ReorderInv => BackPointersRight
  BY <1>1 DEF BackPointersRight
<1> QED
  BY ReorderInvariant, <1>2, PTL
=============================================================================
