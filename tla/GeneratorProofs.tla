-------------------------- MODULE GeneratorProofs --------------------------
(***************************************************************************)
(* For any program, sizes, orders, backing and alignment: the allocator    *)
(* stays in its backing, and the slots it gives out do not overlap.  The   *)
(* inductive invariant says that all slots end below the watermark, which  *)
(* is where the next one will start.                                       *)
(***************************************************************************)
EXTENDS Generator, TLAPS

\* The inductive invariant.
BelowWatermark ==
  /\ \A c \in Given :
       /\ Base <= slot[c].address
       /\ slot[c].address + slot[c].size <= watermark
       /\ size[c] <= slot[c].size
  /\ \A c, d \in Given : c # d =>
       \/ slot[c].address + slot[c].size <= slot[d].address
       \/ slot[d].address + slot[d].size <= slot[c].address

GeneratorInv == TypeOK /\ BelowWatermark

\* Rounding up to the alignment does not make a size smaller.
LEMMA RoundedUp ==
  ASSUME NEW n \in Nat
  PROVE  Rounded(n) \in Nat /\ n <= Rounded(n)
<1>1. n % Alignment \in 0..(Alignment - 1)
  BY GeneratorAssumption
<1>2. PICK r \in 0..(Alignment - 1) : r = n % Alignment
  BY <1>1
<1>3. (Alignment - r) % Alignment \in 0..(Alignment - 1)
  BY GeneratorAssumption
<1>4. (Alignment - r) % Alignment \in Nat
  BY <1>3, GeneratorAssumption
<1> QED
  BY <1>2, <1>4 DEF Rounded

\* Whatever order of a module's Functions is picked, it is one of Functions.
LEMMA SortedFunctions ==
  ASSUME NEW s \in Seq(Functions), NEW r \in SortedByAddress(s)
  PROVE  r \in Seq(Functions)
<1>1. PICK p \in [1..Len(s) -> 1..Len(s)] : r = [i \in 1..Len(s) |-> s[p[i]]]
  BY DEF SortedByAddress
<1>2. Len(s) \in Nat /\ \A i \in 1..Len(s) : s[p[i]] \in Functions
  BY <1>1
<1> QED
  BY <1>1, <1>2

\* The order that is picked for a module leads over chunks of the program.
LEMMA PickedChunks ==
  ASSUME TypeOK, PickOrder
  PROVE  todo' \in Seq(Chunks)
<1>1. module \in 1..Len(Modules)
  BY DEF TypeOK, PickOrder
<1>2. /\ Modules[module].functions \in Seq(Functions)
      /\ Modules[module].plts \in Seq(PLTs)
  <2> DEFINE M == [functions : Seq(Functions), plts : Seq(PLTs)]
  <2>1. Modules \in Seq(M)
    BY GeneratorAssumption
  <2> HIDE DEF M
  <2>2. Modules[module] \in M
    BY <1>1, <2>1
  <2> QED
    BY <2>2 DEF M
<1>3. PICK r : /\ r \in Seq(Functions)
               /\ todo' = r \o Modules[module].plts
  <2>1. CASE order = << >>
    BY <2>1, <1>2, SortedFunctions DEF PickOrder
  <2>2. CASE order # << >>
    BY <2>2 DEF PickOrder, TypeOK
  <2> QED
    BY <2>1, <2>2
<1>4. r \in Seq(Chunks) /\ Modules[module].plts \in Seq(Chunks)
  BY <1>2, <1>3 DEF Chunks
<1> QED
  BY <1>3, <1>4

\* No slots are given out at first.
LEMMA InitInv == Init => GeneratorInv
<1> SUFFICES ASSUME Init PROVE GeneratorInv
  OBVIOUS
<1>1. slot = [c \in Chunks |-> NoSlot] /\ Given = {}
  BY DEF Init, Given, NoSlot
<1>2. slot \in [Chunks -> [address : Nat, size : Nat, given : BOOLEAN]]
  BY <1>1 DEF NoSlot
<1>3. Len(Modules) \in Nat
  BY GeneratorAssumption
<1>4. size \in [Chunks -> Nat] /\ order \in Seq(Functions)
  BY GeneratorAssumption DEF Init
<1>5. module \in 1..(Len(Modules) + 1) /\ watermark \in Base..(Base + Capacity)
  BY <1>3, GeneratorAssumption DEF Init
<1>6. todo \in Seq(Chunks) /\ picked = FALSE /\ phase = "assign"
  BY DEF Init
<1>7. TypeOK
  BY <1>2, <1>4, <1>5, <1>6 DEF TypeOK
<1> QED
  BY <1>1, <1>7 DEF GeneratorInv, BelowWatermark

\* A step that gives out no slot keeps BelowWatermark.
LEMMA SameSlots ==
  ASSUME BelowWatermark, UNCHANGED <<inputs, slot, watermark>>
  PROVE  BelowWatermark'
<1>1. Given' = Given
  BY DEF Given
<1> QED
  BY <1>1 DEF BelowWatermark, inputs

\* The new slot starts where all others have ended.
LEMMA AssignInv ==
  ASSUME GeneratorInv, AssignNext
  PROVE  GeneratorInv'
<1> DEFINE x == Head(todo)
           n == Rounded(size[x])
<1>1. x \in Chunks /\ Tail(todo) \in Seq(Chunks)
  BY DEF GeneratorInv, TypeOK, AssignNext
<1>2. size[x] \in Nat /\ n \in Nat /\ size[x] <= n
  BY <1>1, RoundedUp DEF GeneratorInv, TypeOK
<1>3. /\ watermark \in Nat /\ Base <= watermark
      /\ watermark' = watermark + n /\ watermark' <= Base + Capacity
      /\ Base \in Nat /\ Capacity \in Nat
  BY <1>2, GeneratorAssumption DEF GeneratorInv, TypeOK, AssignNext, Fits
<1>4. /\ slot' = [slot EXCEPT ![x] = SlotAt(watermark, n)]
      /\ size' = size
      /\ slot \in [Chunks -> [address : Nat, size : Nat, given : BOOLEAN]]
  BY DEF GeneratorInv, TypeOK, AssignNext, inputs
<1>5. SlotAt(watermark, n) \in [address : Nat, size : Nat, given : BOOLEAN]
  BY <1>2, <1>3 DEF SlotAt
<1>6. TypeOK'
  <2>1. slot' \in [Chunks -> [address : Nat, size : Nat, given : BOOLEAN]]
    BY <1>1, <1>4, <1>5
  <2>2. watermark' \in Base..(Base + Capacity)
    BY <1>2, <1>3
  <2> QED
    BY <1>1, <2>1, <2>2 DEF GeneratorInv, TypeOK, AssignNext, inputs
<1>7. /\ slot'[x].address = watermark /\ slot'[x].size = n
      /\ \A c \in Chunks \ {x} : slot'[c] = slot[c]
  BY <1>1, <1>4 DEF SlotAt
<1>8. \A c \in Given' : c # x => c \in Given /\ c \in Chunks
  BY <1>7 DEF Given
<1>9. \A c \in Given : /\ slot[c].address \in Nat /\ slot[c].size \in Nat
                       /\ Base <= slot[c].address
                       /\ slot[c].address + slot[c].size <= watermark
                       /\ size[c] <= slot[c].size
  BY <1>4 DEF GeneratorInv, BelowWatermark, Given
<1>10. \A c \in Given' : /\ Base <= slot'[c].address
                         /\ slot'[c].address + slot'[c].size <= watermark'
                         /\ size'[c] <= slot'[c].size
  <2> TAKE c \in Given'
  <2>1. CASE c = x
    BY <2>1, <1>2, <1>3, <1>4, <1>7
  <2>2. CASE c # x
    <3>1. c \in Given /\ slot'[c] = slot[c]
      BY <2>2, <1>7, <1>8
    <3> QED
      BY <3>1, <1>2, <1>3, <1>4, <1>9
  <2> QED
    BY <2>1, <2>2
<1>11. \A c, d \in Given' : c # d =>
         \/ slot'[c].address + slot'[c].size <= slot'[d].address
         \/ slot'[d].address + slot'[d].size <= slot'[c].address
  <2> TAKE c, d \in Given'
  <2> HAVE c # d
  <2>1. CASE c = x
    <3>1. d \in Given /\ slot'[d] = slot[d]
      BY <2>1, <1>7, <1>8
    <3> QED
      BY <2>1, <3>1, <1>7, <1>9
  <2>2. CASE d = x
    <3>1. c \in Given /\ slot'[c] = slot[c]
      BY <2>2, <1>7, <1>8
    <3> QED
      BY <2>2, <3>1, <1>7, <1>9
  <2>3. CASE c # x /\ d # x
    <3>1. c \in Given /\ d \in Given /\ slot'[c] = slot[c] /\ slot'[d] = slot[d]
      BY <2>3, <1>7, <1>8
    <3> QED
      BY <3>1 DEF GeneratorInv, BelowWatermark
  <2> QED
    BY <2>1, <2>2, <2>3
<1> QED
  BY <1>6, <1>10, <1>11 DEF GeneratorInv, BelowWatermark

\* Every step keeps the inductive invariant.
LEMMA NextInv ==
  ASSUME GeneratorInv, [Next]_vars
  PROVE  GeneratorInv'
<1>1. TypeOK /\ BelowWatermark
  BY DEF GeneratorInv
<1>2. CASE PickOrder
  <2>1. TypeOK'
    BY <1>1, <1>2, PickedChunks DEF TypeOK, PickOrder, inputs
  <2> QED
    BY <1>1, <1>2, <2>1, SameSlots DEF PickOrder, GeneratorInv
<1>3. CASE NextModule
  <2>1. module' \in 1..(Len(Modules) + 1)
    BY <1>1, <1>3, GeneratorAssumption DEF TypeOK, NextModule
  <2>2. TypeOK'
    BY <1>1, <1>3, <2>1 DEF TypeOK, NextModule, inputs
  <2> QED
    BY <1>1, <1>3, <2>2, SameSlots DEF NextModule, GeneratorInv
<1>4. CASE NextWalk
  <2>1. Len(Modules) \in Nat /\ ~picked
    BY <1>1, <1>4, GeneratorAssumption DEF TypeOK, NextWalk
  <2>2. TypeOK'
    BY <1>1, <1>4, <2>1 DEF TypeOK, NextWalk, inputs
  <2> QED
    BY <1>1, <1>4, <2>2, SameSlots DEF NextWalk, GeneratorInv
<1>5. CASE AssignNext
  BY <1>5, AssignInv
<1>6. CASE BadAlloc
  <2>1. TypeOK'
    BY <1>1, <1>6 DEF TypeOK, BadAlloc, inputs
  <2> QED
    BY <1>1, <1>6, <2>1, SameSlots DEF BadAlloc, GeneratorInv
<1>7. CASE CopyDirect \/ CopyToBuffer
  <2>1. /\ todo \in Seq(Chunks) /\ todo # << >> /\ todo' = Tail(todo)
        /\ UNCHANGED <<inputs, phase, module, picked, watermark, slot>>
    BY <1>1, <1>7 DEF TypeOK, CopyDirect, CopyToBuffer
  <2>2. TypeOK'
    BY <1>1, <2>1 DEF TypeOK, inputs
  <2> QED
    BY <1>1, <2>1, <2>2, SameSlots DEF GeneratorInv
<1>8. CASE UNCHANGED vars
  <2>1. TypeOK'
    BY <1>1, <1>8 DEF TypeOK, vars, inputs
  <2> QED
    BY <1>1, <1>8, <2>1, SameSlots DEF vars, GeneratorInv
<1> QED
  BY <1>2, <1>3, <1>4, <1>5, <1>6, <1>7, <1>8 DEF Next

\* The inductive invariant holds in every reachable state.
LEMMA Invariance == Spec => []GeneratorInv
BY InitInv, NextInv, PTL DEF Spec

\* The watermark stays in the backing and the walks stay in the program, for
\* every program and every sandbox.
THEOREM TypeCorrect == Spec => []TypeOK
<1>1. GeneratorInv => TypeOK
  BY DEF GeneratorInv
<1> QED
  BY <1>1, Invariance, PTL

\* Slots hold their chunks, lie in the backing and do not overlap, for every
\* program, every order of its Functions and every sandbox.
THEOREM SlotsNeverOverlap == Spec => []SlotsDisjoint
<1>1. GeneratorInv => SlotsDisjoint
  <2> SUFFICES ASSUME GeneratorInv PROVE SlotsDisjoint
    OBVIOUS
  <2>1. watermark \in Int /\ watermark <= Base + Capacity
    BY GeneratorAssumption DEF GeneratorInv, TypeOK
  <2>2. \A c \in Given : slot[c].address \in Nat /\ slot[c].size \in Nat
    BY DEF GeneratorInv, TypeOK, Given
  <2> QED
    BY <2>1, <2>2, GeneratorAssumption DEF GeneratorInv, BelowWatermark, SlotsDisjoint
<1> QED
  BY <1>1, Invariance, PTL
=============================================================================
