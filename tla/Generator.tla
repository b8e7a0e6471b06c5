----------------------------- MODULE Generator -----------------------------
(***************************************************************************)
(* Moving code: ConductorSetup::moveCode and the generate... methods give  *)
(* every Function and PLTTrampoline of the program a slot of the sandbox,  *)
(* module by module, and then, in a second walk, copy the code there.  The *)
(* order of the Functions is picked anew in each walk, by their current    *)
(* addresses.  A sandbox is memory mapped at its final address, which is   *)
(* written directly, or a buffer that the code is appended to.             *)
(***************************************************************************)
EXTENDS Integers, Sequences

CONSTANTS Modules,     \* the modules of the program, [functions, plts] each
          Sizes,       \* what the getSize() of the chunks may be
          OldAddresses,\* where the Functions may be before they are moved
          Orders,      \* orders that a caller may ask for; << >>: none asked
          Base, Capacity,  \* the SandboxBacking
          Alignment    \* of AlignedWatermarkAllocator; 1: WatermarkAllocator

Elements(s) == {s[i] : i \in 1..Len(s)}
Functions == UNION {Elements(Modules[i].functions) : i \in 1..Len(Modules)}
PLTs == UNION {Elements(Modules[i].plts) : i \in 1..Len(Modules)}
Chunks == Functions \cup PLTs

ASSUME GeneratorAssumption ==
  /\ Modules \in Seq([functions : Seq(Functions), plts : Seq(PLTs)])
  /\ Orders \subseteq Seq(Functions)
  /\ Sizes \subseteq [Chunks -> Nat]
  /\ Base \in Nat /\ Capacity \in Nat /\ Alignment \in Nat \ {0}

VARIABLES
  size,        \* getSize(); of PLTTrampolines it may exceed what they hold
  held,        \* the number of bytes that the instructions of a chunk take
  old,         \* the addresses of the Functions before they are moved
  order,       \* the order asked for by the caller
  direct,      \* Sandbox::supportsDirectWrites
  phase,       \* what moveCode is doing
  module,      \* index of the module it is at
  picked,      \* has the order in this module been picked?
  todo,        \* the chunks of the module that are still to do
  watermark,   \* of the allocator
  slot,        \* getAssignedPosition()
  memory,      \* the sandbox's bytes, by offset from Base
  buffer       \* of MemoryBufferBacking

inputs == <<size, held, old, order, direct>>
vars == <<inputs, phase, module, picked, todo, watermark, slot, memory, buffer>>

NoSlot == [address |-> 0, size |-> 0, given |-> FALSE]
SlotAt(a, n) == [address |-> a, size |-> n, given |-> TRUE]

\* A byte of the code of c, or of what fills the gaps.
Byte(c, k) == <<c, k>>
Zero == <<"zero", 0>>
Nop == <<"nop", 0>>
Hlt == <<"hlt", 0>>

getAddress(f) == IF slot[f].given THEN slot[f].address ELSE old[f]

-----------------------------------------------------------------------------
\* Mutant: the order is picked by the addresses in the original program.
SortedByOld(s) ==
  {[i \in 1..Len(s) |-> s[p[i]]] :
     p \in {p \in [1..Len(s) -> 1..Len(s)] :
              /\ \A i, j \in 1..Len(s) : i # j => p[i] # p[j]
              /\ \A i, j \in 1..Len(s) : i < j => old[s[p[i]]] <= old[s[p[j]]]}}

\* Generator::pickFunctionOrder.  Functions at the same address come in any
\* order: std::sort is not stable.
SortedByAddress(s) ==
  {[i \in 1..Len(s) |-> s[p[i]]] :
     p \in {p \in [1..Len(s) -> 1..Len(s)] :
              /\ \A i, j \in 1..Len(s) : i # j => p[i] # p[j]
              /\ \A i, j \in 1..Len(s) :
                   i < j => getAddress(s[p[i]]) <= getAddress(s[p[j]])}}

\* The walks over a module start: assignAddresses, generateCode.
PickOrder ==
  /\ phase \in {"assign", "generate"} /\ ~picked /\ module <= Len(Modules)
  /\ \E s \in IF order = << >> THEN SortedByAddress(Modules[module].functions)
                               ELSE {order} :
       todo' = s \o Modules[module].plts
  /\ picked' = TRUE
  /\ UNCHANGED <<inputs, phase, module, watermark, slot, memory, buffer>>

\* ... and end.
NextModule ==
  /\ phase \in {"assign", "generate"} /\ picked /\ todo = << >>
  /\ picked' = FALSE
  /\ module' = module + 1
  /\ UNCHANGED <<inputs, phase, todo, watermark, slot, memory, buffer>>

\* moveCode goes on to copyCodeToNewAddresses, then moveCodeMakeExecutable.
NextWalk ==
  /\ phase \in {"assign", "generate"} /\ module > Len(Modules)
  /\ phase' = IF phase = "assign" THEN "generate" ELSE "executable"
  /\ module' = 1
  /\ UNCHANGED <<inputs, picked, todo, watermark, slot, memory, buffer>>

\* n rounded up to a multiple of Alignment.
Rounded(n) == n + ((Alignment - (n % Alignment)) % Alignment)

Fits(n) == watermark + n <= Base + Capacity

\* Mutant: the watermark moves by the size that was asked for.
AssignNextUnrounded ==
  /\ phase = "assign" /\ picked /\ todo # << >>
  /\ Fits(Rounded(size[Head(todo)]))
  /\ slot' = [slot EXCEPT ![Head(todo)] = SlotAt(watermark, Rounded(size[Head(todo)]))]
  /\ watermark' = watermark + size[Head(todo)]
  /\ todo' = Tail(todo)
  /\ UNCHANGED <<inputs, phase, module, picked, memory, buffer>>

\* allocate() and GeneratorHelper::assignAddress for the next chunk.
AssignNext ==
  /\ phase = "assign" /\ picked /\ todo # << >>
  /\ Fits(Rounded(size[Head(todo)]))
  /\ slot' = [slot EXCEPT ![Head(todo)] = SlotAt(watermark, Rounded(size[Head(todo)]))]
  /\ watermark' = watermark + Rounded(size[Head(todo)])
  /\ todo' = Tail(todo)
  /\ UNCHANGED <<inputs, phase, module, picked, memory, buffer>>

\* allocate() throws std::bad_alloc, which ends moveCode.
BadAlloc ==
  /\ phase = "assign" /\ picked /\ todo # << >>
  /\ ~Fits(Rounded(size[Head(todo)]))
  /\ phase' = "bad_alloc"
  /\ UNCHANGED <<inputs, module, picked, todo, watermark, slot, memory, buffer>>

-----------------------------------------------------------------------------
\* GeneratorHelper::addPaddingBytes: how many.
Padding(c) == IF slot[c].size > size[c] THEN slot[c].size - size[c] ELSE 0

\* copyToSandbox for a sandbox mapped at its final address.
CopyDirect ==
  LET c == Head(todo)
      at == slot[c].address - Base
  IN  /\ phase = "generate" /\ picked /\ todo # << >> /\ direct
      /\ memory' = [o \in DOMAIN memory |->
                      IF o \in at..(at + held[c] - 1) THEN Byte(c, o - at)
                      ELSE IF o \in (at + size[c])..(at + size[c] + Padding(c) - 1) THEN Nop
                      ELSE memory[o]]
      /\ todo' = Tail(todo)
      /\ UNCHANGED <<inputs, phase, module, picked, watermark, slot, buffer>>

\* copyToSandbox for a buffer.  A PLTTrampoline that holds less than its size
\* is filled up.
CopyToBuffer ==
  LET c == Head(todo)
      fill == IF c \in PLTs THEN size[c] - held[c] ELSE 0
  IN  /\ phase = "generate" /\ picked /\ todo # << >> /\ ~direct
      /\ buffer' = buffer \o [k \in 1..held[c] |-> Byte(c, k - 1)]
                          \o [k \in 1..fill |-> Hlt]
                          \o [k \in 1..Padding(c) |-> Nop]
      /\ todo' = Tail(todo)
      /\ UNCHANGED <<inputs, phase, module, picked, watermark, slot, memory>>

\* A Function is as long as its instructions; IFuncPLTs may have made the
\* contents of a PLTTrampoline shorter than its size.
Init ==
  /\ size \in Sizes
  /\ held \in {h \in [Chunks -> UNION {0..size[c] : c \in Chunks}] :
                 /\ \A f \in Functions : h[f] = size[f]
                 /\ \A p \in PLTs : h[p] <= size[p]}
  /\ old \in OldAddresses
  /\ order \in Orders
  /\ direct \in BOOLEAN
  /\ phase = "assign" /\ module = 1 /\ picked = FALSE /\ todo = << >>
  /\ watermark = Base
  /\ slot = [c \in Chunks |-> NoSlot]
  /\ memory = [o \in 0..(Capacity - 1) |-> Zero]
  /\ buffer = << >>

Next ==
  \/ PickOrder \/ NextModule \/ NextWalk
  \/ AssignNext \/ BadAlloc \/ CopyDirect \/ CopyToBuffer

Spec == Init /\ [][Next]_vars

-----------------------------------------------------------------------------
\* The allocator never passes the end of the backing, and the walks are over
\* chunks of the program.
TypeOK ==
  /\ size \in [Chunks -> Nat]
  /\ order \in Seq(Functions)
  /\ phase \in {"assign", "generate", "executable", "bad_alloc"}
  /\ module \in 1..(Len(Modules) + 1)
  /\ picked \in BOOLEAN
  /\ picked => module <= Len(Modules)
  /\ todo \in Seq(Chunks)
  /\ watermark \in Base..(Base + Capacity)
  /\ slot \in [Chunks -> [address : Nat, size : Nat, given : BOOLEAN]]

Given == {c \in Chunks : slot[c].given}

\* Slots lie in the backing, hold the chunks they are for, and no two of them
\* overlap, even when a caller's order makes assignAddresses give a Function
\* several slots (Generator::assignAddresses, SandboxAllocator::allocate).
SlotsDisjoint ==
  /\ \A c \in Given :
       /\ Base <= slot[c].address
       /\ slot[c].address + slot[c].size <= Base + Capacity
       /\ size[c] <= slot[c].size
  /\ \A c, d \in Given : c # d =>
       \/ slot[c].address + slot[c].size <= slot[d].address
       \/ slot[d].address + slot[d].size <= slot[c].address

ByteAt(a) == IF direct THEN memory[a - Base] ELSE buffer[a - Base + 1]

\* Once the sandbox is made executable, every chunk's code is at the address
\* that the chunk was given, in memory and in the buffer, although the order
\* of the Functions was picked twice (Generator::generateCode).
CodeInPlace ==
  phase = "executable" =>
    \A c \in Given : \A k \in 0..(held[c] - 1) :
      /\ ~direct => slot[c].address + k - Base < Len(buffer)
      /\ ByteAt(slot[c].address + k) = Byte(c, k)

=============================================================================
