----------------------------- MODULE JitShuffle -----------------------------
(***************************************************************************)
(* The JIT-shuffling runtime.  Every call, jump and return of the program  *)
(* goes through a per-thread table that %gs points to; a return address on *)
(* the stack is a table index and a place in that function, never a code   *)
(* address.  An entry whose function has no code in the current epoch      *)
(* holds the address of egalito_hook_jit_fixup, which generates the code   *)
(* on demand.  Code lives in the two halves of the thread's DualSandbox:   *)
(* one holds the reserved functions (the runtime itself), the other        *)
(* receives the functions generated on demand.  A reset generates the      *)
(* reserved functions in the other half, empties the first and swaps the   *)
(* roles, while the runtime that does so is itself being moved.            *)
(***************************************************************************)
EXTENDS Naturals, Sequences, FiniteSets

CONSTANTS Threads,     \* every thread that may exist
          Main,        \* the thread that runs first
          App,         \* the program's functions
          Labels,      \* jump table targets: instructions inside functions
          LabelOf,     \* the function of each jump table target
          Threshold,   \* JIT_RESET_THRESHOLD
          MaxDepth,    \* bound on the depth of the stack for new calls
          Nobody       \* the owner of the null address

\* The reserved entries in index order: gs@[0], gs@[1], gs@[2], then the
\* functions of the runtime, which stand here as one.
Reserved == <<"fixup", "return", "reset", "runtime">>
ReservedSet == {Reserved[i] : i \in 1..Len(Reserved)}

\* egalito_pthread_create and libc's clone are generated on demand as well.
User == App \cup {"create", "clone"}
Functions == ReservedSet \cup User
Indices == Functions \cup Labels

\* A code address: the place of a function's copy in a half of a sandbox,
\* and the offset in the function (0 its start, 1 its jump table target).
Addresses == [owner : Threads \cup {Nobody}, half : {0, 1},
              slot : 0..Cardinality(Functions), off : {0, 1}]
Zero == [owner |-> Nobody, half |-> 0, slot |-> 0, off |-> 0]

VARIABLES
  table,     \* the array each thread's GSTable points to
  addr,      \* each thread's JIT_addressTable
  code,      \* the functions in each half of each sandbox, in slot order
  exec,      \* which halves are executable (otherwise writable)
  active,    \* DualSandbox::i
  gs,        \* whose table the %gs register of each thread points to
  cpu,       \* what each thread executes
  stack,     \* each thread's return addresses, innermost last
  jitting,   \* EgalitoTLS::JIT_jitting
  counter,   \* EgalitoTLS::JIT_resetCounter
  barrier    \* the creating thread waits for its child to raise it

vars == <<table, addr, code, exec, active, gs, cpu, stack, jitting, counter, barrier>>

FunctionOf(i) == IF i \in Labels THEN LabelOf[i] ELSE i

\* The registers of a thread: pc is the place in the function fn that is
\* executed from the copy at "at"; index is the one in %mm1, %rdi or
\* JIT_temporary, subject is the thread whose sandbox is set up: another one
\* while that is being created.
NotRunning(t) == [fn |-> "none", pc |-> "none", at |-> Zero,
                  index |-> "fixup", subject |-> t]

At(t, fn, pc) == cpu[t].fn = fn /\ cpu[t].pc = pc

InUser(t) == cpu[t].fn \in User /\ cpu[t].pc = "body"

-----------------------------------------------------------------------------
\* Control transfers through the table.

\* jmpq *%gs:i with the tables T.  The entry either is the address of the
\* fixup hook, entered with i in %mm1, or leads to the function itself.
JumpIn(T, t, i, pc) ==
  LET to == T[gs[t]][i]
  IN  IF to = T[gs[t]]["fixup"] /\ i # "fixup"
      THEN [cpu[t] EXCEPT !.fn = "fixup", !.pc = "entry", !.at = to, !.index = i]
      ELSE [cpu[t] EXCEPT !.fn = FunctionOf(i), !.pc = pc, !.at = to]

Jump(t, i, pc) == cpu' = [cpu EXCEPT ![t] = JumpIn(table, t, i, pc)]

\* A call pushes the caller's index and the place to continue at.
Push(t, i, pc) == stack' = [stack EXCEPT ![t] = Append(@, [index |-> i, pc |-> pc])]

\* Every return instruction is jmpq *%gs:0x8.
Return(t) == Jump(t, "return", "pop")

\* A call of a runtime function by a runtime function, with the tables T in
\* force when it returns: its return goes through the table again.
Within(T, t, pc) == cpu' = [cpu EXCEPT ![t] = JumpIn(T, t, "runtime", pc)]

\* egalito_jit_gs_fixup is called with the index i.
CallFixup(t, i, caller, back) ==
  /\ Push(t, caller, back)
  /\ cpu' = [cpu EXCEPT ![t] = [JumpIn(table, t, "runtime", "resolve") EXCEPT !.index = i]]

-----------------------------------------------------------------------------
\* The program, as UseGSTablePass rewrote it.

Unchanged == UNCHANGED <<table, addr, code, exec, active, gs, jitting, counter, barrier>>

MayPush(t) == Len(stack[t]) < MaxDepth

DirectCall(t, f) ==
  /\ InUser(t) /\ MayPush(t) /\ cpu[t].fn \in App
  /\ Push(t, cpu[t].fn, "body")
  /\ Jump(t, f, "body")
  /\ Unchanged

\* A call of egalito_pthread_create, to make the thread c.
CallCreate(t, c) ==
  /\ InUser(t) /\ MayPush(t) /\ cpu[t].fn \in App
  /\ cpu[c] = NotRunning(c) /\ \A u \in Threads \ {c} : cpu[u].subject # c
  /\ Push(t, cpu[t].fn, "body")
  /\ cpu' = [cpu EXCEPT ![t] = [JumpIn(table, t, "create", "body") EXCEPT !.subject = c]]
  /\ Unchanged

TailJump(t, f) ==
  /\ InUser(t) /\ cpu[t].fn \in App
  /\ Jump(t, f, "body")
  /\ UNCHANGED stack /\ Unchanged

JumpTableJump(t, l) ==
  /\ InUser(t) /\ cpu[t].fn = LabelOf[l]
  /\ Jump(t, l, "body")
  /\ UNCHANGED stack /\ Unchanged

ReturnFrom(t) ==
  /\ InUser(t) /\ cpu[t].fn \in App /\ stack[t] # << >>
  /\ Return(t)
  /\ UNCHANGED stack /\ Unchanged

\* After its writev system call the program calls the reset hook.
AfterWritev(t) ==
  /\ InUser(t) /\ MayPush(t) /\ cpu[t].fn \in App
  /\ Push(t, cpu[t].fn, "body")
  /\ Jump(t, "reset", "check")
  /\ Unchanged

-----------------------------------------------------------------------------
\* egalito_hook_jit_fixup

FixupEntry(t) ==
  /\ At(t, "fixup", "entry")
  /\ IF jitting[t] # 0
     THEN /\ cpu' = [cpu EXCEPT ![t].pc = "hang"]
          /\ UNCHANGED <<stack, jitting>>
     ELSE /\ jitting' = [jitting EXCEPT ![t] = 1]
          /\ CallFixup(t, cpu[t].index, "fixup", "done")
  /\ UNCHANGED <<table, addr, code, exec, active, gs, counter, barrier>>

\* The entry is read again: the hook jumps to what the fixup stored there.
FixupDone(t) ==
  /\ At(t, "fixup", "done")
  /\ jitting' = [jitting EXCEPT ![t] = 0]
  /\ Jump(t, cpu[t].index, "body")
  /\ UNCHANGED <<table, addr, code, exec, active, gs, stack, counter, barrier>>

-----------------------------------------------------------------------------
\* egalito_hook_jit_fixup_return

\* The popped index leads to code, or is the fixup hook's own.
ReturnTo(t) ==
  LET ra == stack[t][Len(stack[t])]
      T  == table[gs[t]]
  IN  /\ At(t, "return", "pop")
      /\ T[ra.index] # T["fixup"] \/ ra.index = "fixup"
      /\ stack' = [stack EXCEPT ![t] = SubSeq(@, 1, Len(@) - 1)]
      /\ cpu' = [cpu EXCEPT ![t] = [@ EXCEPT !.fn = FunctionOf(ra.index),
                                             !.pc = ra.pc,
                                             !.at = T[ra.index]]]
      /\ Unchanged

\* The caller has no code in this epoch: generate it, then try again.
ReturnFixup(t) ==
  LET ra == stack[t][Len(stack[t])]
      T  == table[gs[t]]
  IN  /\ At(t, "return", "pop")
      /\ T[ra.index] = T["fixup"] /\ ra.index # "fixup"
      /\ jitting' = [jitting EXCEPT ![t] = 1]
      /\ CallFixup(t, ra.index, "return", "retry")
      /\ UNCHANGED <<table, addr, code, exec, active, gs, counter, barrier>>

ReturnRetry(t) ==
  /\ At(t, "return", "retry")
  /\ jitting' = [jitting EXCEPT ![t] = 0]
  /\ cpu' = [cpu EXCEPT ![t].pc = "pop"]
  /\ UNCHANGED <<table, addr, code, exec, active, gs, stack, counter, barrier>>

-----------------------------------------------------------------------------
\* egalito_hook_jit_reset_on_syscall

ResetEntry(t) ==
  /\ At(t, "reset", "check")
  /\ IF jitting[t] # 0
     THEN /\ Return(t)
          /\ UNCHANGED <<stack, jitting>>
     ELSE /\ jitting' = [jitting EXCEPT ![t] = 1]
          /\ Push(t, "reset", "done")
          /\ Jump(t, "runtime", "count")
  /\ UNCHANGED <<table, addr, code, exec, active, gs, counter, barrier>>

ResetDone(t) ==
  /\ At(t, "reset", "done")
  /\ jitting' = [jitting EXCEPT ![t] = 0]
  /\ Return(t)
  /\ UNCHANGED <<table, addr, code, exec, active, gs, stack, counter, barrier>>

-----------------------------------------------------------------------------
\* egalito_jit_gs_fixup, which writes the table of the thread's EgalitoTLS

\* PositionManager::getAddress in the thread t: a label's address is its
\* offset from the address of its function.
AddressOf(t, i) == IF i \in Labels THEN [addr[t][LabelOf[i]] EXCEPT !.off = 1]
                   ELSE addr[t][i]

\* WatermarkAllocator::allocate in the active half of x: the next slot.
NextSlot(x) == [owner |-> x, half |-> active[x],
                slot |-> Len(code[x][active[x]]) + 1, off |-> 0]

Resolve(t) ==
  LET i == cpu[t].index
  IN  /\ At(t, "runtime", "resolve")
      /\ table' = [table EXCEPT ![t][i] = AddressOf(t, i)]
      /\ Within(table', t, IF i \in Labels THEN "label" ELSE "reopen")
      /\ UNCHANGED <<addr, code, exec, active, gs, stack, jitting, counter, barrier>>

\* sandbox->reopen(): mprotect makes the active half writable.
FixupReopen(t) ==
  /\ At(t, "runtime", "reopen")
  /\ exec' = [exec EXCEPT ![t][active[t]] = FALSE]
  /\ Within(table, t, "generate")
  /\ UNCHANGED <<table, addr, code, active, gs, stack, jitting, counter, barrier>>

\* Generator::assignAndGenerate
FixupGenerate(t) ==
  /\ At(t, "runtime", "generate")
  /\ addr' = [addr EXCEPT ![t][cpu[t].index] = NextSlot(t)]
  /\ code' = [code EXCEPT ![t][active[t]] = Append(@, cpu[t].index)]
  /\ Within(table, t, "finalize")
  /\ UNCHANGED <<table, exec, active, gs, stack, jitting, counter, barrier>>

FixupFinalize(t) ==
  /\ At(t, "runtime", "finalize")
  /\ exec' = [exec EXCEPT ![t][active[t]] = TRUE]
  /\ Within(table, t, "store")
  /\ UNCHANGED <<table, addr, code, active, gs, stack, jitting, counter, barrier>>

\* Mutant: the entry leads back to the hook.
FixupStoreCallback(t) ==
  LET i == cpu[t].index
  IN  /\ At(t, "runtime", "store")
      /\ table' = [table EXCEPT ![t][i] = table[t]["fixup"]]
      /\ addr' = [addr EXCEPT ![t][i] = Zero]
      /\ code' = [code EXCEPT ![t][active[t]] = SubSeq(@, 1, Len(@) - 1)]
      /\ Return(t)
      /\ UNCHANGED <<exec, active, gs, stack, jitting, counter, barrier>>

\* address = target->getAddress(); setAddress(target, 0); setEntry; return
FixupStore(t) ==
  LET i == cpu[t].index
  IN  /\ At(t, "runtime", "store")
      /\ table' = [table EXCEPT ![t][i] = addr[t][i]]
      /\ addr' = [addr EXCEPT ![t][i] = Zero]
      /\ Return(t)
      /\ UNCHANGED <<code, exec, active, gs, stack, jitting, counter, barrier>>

\* The label's distance from its function's start, which does not depend on
\* where the address table puts the function, is added to the function's
\* entry in the table of %gs.
FixupLabel(t) ==
  LET i == cpu[t].index
  IN  /\ At(t, "runtime", "label")
      /\ table' = [table EXCEPT ![t][i] = [table[gs[t]][LabelOf[i]] EXCEPT !.off = 1]]
      /\ Return(t)
      /\ UNCHANGED <<addr, code, exec, active, gs, stack, jitting, counter, barrier>>

-----------------------------------------------------------------------------
\* egalito_jit_gs_reset and egalito_jit_gs_init

Count(t) ==
  /\ At(t, "runtime", "count")
  /\ IF counter[t] + 1 < Threshold
     THEN /\ counter' = [counter EXCEPT ![t] = @ + 1]
          /\ Return(t)
     ELSE /\ counter' = [counter EXCEPT ![t] = 0]
          /\ cpu' = [cpu EXCEPT ![t] = [JumpIn(table, t, "runtime", "init")
                                          EXCEPT !.subject = t]]
  /\ UNCHANGED <<table, addr, code, exec, active, gs, stack, jitting, barrier>>

\* sandbox->reopen(); sandbox->recreate(): the active half is cleared.
Recreate(t, here, next) ==
  LET x == cpu[t].subject
  IN  /\ At(t, "runtime", here)
      /\ exec' = [exec EXCEPT ![x][active[x]] = FALSE]
      /\ code' = [code EXCEPT ![x][active[x]] = << >>]
      /\ Within(table, t, next)
      /\ UNCHANGED <<table, addr, active, gs, stack, jitting, counter, barrier>>

InitRecreate(t) == Recreate(t, "init", "reserved")

\* The reserved functions are generated in index order, their addresses kept
\* in the address table of the thread that runs this.
InitGenerate(t) ==
  LET x == cpu[t].subject
      slot(k) == [NextSlot(x) EXCEPT !.slot = @ + k - 1]
  IN  /\ At(t, "runtime", "reserved")
      /\ code' = [code EXCEPT ![x][active[x]] = @ \o Reserved]
      /\ addr' = [addr EXCEPT ![t] =
                    [i \in Functions |->
                       IF i \in ReservedSet
                       THEN slot(CHOOSE k \in 1..Len(Reserved) : Reserved[k] = i)
                       ELSE @[i]]]
      /\ Within(table, t, "finalized")
      /\ UNCHANGED <<table, exec, active, gs, stack, jitting, counter, barrier>>

InitFinalize(t) ==
  LET x == cpu[t].subject
  IN  /\ At(t, "runtime", "finalized")
      /\ exec' = [exec EXCEPT ![x][active[x]] = TRUE]
      /\ Within(table, t, "entries")
      /\ UNCHANGED <<table, addr, code, active, gs, stack, jitting, counter, barrier>>

\* Mutant: only the reserved entries are written.
ResetEntriesReservedOnly(t) ==
  LET x == cpu[t].subject
  IN  /\ At(t, "runtime", "entries")
      /\ table' = [table EXCEPT ![x] =
                     [i \in Indices |-> IF i \in ReservedSet THEN addr[t][i] ELSE @[i]]]
      /\ Within(table', t, "clear")
      /\ UNCHANGED <<addr, code, exec, active, gs, stack, jitting, counter, barrier>>

\* ManageGS::resetEntries.  It returns into the copies it has just entered.
\* Every reserved entry is a Function, whose address InitGenerate has left in
\* the address table; labels of the runtime's own jump tables, which have no
\* address there and are looked up instead, are not modelled.
ResetEntries(t) ==
  LET x == cpu[t].subject
  IN  /\ At(t, "runtime", "entries")
      /\ table' = [table EXCEPT ![x] =
                     [i \in Indices |-> IF i \in ReservedSet THEN addr[t][i]
                                        ELSE addr[t]["fixup"]]]
      /\ Within(table', t, "clear")
      /\ UNCHANGED <<addr, code, exec, active, gs, stack, jitting, counter, barrier>>

\* explicit_bzero(EgalitoTLS::getJITAddressTable())
InitClear(t) ==
  /\ At(t, "runtime", "clear")
  /\ addr' = [addr EXCEPT ![t] = [i \in Functions |-> Zero]]
  /\ Within(table, t, "flip")
  /\ UNCHANGED <<table, code, exec, active, gs, stack, jitting, counter, barrier>>

\* Mutant: the halves do not swap roles.
InitFlipMissing(t) ==
  /\ At(t, "runtime", "flip")
  /\ Within(table, t, "empty")
  /\ UNCHANGED <<table, addr, code, exec, active, gs, stack, jitting, counter, barrier>>

InitFlip(t) ==
  LET x == cpu[t].subject
  IN  /\ At(t, "runtime", "flip")
      /\ active' = [active EXCEPT ![x] = 1 - @]
      /\ Within(table, t, "empty")
      /\ UNCHANGED <<table, addr, code, exec, gs, stack, jitting, counter, barrier>>

\* Mutant: the other half is not cleared.
InitEmptyMissing(t) ==
  /\ At(t, "runtime", "empty")
  /\ Within(table, t, "seal")
  /\ UNCHANGED <<table, addr, code, exec, active, gs, stack, jitting, counter, barrier>>

InitEmpty(t) == Recreate(t, "empty", "seal")

InitSeal(t) ==
  LET x == cpu[t].subject
  IN  /\ At(t, "runtime", "seal")
      /\ exec' = [exec EXCEPT ![x][active[x]] = TRUE]
      /\ Return(t)
      /\ UNCHANGED <<table, addr, code, active, gs, stack, jitting, counter, barrier>>

-----------------------------------------------------------------------------
\* egalito_pthread_create, and the child until it runs on its own table

\* A new GSTable with a zeroed array, and a new sandbox, both halves writable;
\* then egalito_jit_gs_init for them.
Create(t) ==
  /\ At(t, "create", "body")
  /\ Push(t, "create", "spawn")
  /\ Jump(t, "runtime", "init")
  /\ Unchanged

\* pthread_create down to the clone system call in libc, as one step: what
\* glibc calls on the way is called through the table like all other code.
Spawn(t) ==
  /\ At(t, "create", "spawn")
  /\ barrier' = [barrier EXCEPT ![t] = 0]
  /\ Push(t, "create", "wait")
  /\ Jump(t, "clone", "body")
  /\ UNCHANGED <<table, addr, code, exec, active, gs, jitting, counter>>

\* The child starts with the parent's %gs, right after the system call.
Clone(t) ==
  LET c == cpu[t].subject
  IN  /\ At(t, "clone", "body")
      /\ gs' = [gs EXCEPT ![c] = gs[t]]
      /\ cpu' = [cpu EXCEPT ![t].pc = "parent",
                            ![c] = [cpu[t] EXCEPT !.pc = "child", !.subject = c]]
      /\ UNCHANGED <<table, addr, code, exec, active, stack, jitting, counter, barrier>>

CloneFails(t) ==
  /\ At(t, "clone", "body")
  /\ cpu' = [cpu EXCEPT ![t].pc = "parent"]
  /\ UNCHANGED <<table, addr, code, exec, active, gs, stack, jitting, counter, barrier>>

CloneReturns(t) ==
  /\ At(t, "clone", "parent")
  /\ Return(t)
  /\ UNCHANGED stack /\ Unchanged

\* while(!barrier);
Spin(t) == At(t, "create", "wait") /\ barrier[t] = 0 /\ UNCHANGED vars

\* Mutant: the creator does not wait for the barrier.
WaitNot(t) ==
  /\ At(t, "create", "wait")
  /\ cpu' = [cpu EXCEPT ![t] = [JumpIn(table, t, "return", "pop") EXCEPT !.subject = t]]
  /\ UNCHANGED stack /\ Unchanged

Wait(t) ==
  /\ At(t, "create", "wait")
  /\ barrier[t] = 1
  /\ cpu' = [cpu EXCEPT ![t] = [JumpIn(table, t, "return", "pop") EXCEPT !.subject = t]]
  /\ UNCHANGED stack /\ Unchanged

\* egalito_hook_after_clone_syscall calls egalito_jit_gs_setup_thread.
ChildHook(t) ==
  /\ At(t, "clone", "child")
  /\ Push(t, "clone", "start")
  /\ Jump(t, "runtime", "setgs")
  /\ Unchanged

\* ManageGS::setGS returns through the new table.
SetGS(t) ==
  /\ At(t, "runtime", "setgs")
  /\ gs' = [gs EXCEPT ![t] = t]
  /\ cpu' = [cpu EXCEPT ![t] = [@ EXCEPT !.pc = "raise", !.at = table[t]["runtime"]]]
  /\ UNCHANGED <<table, addr, code, exec, active, stack, jitting, counter, barrier>>

\* Mutant: the barrier is not raised.
RaiseBarrierNot(t) ==
  /\ At(t, "runtime", "raise")
  /\ Return(t)
  /\ UNCHANGED <<table, addr, code, exec, active, gs, stack, jitting, counter, barrier>>

RaiseBarrier(t) ==
  \E p \in Threads :
    /\ At(t, "runtime", "raise")
    /\ cpu[p].subject = t /\ p # t
    /\ barrier' = [barrier EXCEPT ![p] = 1]
    /\ Return(t)
    /\ UNCHANGED <<table, addr, code, exec, active, gs, stack, jitting, counter>>

\* The start routine of the new thread.
Start(t, f) ==
  /\ At(t, "clone", "start")
  /\ Jump(t, f, "body")
  /\ UNCHANGED stack /\ Unchanged

-----------------------------------------------------------------------------
\* After the loader: everything was generated in half 0, the reserved entries
\* lead there, and start2 has jumped to the program's entry point.
Init ==
  LET slot(k) == [owner |-> Main, half |-> 0, slot |-> k, off |-> 0]
      place(i) == CHOOSE k \in 1..Len(Reserved) : Reserved[k] = i
      others == CHOOSE s \in [1..Cardinality(User) -> User] :
                  \A i, j \in DOMAIN s : s[i] = s[j] => i = j
  IN  \E start \in App :
        /\ table = [t \in Threads |-> [i \in Indices |->
                      IF t # Main THEN Zero
                      ELSE IF i \in ReservedSet THEN slot(place(i)) ELSE slot(1)]]
        /\ addr = [t \in Threads |-> [i \in Functions |-> Zero]]
        /\ code = [t \in Threads |-> [h \in {0, 1} |->
                     IF t = Main /\ h = 0 THEN Reserved \o others ELSE << >>]]
        /\ exec = [t \in Threads |-> [h \in {0, 1} |-> t = Main]]
        /\ active = [t \in Threads |-> IF t = Main THEN 1 ELSE 0]
        /\ gs = [t \in Threads |-> t]
        /\ cpu = [t \in Threads |->
                    IF t # Main THEN NotRunning(t)
                    ELSE [fn |-> "fixup", pc |-> "entry", at |-> slot(1),
                          index |-> start, subject |-> Main]]
        /\ stack = [t \in Threads |-> << >>]
        /\ jitting = [t \in Threads |-> 0]
        /\ counter = [t \in Threads |-> 0]
        /\ barrier = [t \in Threads |-> 0]

\* What the program decides to do.
Program(t) ==
  \/ \E f \in App : DirectCall(t, f)
  \/ \E c \in Threads : CallCreate(t, c)
  \/ \E f \in App : TailJump(t, f)
  \/ \E l \in Labels : JumpTableJump(t, l)
  \/ ReturnFrom(t)
  \/ AfterWritev(t)

\* What the runtime does on the thread's behalf.
Runtime(t) ==
  \/ FixupEntry(t) \/ FixupDone(t)
  \/ ReturnTo(t) \/ ReturnFixup(t) \/ ReturnRetry(t)
  \/ ResetEntry(t) \/ ResetDone(t)
  \/ Resolve(t) \/ FixupReopen(t) \/ FixupGenerate(t) \/ FixupFinalize(t)
  \/ FixupStore(t) \/ FixupLabel(t)
  \/ Count(t) \/ InitRecreate(t) \/ InitGenerate(t) \/ InitFinalize(t)
  \/ ResetEntries(t) \/ InitClear(t) \/ InitFlip(t) \/ InitEmpty(t) \/ InitSeal(t)
  \/ Create(t) \/ Spawn(t) \/ Clone(t) \/ CloneFails(t) \/ CloneReturns(t) \/ Spin(t) \/ Wait(t)
  \/ ChildHook(t) \/ SetGS(t) \/ RaiseBarrier(t)
  \/ \E f \in App : Start(t, f)

Next == \E t \in Threads : Program(t) \/ Runtime(t)

Spec == Init /\ [][Next]_vars

-----------------------------------------------------------------------------
\* The copy of f that begins at the address a is there and may be executed.
HoldsCode(a, f) ==
  /\ a.owner # Nobody
  /\ a.slot \in 1..Len(code[a.owner][a.half])
  /\ code[a.owner][a.half][a.slot] = f

\* No thread ever runs in a half that was cleared, reused for another
\* function or made writable under it, although the runtime empties, rewrites
\* and protects both halves while it executes from them (egalito_jit_gs_init,
\* egalito_jit_gs_fixup, MemoryBacking::reopen and recreate).
ExecutesRightCode ==
  \A t \in Threads : cpu[t].fn # "none" =>
    /\ HoldsCode(cpu[t].at, cpu[t].fn)
    /\ exec[cpu[t].at.owner][cpu[t].at.half]

\* From the first clearing to ResetEntries the table of x is out of date.
Resetting(x) ==
  \E t \in Threads : /\ cpu[t].subject = x /\ cpu[t].fn = "runtime"
                     /\ cpu[t].pc \in {"init", "reserved", "finalized", "entries"}

BeingFixed(t, i) ==
  /\ cpu[t].fn = "runtime" /\ cpu[t].index = i
  /\ cpu[t].pc \in {"label", "reopen", "generate", "finalize", "store"}

\* A thread that runs on its own table finds in every entry the fixup hook or
\* the function itself (ManageGS::resetEntries, setEntry), the entry that is
\* just being fixed up excepted; and outside the runtime the address table
\* holds only zeros: "during JIT-shuffling, function's address is 0"
\* (egalito_jit_gs_fixup).
TableLive ==
  \A t \in Threads :
    /\ cpu[t].fn # "none" /\ gs[t] = t =>
         \A i \in Indices :
           \/ i \in ReservedSet /\ HoldsCode(table[t][i], i)
           \/ i \notin ReservedSet /\ \/ Resetting(t) \/ BeingFixed(t, i)
                                      \/ table[t][i] = table[t]["fixup"]
                                      \/ /\ HoldsCode(table[t][i], FunctionOf(i))
                                         /\ table[t][i].off = 1 <=> i \in Labels
    /\ cpu[t].fn # "runtime" => \A i \in Functions : addr[t][i] = Zero

\* In the half that functions are generated into, every copy is the one that
\* the table leads to: nothing is generated twice between two resets, so a
\* half as large as the whole program never runs out (std::bad_alloc).
NoStaleCopy ==
  \A t \in Threads : cpu[t].fn # "none" /\ gs[t] = t /\ ~Resetting(t) =>
    LET h == active[t]
    IN  \A k \in 1..Len(code[t][h]) :
          LET a == table[t][code[t][h][k]]
          IN  \/ BeingFixed(t, code[t][h][k])
              \/ a.owner = t /\ a.half = h /\ a.slot = k
              \/ cpu[t].fn = "runtime" /\ cpu[t].pc \in {"clear", "flip", "empty"}

\* A thread executes from another thread's sandbox only between its creation
\* and setGS, and all that time the other one is held by the barrier in
\* egalito_pthread_create.
BorrowsOnlyFromWaiter ==
  \A t \in Threads : cpu[t].fn # "none" /\ cpu[t].at.owner # t =>
    LET p == cpu[t].at.owner
    IN  /\ cpu[p].subject = t
        /\ barrier[p] = 0
        /\ cpu[p].fn \in {"clone", "return", "create"}

\* p waits for a child that exists.
WaitsForChild(p) ==
  At(p, "create", "wait") /\ cpu[p].subject # p /\ cpu[cpu[p].subject].fn # "none"
=============================================================================
