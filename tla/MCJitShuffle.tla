---------------------------- MODULE MCJitShuffle ----------------------------
(***************************************************************************)
(* Two programs under JitShuffle.  In "create" one thread creates another; *)
(* both run one function with a jump table target, and every writev        *)
(* resets.  In "nest" one thread runs two functions that call each other   *)
(* four deep, and every second writev resets.                              *)
(***************************************************************************)
EXTENDS Naturals, FiniteSets

CONSTANTS main, child, f, g, l, Nobody

VARIABLES program, table, addr, code, exec, active, gs, cpu, stack, jitting,
          counter, barrier

jitVars == <<table, addr, code, exec, active, gs, cpu, stack, jitting, counter, barrier>>

MCLabelOf == [x \in {l} |-> f]

ASSUME DistinctNames ==
  Cardinality({main, child, f, g, l, Nobody}) = 6

Creating == INSTANCE JitShuffle WITH
  Threads <- {main, child}, Main <- main, App <- {f}, Labels <- {l},
  LabelOf <- MCLabelOf, Threshold <- 1, MaxDepth <- 2

Nesting == INSTANCE JitShuffle WITH
  Threads <- {main}, Main <- main, App <- {f, g}, Labels <- {l},
  LabelOf <- MCLabelOf, Threshold <- 2, MaxDepth <- 4

JitInit ==
  \/ program = "create" /\ Creating!Init
  \/ program = "nest" /\ Nesting!Init

CreatingRuntime(t) ==
  program = "create" /\ Creating!Runtime(t) /\ UNCHANGED program
NestingRuntime(t) ==
  program = "nest" /\ Nesting!Runtime(t) /\ UNCHANGED program

JitNext ==
  \/ \E t \in {main, child} :
       \/ CreatingRuntime(t)
       \/ program = "create" /\ Creating!Program(t) /\ UNCHANGED program
  \/ NestingRuntime(main)
  \/ program = "nest" /\ Nesting!Program(main) /\ UNCHANGED program

\* The kernel keeps scheduling every thread; the program may compute forever.
JitSpec ==
  /\ JitInit
  /\ [][JitNext]_<<program, jitVars>>
  /\ WF_<<program, jitVars>>(CreatingRuntime(main) \/ NestingRuntime(main))
  /\ WF_<<program, jitVars>>(CreatingRuntime(child))

-----------------------------------------------------------------------------
\* No thread ever runs in a half that was cleared, reused or made writable
\* under it.
ExecutesRightCode ==
  IF program = "create" THEN Creating!ExecutesRightCode ELSE Nesting!ExecutesRightCode

\* A thread that runs on its own table finds in every entry the fixup hook or
\* the function itself, and outside the runtime only zeros in the address table.
TableLive ==
  IF program = "create" THEN Creating!TableLive ELSE Nesting!TableLive

\* Nothing is generated twice between two resets.
NoStaleCopy ==
  IF program = "create" THEN Creating!NoStaleCopy ELSE Nesting!NoStaleCopy

\* A thread executes from another thread's sandbox only while that one is held
\* by the barrier in egalito_pthread_create.
BorrowsOnlyFromWaiter == program = "create" => Creating!BorrowsOnlyFromWaiter

\* Once the child exists, the barrier it raises lets its creator return from
\* egalito_pthread_create.
CreateReturns ==
  (program = "create" /\ Creating!WaitsForChild(main))
    ~> (program = "create" /\ ~Creating!At(main, "create", "wait"))

\* The runtime always gives control back to the program: no fixup is needed
\* while a fixup or a reset is under way, where the hook would spin for ever.
RuntimeEnds ==
  (program = "nest" /\ cpu[main].fn \in Nesting!ReservedSet) ~> Nesting!InUser(main)
=============================================================================
