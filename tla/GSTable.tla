------------------------------ MODULE GSTable ------------------------------
(***************************************************************************)
(* Building the table that JitShuffle runs on, from the first pass to the  *)
(* jump into the program.  JitGSSetup reserves entries for the functions   *)
(* that must never be generated on demand: the hooks, whose indices are    *)
(* written into hook code, the functions wanted by name, and everything    *)
(* that they refer to.  UseGSTablePass then rewrites the program's control *)
(* transfers and pointers to table offsets, and makes the other entries as *)
(* it meets their targets.  ManageGS::init fills the array that %gs points *)
(* to; CallInit and the loader make their entries after that.              *)
(***************************************************************************)
EXTENDS Integers, Sequences

CONSTANTS
  Functions, PLTs, Labels, \* Labels: the targets of jump tables
  NULL,
  Order,         \* the Functions and PLTs in the order of the program
  Programs,      \* what the Instructions of each Function and PLT may be
  JumpTables,    \* [Functions -> Seq(Labels)]
  Target,        \* [PLTs -> Functions \cup {NULL}]: getTarget()
  IFuncs,        \* the PLTs that CollapsePLTPass does not resolve
  Exempt,        \* Functions that makeResolvedEntryForFunction passes over
  Hooks,         \* the hard-wired Functions, gs@[0] first
  Wanted,        \* the Functions that are reserved by name
  Pointers,      \* targets of IFuncs, vtable entries and data variables
  Starts,        \* _init of the modules, egalito_runtime_init, entry point
  TableSize      \* JIT_TABLE_SIZE / sizeof(address_t)

Chunks == Functions \cup PLTs \cup Labels
Elements(s) == {s[n] : n \in 1..Len(s)}

\* An Instruction that refers to another chunk, or calls through a register
\* ("icall").  A "dcall" or "djump" goes through a variable, and its target is
\* what the variable points to; with a NormalLink, straight to code, the latter
\* is a "jump".  A "pointer" is any other Instruction with a link to code.
Kinds == {"call", "jump", "load", "dcall", "djump", "icall", "pointer"}
Instrs == [kind : Kinds, target : Functions \cup PLTs \cup {NULL}]

ASSUME GSTableAssumption ==
  /\ Functions \cap PLTs = {} /\ Functions \cap Labels = {} /\ PLTs \cap Labels = {}
  /\ NULL \notin Chunks
  /\ Order \in Seq(Functions \cup PLTs)
  /\ Functions \cup PLTs \subseteq Elements(Order)
  /\ Programs \subseteq [Functions \cup PLTs -> Seq(Instrs)]
  /\ JumpTables \in [Functions -> Seq(Labels)]
  /\ Target \in [PLTs -> Functions \cup {NULL}]
  /\ IFuncs \subseteq PLTs
  /\ Exempt \subseteq Functions
  /\ Hooks \in Seq(Functions \ Exempt) /\ Hooks # << >>
  /\ \A m, n \in 1..Len(Hooks) : Hooks[m] = Hooks[n] => m = n
  /\ Wanted \in Seq(Functions) /\ Starts \in Seq(Functions)
  /\ Pointers \in Seq(Functions)
  /\ TableSize \in Nat

\* The variables that Instructions go through are among the pointers.
ASSUME VariablesAssumption ==
  \A p \in Programs : \A x \in DOMAIN p : \A n \in 1..Len(p[x]) :
    p[x][n].kind \in {"dcall", "djump"} => p[x][n].target \in Elements(Pointers)

\* The hooks are assembly code without jump tables, the last one excepted.
ASSUME HooksAssumption ==
  \A n \in 1..(Len(Hooks) - 1) : JumpTables[Hooks[n]] = << >>

VARIABLES
  code,      \* the Instructions of each Function and PLTTrampoline
  phase,     \* the pass that runs
  rest,      \* the Functions that the pass still has to enter
  left,      \* the chunks that UseGSTablePass has not converted
  at,        \* the chunk that it is converting, or NULL
  entries,   \* the targets of the GSTable's children, in index order
  reserved,  \* GSTable::reserved
  todo,      \* the chunks that are next passed to makeEntryFor
  count, pos, k,  \* loop counters: entries in this round, entry, Instruction
  array,     \* what %gs points to: "target", "callback" or "zero"
  starts     \* the indices in egalito_init_array and egalito_entry

vars == <<code, phase, rest, left, at, entries, reserved, todo, count, pos, k, array, starts>>

\* GSTable::getEntryFor and makeEntryFor.
IndexOf(s, x) == CHOOSE n \in 1..Len(s) : s[n] = x
Entered(s, x) == IF x \in Elements(s) THEN s ELSE Append(s, x)

makeEntryFor ==
  /\ todo # << >>
  /\ entries' = Entered(entries, Head(todo))
  /\ todo' = Tail(todo)
  /\ UNCHANGED <<code, phase, rest, left, at, reserved, count, pos, k, array, starts>>

Init ==
  /\ code \in Programs
  /\ phase = "hooks" /\ rest = Hooks
  /\ left = Order /\ at = NULL
  /\ entries = << >> /\ reserved = 0 /\ todo = << >>
  /\ count = 0 /\ pos = 1 /\ k = 1
  /\ array = << >> /\ starts = << >>

-----------------------------------------------------------------------------
\* JitGSSetup

\* Mutant: the jump tables are entered before the Function.
ResolvedLast(f) == IF f \in Exempt THEN << >> ELSE JumpTables[f] \o <<f>>

\* makeResolvedEntryForFunction
Resolved(f) == IF f \in Exempt THEN << >> ELSE <<f>> \o JumpTables[f]

\* makeResolvedEntryForPLT: no test of Exempt and no jump tables.
ResolvedPLT(p) == IF Target[p] = NULL THEN << >> ELSE <<p, Target[p]>>

\* A name of makeHardwiredGSEntries, makeResolverGSEntries or
\* makeSupportGSEntries
makeResolvedEntry ==
  /\ phase \in {"hooks", "named"} /\ todo = << >> /\ rest # << >>
  /\ todo' = Resolved(Head(rest))
  /\ rest' = Tail(rest)
  /\ UNCHANGED <<code, phase, left, at, entries, reserved, count, pos, k, array, starts>>

\* There is no Function of the name in the module: an assertion fails.  The
\* hooks are part of libegalito.
NameNotFound ==
  /\ phase = "named" /\ todo = << >> /\ rest # << >>
  /\ phase' = "aborted"
  /\ UNCHANGED <<code, rest, left, at, entries, reserved, todo, count, pos, k, array, starts>>

EndHooks ==
  /\ phase = "hooks" /\ todo = << >> /\ rest = << >>
  /\ phase' = "named" /\ rest' = Wanted
  /\ UNCHANGED <<code, left, at, entries, reserved, todo, count, pos, k, array, starts>>

\* makeRequiredEntries: the first round of its loop.
StartRounds ==
  /\ phase = "named" /\ todo = << >> /\ rest = << >>
  /\ phase' = "required"
  /\ count' = Len(entries) /\ pos' = 1 /\ k' = 1
  /\ UNCHANGED <<code, rest, left, at, entries, reserved, todo, array, starts>>

\* The targets of jump tables are Instructions, which the loop passes over.
InstrsOf(x) == IF x \in Labels THEN << >> ELSE code[x]

\* makeRequiredEntriesFor: the next Instruction of the entry's target.
Required(x) ==
  IF x \in Functions THEN Resolved(x)
  ELSE IF x \in PLTs THEN ResolvedPLT(x) ELSE << >>

makeRequiredEntriesFor ==
  /\ phase = "required" /\ todo = << >> /\ pos <= count
  /\ IF k <= Len(InstrsOf(entries[pos]))
     THEN /\ todo' = Required(code[entries[pos]][k].target)
          /\ k' = k + 1 /\ UNCHANGED pos
     ELSE /\ pos' = pos + 1 /\ k' = 1 /\ UNCHANGED todo
  /\ UNCHANGED <<code, phase, rest, left, at, entries, reserved, count, array, starts>>

\* Mutant: one round is taken to be enough.
OneRound ==
  /\ phase = "required" /\ todo = << >> /\ pos > count
  /\ reserved' = Len(entries) /\ phase' = "rewrite" /\ rest' = Pointers
  /\ pos' = 1 /\ k' = 1
  /\ UNCHANGED <<code, left, at, entries, todo, count, array, starts>>

\* The end of a round: another one, or finishReservation.
EndRound ==
  /\ phase = "required" /\ todo = << >> /\ pos > count
  /\ IF count # Len(entries)
     THEN /\ count' = Len(entries)
          /\ UNCHANGED <<phase, rest, reserved>>
     ELSE /\ reserved' = Len(entries)
          /\ phase' = "rewrite" /\ rest' = Pointers
          /\ UNCHANGED count
  /\ pos' = 1 /\ k' = 1
  /\ UNCHANGED <<code, left, at, entries, todo, array, starts>>

-----------------------------------------------------------------------------
\* UseGSTablePass.  It meets the pointers of a module and the chunks of the
\* next in some order, which decides only about indices that are not reserved.

Rewriting == phase = "rewrite" /\ todo = << >>

\* Mutant: only a call to a Function enters the caller.
CalleeOnly(x, instr) ==
  IF instr.kind \in {"dcall", "icall", "djump"} \/ instr.target = NULL THEN << >>
  ELSE IF instr.kind = "call" THEN <<instr.target, x>> ELSE <<instr.target>>

\* The entries that the rewriting of an Instruction of x needs.  A call also
\* pushes the caller's offset, and so enters the caller.
EntriesFor(x, instr) ==
  IF instr.kind \in {"dcall", "icall"} THEN <<x>>
  ELSE IF instr.kind = "djump" \/ instr.target = NULL THEN << >>
  ELSE IF instr.kind = "call" THEN <<instr.target, x>> ELSE <<instr.target>>

\* All hooks but the last use the table as they are, and a trampoline is
\* converted only if CollapsePLTPass has not replaced it by its target.
Skipped(x) ==
  \/ x \in PLTs \ IFuncs
  \/ \E n \in 1..(Len(Hooks) - 1) : Hooks[n] = x

\* visit(Function) and visit(PLTTrampoline)
Visit ==
  /\ Rewriting /\ at = NULL /\ left # << >>
  /\ left' = Tail(left) /\ k' = 1
  /\ at' = IF Skipped(Head(left)) THEN NULL ELSE Head(left)
  /\ UNCHANGED <<code, phase, rest, entries, reserved, todo, count, pos, array, starts>>

\* convert, and after the last Instruction the Function's jump tables.
convert ==
  /\ Rewriting /\ at # NULL
  /\ k <= Len(code[at]) => code[at][k].kind # "pointer"
  /\ IF k <= Len(code[at])
     THEN /\ todo' = EntriesFor(at, code[at][k])
          /\ k' = k + 1 /\ UNCHANGED at
     ELSE /\ todo' = IF at \in Functions THEN JumpTables[at] ELSE << >>
          /\ at' = NULL /\ UNCHANGED k
  /\ UNCHANGED <<code, phase, rest, left, entries, reserved, count, pos, array, starts>>

\* convert knows no rewriting for it: an assertion fails.
RefusePointer ==
  /\ Rewriting /\ at # NULL
  /\ k <= Len(code[at]) /\ code[at][k].kind = "pointer"
  /\ phase' = "aborted"
  /\ UNCHANGED <<code, rest, left, at, entries, reserved, todo, count, pos, k, array, starts>>

\* redirectEgalitoFunctionPointers, redirectFunctionPointerLinks,
\* visit(VTableEntry) and overwriteBootArguments
RedirectPointer ==
  /\ Rewriting /\ at = NULL /\ rest # << >>
  /\ todo' = <<Head(rest)>>
  /\ rest' = Tail(rest)
  /\ UNCHANGED <<code, phase, left, at, entries, reserved, count, pos, k, array, starts>>

-----------------------------------------------------------------------------
\* ManageGS::init: resetEntries fills the slots of the entries made so far.
InitGS ==
  /\ Rewriting /\ at = NULL /\ left = << >> /\ rest = << >>
  /\ IF Len(entries) < TableSize
     THEN /\ array' = [n \in 1..TableSize |->
                         IF n <= reserved THEN "target"
                         ELSE IF n <= Len(entries) THEN "callback" ELSE "zero"]
          /\ phase' = "start" /\ rest' = Starts
     ELSE /\ phase' = "aborted"
          /\ UNCHANGED <<array, rest>>
  /\ UNCHANGED <<code, left, at, entries, reserved, todo, count, pos, k, starts>>

\* CallInit::makeInitArray and EgalitoLoader::run
MakeStart ==
  /\ phase = "start" /\ rest # << >>
  /\ entries' = Entered(entries, Head(rest))
  /\ starts' = Append(starts, IndexOf(entries', Head(rest)))
  /\ rest' = Tail(rest)
  /\ UNCHANGED <<code, phase, left, at, reserved, todo, count, pos, k, array>>

Setup ==
  \/ makeResolvedEntry \/ NameNotFound \/ EndHooks
  \/ StartRounds \/ makeRequiredEntriesFor \/ EndRound
UseGS == Visit \/ convert \/ RefusePointer \/ RedirectPointer
Boot == InitGS \/ MakeStart
Next == makeEntryFor \/ Setup \/ UseGS \/ Boot
Spec == Init /\ [][Next]_vars

\* One thread runs the loader.
FairSpec == Spec /\ WF_vars(Next)

-----------------------------------------------------------------------------
\* The phase, the entries and the loop counters have their types.
TypeOK ==
  /\ code \in Programs
  /\ phase \in {"hooks", "named", "required", "rewrite", "start", "aborted"}
  /\ rest \in Seq(Functions)
  /\ left \in Seq(Functions \cup PLTs) /\ at \in Functions \cup PLTs \cup {NULL}
  /\ entries \in Seq(Chunks) /\ todo \in Seq(Chunks)
  /\ reserved \in 0..Len(entries)
  /\ count \in 0..Len(entries) /\ pos \in 1..(count + 1) /\ k \in Nat \ {0}
  /\ starts \in Seq(1..Len(entries))

\* The hooks are written with their indices as constants: jmpq *%gs:0x0 is
\* the fixup hook, *%gs:0x8 the return hook, and so on.  Once reservation has
\* ended every hook has that index, and no chunk has a second entry.
HooksInPlace ==
  /\ phase # "hooks" =>
       /\ Len(Hooks) <= Len(entries)
       /\ \A n \in 1..Len(Hooks) : entries[n] = Hooks[n]
  /\ \A m, n \in 1..Len(entries) : entries[m] = entries[n] => m = n

\* The reserved chunks
Runtime == {entries[n] : n \in 1..reserved}

\* A reserved Function runs while its own thread's table is being reset, when
\* nothing may be generated on demand.  Once reservation has ended, all that
\* the Instructions of reserved chunks refer to is therefore reserved, with the
\* targets of its jump tables and a trampoline's target; the Functions that
\* only report errors excepted.
RuntimeSelfContained ==
  phase \notin {"hooks", "named", "required"} =>
    \A x \in Runtime \ Labels : \A n \in 1..Len(code[x]) :
      LET t == code[x][n].target IN
        /\ t \in Functions \ Exempt =>
             t \in Runtime /\ Elements(JumpTables[t]) \subseteq Runtime
        /\ t \in PLTs /\ Target[t] # NULL => {t, Target[t]} \subseteq Runtime

\* Rewriting the Instruction enters the Function it is in.
EntersCaller(instr) ==
  instr.kind \in {"dcall", "icall"} \/ (instr.kind = "call" /\ instr.target # NULL)

\* CallInit and the loader make entries for the constructors after the array
\* was filled, and the constructors are called through the array before it is
\* filled again.  The n-th index in egalito_init_array is that of the n-th
\* constructor, and the array does not hold zero there, provided that the
\* constructor makes a call: only then has UseGSTablePass entered it.
StartsLead ==
  phase = "start" =>
    \A n \in 1..Len(starts) :
      /\ entries[starts[n]] = Starts[n]
      /\ (\E m \in 1..Len(code[Starts[n]]) : EntersCaller(code[Starts[n]][m]))
           /\ ~Skipped(Starts[n]) => array[starts[n]] # "zero"

\* The rounds of makeRequiredEntries end, whatever refers to what, and the
\* loader reaches the program or the assertion of ManageGS::init.
SetupEnds == <>(phase = "aborted" \/ (phase = "start" /\ rest = << >>))
=============================================================================
