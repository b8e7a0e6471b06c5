# Egalito in TLA+

Egalito is a binary recompiler. It parses an ELF program and its libraries into
a tree of *Chunks* (Program, Module, Function, Block, Instruction, and the data
and symbol lists beside them), lets *passes* edit that tree, and then generates
code from it: into memory, where the program is run at once, into a new ELF
file, or, in JIT-shuffling mode, function by function while the program runs.

This directory holds TLA+ models of the parts of Egalito whose correctness
depends on the order of many steps: the finding of functions in stripped code,
the editing of the Chunk tree, passes that repeat until nothing changes, the
saving and reading of archives, the assignment of addresses and generation of
code, the writing of ELF files, the loader, and the JIT-shuffling runtime with the table it runs on. TLC
checks them on small instances, and TLAPS proves some of the results for
instances of any size. Paths below are relative to the repository's `src/`
unless they begin with `app/` or `test/`.

Contents: 1 inventory of the system; 2 the modules; 3 the runs; 4 the
disagreements found; 5 the proofs; 6 what is not modelled.

## 1. Inventory

For every part: what state it keeps, what changes it, what makes it right.
PROJECT.json lists the same parts with their files, and the hazards by line.

**Chunk tree and ChunkMutator** (`chunk/`, `operation/mutator.*`). A Chunk has a
parent, a previous and a next sibling, an ordered child list, a size and a
Position. Passes change it only through a ChunkMutator, an object that lives for
some calls: append, prepend, insertAfter, insertBefore, insertBeforeJumpTo,
remove, removeLast, splitBlockBefore, modifiedChildSize, setPosition. Links and
sizes change in each call, addresses when the destructor runs. It is right when
the four descriptions of the order (list, prev, next, addresses) always agree,
sizes are sums, and each call does to the code what its caller asked. Hard: the
pointer surgery is repeated in every method with small differences;
insertBeforeJumpTo inserts *behind* the point and exchanges the semantics.

**Positions** (`chunk/position.*`). Six kinds of Position, chosen by a mode of
PositionFactory (the compiled default is MODE_OFFSET), which find an address
from the parent, from the previous sibling, or from a cache. Right when the
address is that of the code. Hard: caches and generation counters.

**Chunk lists** (`chunk/chunklist.h`). Beside the ordered list, an index by
address and one by name. Right when all three hold the same children.

**Archive** (`archive/`, `chunk/serializer.*`, the `serialize` methods). Saves a
tree as numbered FlatChunks and reads it back. State: the IDs assigned so far,
the list of FlatChunks, the stack of `serialize` calls. Right when every ID in a
file is that of the chunk that was meant, what is read is what was written, with
the right classes, and objects are filled in an order in which none undoes
another. Hard: a chunk gets its ID from whatever mentions it first.

**Generator and Sandbox** (`transform/`). Two walks over the program, one that
gives every Function and PLTTrampoline a slot, one that copies code into the
slots. State: the allocator's watermark, the assigned positions, the memory or
buffer. Right when slots are disjoint, inside the sandbox and large enough, and
the code is where its slot says. Hard: the order is picked twice, by addresses
that changed in between, and a buffer is only ever appended to.

**JIT-shuffling runtime** (`pass/jitgsfixup.cpp`, `runtime/managegs.cpp`,
`snippet/hook-x86_64.S`, `snippet/pthread.cpp`, `load/emulator.cpp`). Per thread
a table that all control transfers go through, a table of addresses, and a
sandbox of two halves. Operations: fixup of an entry, fixup on return, reset,
thread creation. Right when no thread ever executes code that is gone, is not
executable or is another function's, and when every fixup and reset ends. Hard:
the runtime moves itself while it runs, and for some instructions a new thread
runs on its parent's table.

**GS table construction** (`pass/usegstable.cpp`, `pass/jitgssetup.cpp`,
`chunk/gstable.*`). Which functions have entries in the table, at which index,
and which of them are reserved. Right when the hooks have the indices that
assembly code names, and the reserved entries are closed: the runtime never
needs a fixup itself. Hard: the closure is computed over a list that grows
meanwhile, and entries are made in four passes and in the loader.

**Conductor and loader** (`conductor/`, `load/`). Parse modules, run passes in a
fixed order, lay out thread-local storage, load data, order the init functions,
start the program. Right when every library is loaded once, the TLS of every
thread is laid out as the code expects, and init functions run after those of
the libraries they use. Hard: libraries that need each other, and the same
layout computed in two places.

**Functions of stripped code** (`disasm/disassemble.cpp`, `util/intervaltree.*`).
Without symbols the code section is cut where calls lead, padding is dropped,
and the functions known from FDEs and dynamic symbols are cut out. State: four
interval trees. Right when functions do not overlap and no code is lost. Hard:
five passes over the same ranges, each of which assumes what the last one left.

**ELF generation** (`generate/`). Two pipelines: MirrorGen writes one module as
the kind of file it was, UnionGen an executable with its libraries as one file.
State: the list of sections, program headers, two symbol tables, relocations,
the PLT and the arrays of constructors. Right when the kernel and the dynamic
linker, which only see the file, map every section, find every symbol, relocate
every variable and run every constructor. Hard: indices, offsets and addresses
are given out while other sections that hold them are already filled, and some
are counted twice in different places.

**Analyses** (`analysis/`, `pass/nonreturn.cpp`). Control flow graphs, walks,
dominators, data flow, jump tables. Right against their textbook definitions.

**Passes** (`pass/`). Link resolution and instrumentation. What they do to code
is what ChunkMutator lets them do; each then has its own promise. PromoteJumps
repeats until every jump reaches; ReorderPush permutes a Block at random.

**ELF and DWARF parsing, disassembler, instructions** (`elf/`, `dwarf/`,
`disasm/`, `instr/`). Decoders of external formats.

**Utilities, logging, shells** (`util/`, `log/`, `cminus/`, `app/`).

How they interact: parsing and disassembly build the tree; passes edit it
through mutators and read addresses from Positions; the generator reads sizes
and assigns Positions; the archive saves the tree instead; in JIT-shuffling mode
the runtime calls the generator for one function at a time, on the tree that
was loaded, with an address table in the place of the Positions.

## 2. The modules

| module | models | from |
|---|---|---|
| `ChunkTree` | links, child lists, the pointer updates of each method | `operation/mutator.cpp`, `chunk/chunklist.h` |
| `ChunkPosition` | Positions, PositionFactory, updatePositions | `chunk/position.cpp`, `operation/mutator.cpp` |
| `ChunkMutator` | the calls that passes make on mutators | `operation/mutator.cpp` |
| `ChunkTreeProofs`, `ChunkMutatorProofs` | proofs | |
| `Archive` | ChunkSerializer, the serialize methods, reader and writer | `chunk/serializer.cpp`, `archive/*.cpp` and the chunk classes |
| `Generator` | moveCode: assignAddresses and generateCode | `transform/generator.cpp`, `transform/sandbox.h`, `conductor/setup.cpp` |
| `GeneratorProofs` | proofs | |
| `SymbolTable` | SymbolTableContent: sorted symbols and their indices | `generate/concretedeferred.*`, `generate/deferred.h` |
| `ElfOutput` | the pipelines of MirrorGen and UnionGen, to the written file | `generate/concrete.cpp`, `generate/modulegen.cpp`, `generate/concretedeferred.*`, `generate/section*`, ... |
| `CodeEditor` | what the mutator promises: edits of a sequence of code (abstract) | |
| `GSTable`, `GSTableProofs` | the construction of the table by all passes and the loader | `pass/jitgssetup.cpp`, `pass/usegstable.cpp`, `chunk/gstable.*`, `runtime/managegs.cpp`, `load/callinit.cpp` |
| `Loading` | libraries, TLS, constructors | `conductor/conductor.cpp`, `elf/elfdynamic.cpp`, `chunk/library.cpp`, `transform/data.cpp`, `load/callinit.cpp` |
| `JitShuffle` | the runtime, its hooks, and the program as rewritten | `pass/jitgsfixup.cpp`, `snippet/hook-x86_64.S`, `runtime/managegs.cpp`, ... |
| `IntervalTree` | the tree's methods as functions of nodes | `util/intervaltree.*`, `util/range.h` |
| `IntervalSet` | any sequence of calls on one tree, beside the bag it stands for | the same |
| `FunctionRanges` | linearDisassembly | `disasm/disassemble.cpp` |
| `Reorder`, `ReorderProofs` | the dependencies of a Block and ReorderPush | `analysis/reachingdef.cpp`, `pass/reorderpush.cpp` |
| `JumpEncoding` | sizes and displacements of linked jumps | `instr/linked-x86_64.cpp` |
| `PromoteJumps`, `PromoteJumpsProofs` | PromoteJumpsPass | `pass/promotejumps.cpp` |
| `FlowGraph` | control flow graphs, walks, dominance (pure operators) | `analysis/controlflow.cpp`, `analysis/walker.*`, `analysis/dominance.cpp` |
| `NonReturn` | NonReturnFunction | `pass/nonreturn.cpp` |
| `Vectors` | helpers on sequences | |
| `MCChunkMutator`, `MCMutatorModes`, `MCArchive`, `MCOutput`, `MCJitShuffle`, `MCBoot`, `MCDisassembly`, `MCPasses` | the instances for TLC | |

`ChunkMutator` EXTENDS `ChunkPosition`, which EXTENDS `ChunkTree`: the first
composes links, positions and sizes as the class does. The map in PROJECT.json
names the lines of every definition. A definition whose comment begins with
"Mutant" is a plausible mistake in the definition after it; PROJECT.json pairs
each with the property that notices it.

**ChunkMutator.** The state is one Function: its tree (`tree`), sizes and
Positions, the semantic of every Instruction (`sem`) and the Instruction each
semantic points back to (`owner`). `mut` is the chunk that the live mutator works
on, NULL between mutators. A call is one action; the three insertions of a vector are
loops, whose iterations are steps of their own (`todo` is the rest of the
vector), so that invariants are also checked in the middle. `goal` is a history
variable: it records, from the state in which a call was made, what code the
call was asked to leave and where jumps must land. Code is the sequence of
semantics; bytes are not modelled.

Three constants delimit what callers do. `FirstGoes`: is the first of several
children ever removed? `NullPoints`: which insertions are called with a null
point where that matters? `Assigning`: does the generator assign addresses
during the behaviour? See section 3 for their values and why.

**Archive.** The `serialize` method of each class is a script: a sequence of
mentions of chunks and of recursive saves in the code's order. Steps execute the
innermost script, give out IDs and make FlatChunks as ArchiveIDOperations and
ChunkSerializerOperations do. A FlatChunk's data is the sequence of IDs in it:
strings, addresses and flags are left out. Then the list is checked, written
(possibly cut short), read, instantiated through the type tables, and
deserialized from the last ID to the first. Bytes that follow the type table in
memory are unknown (`Beyond`).

**Generator.** One action per chunk and walk. Inputs (sizes, old addresses, the
caller's order, the kind of backing) are variables fixed in `Init`. Bytes are
pairs of a chunk and an offset, so that a property can say whose byte lies
where. std::sort may put Functions with equal addresses in any order.

**ElfOutput, SymbolTable.** One action per operation of the pipelines
(`MirrorPipeline`, `UnionPipeline`), with a step per module and per data region
in ModuleGen and a step per section when offsets are given out and when the
file is written. A section has the contents that it owns; what is deferred in
the code (sizes, offsets, indices) is computed from the state at the moment in
which the section is written. `file` is the result: for every section the
values that were written, from which properties are read as the kernel and the
dynamic linker would, not from the model's own lists. The unit is a word of
four bytes, a name is a number and takes one unit of a string table, structures
have small sizes. A link of a variable that the code does not handle (to a
marker) gets no relocation, as in the code.

**JitShuffle.** `cpu[t]` is the function and place that thread t executes *and
the address of the copy it executes from*. A jump reads the table at that
moment; a return pops an index and goes through the table again. The runtime's
functions are one reserved function, "runtime", whose steps are the statements
of egalito_jit_gs_fixup and egalito_jit_gs_init that change what other steps
see; each is a call and a return through the table. The program's functions may
do anything the rewritten code can: call, tail call, jump through a jump table,
return, make the system call that counts towards a reset, create a thread.
Sizes and bytes are abstracted: a half holds a sequence of function copies.
The reserved entries are functions: the branch of resetEntries that looks up the
address of a reserved target that has none of its own (a label of one of the
runtime's jump tables, `runtime/managegs.cpp:118`) does not arise. glibc's
pthread_create, down to the system call, is the one step Spawn: what it calls
goes through the table like all other code of the program.

**CodeEditor.** The abstract specification of a mutator: a Function is a sequence
of semantics, jumps name labels. A step inserts code in one place with all jumps
landing where they did, inserts in front of the target of a jump, which then
lands on the new code, or erases. `MCChunkMutator` maps ChunkMutator's state to
it (the code is the flattened tree, a label's landing place its semantic) and
*EditsCode* says that every step, the iterations of loops included, is one of
these or leaves code and landings alone.

**GSTable.** One action per entry that is made: the hooks and the functions wanted
by name (JitGSSetup), the rounds over what reserved entries refer to, the
entries that UseGSTablePass makes as it rewrites instructions and pointers, the
array that ManageGS::init fills, and the entries that CallInit and the loader
make afterwards. An Instruction is its kind and target. The assertions that a
wanted name exists and that no instruction loads a function pointer through a
link are steps that end the loader. JitShuffle starts from what this leaves: its
reserved functions never need a fixup.

**Loading.** The worklist of Conductor::parseLibraries over LibraryList, which grows
while it is walked, and whose files may not be found (`Missing`);
allocateTLSArea, with the executable's region last, as the
ABI wants; the sweeps of makeInitArray; and loadTLSDataFor for a new thread.

**IntervalTree, IntervalSet, FunctionRanges.** A tree is a record of its middle,
the ranges that overlap it and two subtrees; the methods are recursive operators
on it, written from the code. `IntervalSet` calls them in any order. The five
phases of linearDisassembly are actions of `FunctionRanges`, with one step per
range where the loop changes the tree it goes over.

**Reorder.** Instructions are records of a mnemonic with the mode of its operands
and the registers, the index register of a memory operand included. `Reads` and `Writes` are what the handlers of reachingdef.cpp
record; `TrueReads` and `TrueWrites`, against which properties are stated, are
what the processor does. The random choice of ReorderPush is nondeterministic.

**PromoteJumps, JumpEncoding.** Code is a sequence of sizes, jumps with targets;
a jump through the GSTable has the offset of its entry for a displacement.
`Word` is the range of a four-byte displacement, small in the instance.

**FlowGraph, NonReturn.** The walks and the Cooper-Harvey-Kennedy dominance loop are
operators translated statement by statement; `NonReturn` calls them for every
Function in rounds. A link to a Block stays in its Function, which
`analysis/controlflow.cpp:108` asserts.

## 3. The runs

| run | states | checks |
|---|---|---|
| `mutator_offset` | 122,078 | links, code and landings in the compiled mode |
| `mutator_modes` | 26,514 | sizes and addresses in four position modes |
| `archive_program` | 7,338 | saving and reading programs |
| `output` | 114,513 | assigning addresses and generating code; writing ELF files |
| `jit` | 141,486 | the runtime: two threads; one thread with deep stacks |
| `boot` | 18,967 | the construction of the GS table; the loader |
| `passes` | 124,497 | ReorderPush, PromoteJumps, NonReturn and its analyses |
| `disassembly` | 127,342 | functions of stripped code; the interval tree |

(Distinct states.) The four runs that expect a violation are in section 4.
`mutator_modes`, `output`, `jit`, `boot`, `passes` and `disassembly` put models
or instances that share no state in one run: a variable chosen in Init says
which of them a behaviour is about. Type invariants (`TypeOK`) are proved
where there are proofs, and not among the runs' properties.

**mutator_offset.** A Function of one Block with two Instructions, two more
Blocks and two more Instructions, vectors of up to two, three calls on any
number of mutators, two addresses. Three calls suffice to insert in front of
what a split has made and to remove between; four chunks of a kind give first,
middle and last. All three constants of callers are at their widest except
`NullPoints`. *LinkIntegrity* and *OwnerIntegrity* hold at all times,
*StreamAsAsked* and *JumpsLand* after every call; *EditsCode* is the refinement. CHECK_DEADLOCK is
off because behaviours end after `MaxCalls`.

**mutator_modes.** Two Blocks; the compiled mode and three others.
*AddressIntegrity* says that sizes are sums at all times and that addresses
follow from them whenever no mutator is alive. The modes that are not compiled
in have restrictions, and the constants state them: with `FirstGoes = TRUE`
*AddressIntegrity* fails (remove does not give the new first child an
OffsetPosition, `operation/mutator.cpp:213`, against the comment at line 145),
and in the cached modes it fails with `Assigning = TRUE` (assignAddress does not
refresh the caches below, `transform/generator.cpp:35`). Both can be seen by
changing the constant.

**archive_program.** A program of two modules with a chunk of most classes;
thirty variants in which the links of one Instruction and one DataVariable lead
backwards, forwards, to an Instruction, to another module or to a Function that
is no longer in its list, with and without init functions. The links are what
decides the order of the IDs. *ChildrenByID* and *FunctionAfterItsCode* hold for
every order of IDs that links can cause, for what was written and for what was
read. The comment at `chunk/serializer.cpp:255`, that leaves come before their
parents, does not hold of all chunks (a link can give a leaf a smaller ID than
its parent); it does of Functions, which is where it matters.

**output.** For the generator: two modules, three Functions, two PLTTrampolines; sizes from zero
and PLT contents that may be shorter than the PLTTrampoline's size; old
addresses that may coincide; a sandbox that may be too small; alignment 2; no
order, an order over both modules and one that leaves a Function out.
*CodeInPlace* is the one to argue about: the second pick agrees with the first
because the first made addresses ascending, empty Functions share an address but
have no bytes, and with a caller's order both walks repeat the same sequence for
each module.

For the files: one module that is mirrored, with every choice of links of its
variables (to code, to its own and to other symbols, TLS offsets, jump tables,
the loader), trampolines with and without a symbol or a resolved target,
exported functions and variables, and with and without TLS; or an executable, a
library and libc in one file. *SectionsMapped* and *HeadersAgree* follow the
addresses and offsets that were written through the program headers.
*CallsReachTheirSymbol*, *DataRelocated* and *ExportsFound* go from a call, a
variable or a name through the PLT, the relocations and .gnu.hash to the symbol
that is found. *InitFunctionsRun* states which functions the relocated arrays
hold, from the lists of the modules. *SymbolsInTheirSection* compares symbols
with the section headers. That segments do not overlap rests on bases that are
far enough apart, as the literal ones in the code are for files of usual size.

**jit.** Either two threads, one program function with a jump table target, a
reset at every counted system call and calls to depth 2: enough for the second
thread to be created in any epoch of the first one's sandbox, for both to fix up
and reset at the same time, and for labels to be fixed up before and after their
function. Or one thread, two functions, depth 4, a reset at every second system
call: return addresses of several epochs on one stack, and *RuntimeEnds* shows
that each of them is found again in the end. Deadlock is checked: a program can
always make a step.

**boot.** For the table: two hooks, the second with a jump table, functions that
are wanted by name, exempt, reached directly, through trampolines, variables and
jump tables, and fifty programs that differ in what three of them refer to; a
table that may be full. *RuntimeSelfContained* is the closure that JitShuffle
takes for granted; it does not cover the jump tables of a function that is only
reached through a PLT entry, which the code does not enter either. *StartsLead*
is about constructors, whose indices are made after the array was filled and
used before it is filled again: the array leads somewhere because
UseGSTablePass has entered every function that makes a call; it says nothing of
a constructor that makes none, whose slot is zero. For the
loader: an executable, libegalito, libpthread, libc, libm, libz, whose file is
not found, and ld.so, which is never loaded, with sixty dependency graphs,
cyclic ones included, and TLS in none, some or all. *LoadsWhatIsNeeded* also
says that loading fails only for want of a file that is needed.
*DependenciesFirst* exempts libpthread, which the code puts first on purpose,
and says that the assertion at the end of makeInitArray fails exactly if there
is a cycle.

**passes.** Blocks of up to five instructions with each kind of operand handled, a
call or a jump among them, and every order that may be picked: *SameDataFlow*
says that every read sees the write it saw before, and the last write to every
place is the same; *BlockSizeKept* that the Block's size comes out right although
each difference is taken the wrong way round. Functions of three jumps at distances around the reach of a
short jump, so that one promotion causes another, forwards and backwards:
*PromotesJustEnough* says that every jump reaches and, against all sufficient
sets of promotions, that none was promoted without need.
All flow graphs of four blocks from a set of block ends, an irreducible loop,
and three Functions that end in each other: *GraphsAnalysed* compares dominators
and the order of components with the definitions by paths;
*NeverReturnsIsTrueInside* compares marks with what the program can do, for
programs without conditional jumps out of a Function (section 4).

**disassembly.** Every section of five instructions that are operations, nops,
returns or undecodable, with a call to any of them, known functions none, one,
two and one named twice, and two entry points. *CodeIsKept* is stated above the
first padding (section 4 says why). The tree: ranges within six bytes, up to
three held, every call; *TreeIsABag* states the nearest-bound and order results
for disjoint ranges only, which is how the trees are used: for overlapping
ranges the searches do not promise them.

*Fairness.* The runtime: weak fairness of `Runtime(t)` for every thread, since the
kernel goes on scheduling every thread and the runtime's code is straight-line.
There is none for the program's own steps, which may compute for ever.
*CreateReturns* is stated for a child that exists: when pthread_create fails,
the loop at `snippet/pthread.cpp:42` never ends (the model has that step), and
nothing in the repository promises otherwise. Loader and passes: weak fairness
of the steps of the one thread that runs them; *LoaderEnds* and *PassesEnd* then
say that the growing worklist, the rounds, the sweeps and the repetitions stop.
Whether threads are created after loading is left to the program.

## 4. Disagreements

Each of these runs expects a violation of one property that a comment or the
code itself states; PROJECT.json quotes it.

- `archive_types`: three types are missing from the tables that encode and
  instantiate types, so a Function is read back as an Instruction.
- `nonreturn_branch`: a conditional jump to exit() counts as a call that never
  returns, and the Function around it is marked.
- `tls_new_thread`: a new thread's TLS images are copied in module order, with the
  executable's first, although the layout has it last.
- `functions_dropped`: a piece of a stripped section that has no padding at or
  below its end is in no function.

Others were met while modelling. The models have the steps, and constants or the
statement of a property exclude them:

- insertAfter(NULL, x) on a Block that is not empty leaves the sibling pointers
  of x and of the old first child unrepaired (`operation/mutator.cpp:85`, against
  `operation/mutator.h:37`); add `"after"` to `NullPoints` and *LinkIntegrity*
  fails. A null point with beforeJumpTo reverses the vector
  (`NullPoints = {"jumpTo"}`, *StreamAsAsked*).
- An archive of a single Module refers to an ID that is not in it, and the check
  for such IDs cannot see it (`chunk/serializer.cpp:218`).
- Saving an InitFunction calls through its null child list
  (`chunk/initfunction.cpp:28`).
- An unreadable archive yields a null pointer that is used
  (`chunk/serializer.cpp:244`) before the caller's message
  (`conductor/conductor.cpp:155`) could be reached.
- Stripped code: a function known from both its FDE and its symbol is added
  twice; a piece of nops only makes linearDisassembly fail; nops in front of
  undecodable bytes are recorded at the end of the section
  (`disasm/disassemble.cpp:575`); the loop over .init_array steps by one byte
  (line 693); the guess for crtbegin functions may cut a known function behind
  the entry point.
- `pop %rsp` trips an assertion in reachingdef.cpp, against the comment at line
  188; `pop` to memory is not recorded as a write
  to memory (*SameDataFlow* excepts Blocks with one).
- JRCXZ out of reach is given an empty opcode, while the log message at
  `pass/promotejumps.cpp:90` says it stays short; *PromotesJustEnough* leaves it
  out.
- A variable linked to a marker gets no relocation (`generate/modulegen.cpp:305`
  only logs it); *DataRelocated* leaves such variables out.
- When several modules have a special init function, each overwrites the one
  before (`generate/concrete.cpp:678`), and only the last is run;
  *InitFunctionsRun* claims one of them.
- `movabs` between memory and a register trips the assertion of fillMovabs
  (`analysis/reachingdef.cpp:389`).
- A constructor that makes no call has no entry when ManageGS::init fills the
  array, and is called through a slot of zero (`load/callinit.cpp:109`).
- getArg0Value follows register 5, which a call does not use, so that calls of
  error() with a constant are never marked (`pass/nonreturn.cpp`).

## 5. Proofs

`tlapm` checks every proof. The assumptions on constants, which TLC evaluates in
the runs of their modules: *DistinctChunks* (chunks of different kinds differ,
NULL is none), *ModeAssumption*, *CodeAssumption* (the initial code has no
duplicates), *GeneratorAssumption* (types of the inputs, alignment positive),
*GSTableAssumption* (types; the hooks are distinct and not exempt),
*VariablesAssumption* (variables that are called through are among the pointers
that UseGSTablePass rewrites), *HooksAssumption* (only the last hook has jump
tables), *ReorderAssumption* and *PromoteJumpsAssumption* (types), and
*FlowAssumption* (no jump or call has a handler).

**ChunkMutatorProofs**: `TypeCorrect`, `LinksAgree` (*LinkIntegrity*),
`SemanticsOwned` (*OwnerIntegrity*), `JumpsLandRight` (*JumpsLand*), for any sets
of Blocks and Instructions, vectors of any length, any number of calls and every
position mode. The theorems assume `"after" \notin NullPoints`, since LinkIntegrity
fails otherwise (section 4). LinkIntegrity is not
inductive: a loop over a vector inserts Instructions that must still be unlinked
when their turn comes, and relies on its insertPoint staying a child. The
inductive invariant is

    MutatorInv == TypeOK /\ GoodTree(tree) /\ LoopInv /\ OwnerInv /\ LandInv

GoodTree adds to the links that a chunk that was never inserted has no
siblings; LoopInv says that the rest of the vector is fresh and free of
duplicates, and where insertPoint is; OwnerInv extends OwnerIntegrity to
Instructions outside the tree; LandInv says where the semantic that jumps must
land on is held halfway through insertBeforeJumpTo. `ChunkTreeProofs` proves
that each pointer update keeps GoodTree (AppendGood, InsertAfterGood,
InsertBeforeGood, RemoveGood, RemoveLastGood, SplitGood), from two lemmas on
chains (ChainInsert, ChainErase); `ChunkMutatorProofs` shows that what a method
does to the tree is that update (AppendTree ... SplitTree: positions and sizes do
not touch links), then has one lemma per action.

**GeneratorProofs**: `TypeCorrect` and `SlotsNeverOverlap` (*SlotsDisjoint*) for
every program, order, capacity and alignment. The strengthening BelowWatermark
says that every slot given lies between Base and the watermark and holds its
chunk; a new slot starts at the watermark, hence is disjoint from all others,
including the earlier slot of a Function that an order names in every module.
RoundedUp is the arithmetic of the alignment.

**GSTableProofs**: `TypeCorrect`, `HooksHaveTheirIndices` (*HooksInPlace*),
`ReservationIsClosed` (*RuntimeSelfContained*) and `ConstructorsAreReached`
(*StartsLead*), for any program, hooks and table
size. The inductive invariant SetupInv adds that no chunk has two entries, that
the hooks entered so far are at the front in order with nothing between
(HooksSoFar: the entries so far and those that are due number the hooks taken),
that they stay there (HooksDone), and that everything before the position of a
round has what it refers to entered or due (RoundSoFar). The closure then
follows when a round ends that has added nothing. For *StartsLead* the invariant
goes on (StartInv): every function that was visited and makes a call is entered
or due (CallersEntered); once the array is filled each of them has a slot that
is not zero (CallersFilled), since entries are only ever appended; and the
indices handed out so far are those of the constructors taken from the list
(StartsSoFar).

**ReorderProofs**: `ReorderingKeepsDataFlow` (*SameDataFlow*),
`ReorderingKeepsBackPointers` (*BackPointersRight*), `PickingNeverStuck` (the
assertion of visitInstructionGroups) and `ReorderTypeCorrect`, for Blocks of any length. The lemma
HandlersComplete says that a handler records all that its instruction reads and
writes, pops to memory excepted. During the analysis LastWriters and ReadersSince give the meaning of the
two maps, and Guarded says that of two instructions in conflict the later one
must follow the earlier one, directly or through a chain that the closure
completes; the picks are then numbered without gaps and in an order that keeps
conflicting pairs (Numbered, InOrder), from which the data flow follows.

**PromoteJumpsProofs**: `EveryJumpReaches` (the first half of
*PromotesJustEnough*), for any code and word size: within a round that has changed nothing so far, every jump passed is
settled, and a round that ends unchanged has passed all of them.

Only model-checked: AddressIntegrity, StreamAsAsked, EditsCode, CodeInPlace and
BlockSizeKept (sums and concatenations, whose proofs need induction over
sequences), that PromoteJumps promotes no more than it must, everything about
Archive, ElfOutput, JitShuffle, Loading, FlowGraph, NonReturn and the interval
tree (folds and recursive definitions, or not proved yet), and liveness, which is out of the prover's reach.

## 6. Not modelled

- In the modelled parts: splitFunctionBefore, generational positions, the
  address and name indices of chunk lists, signals, three or more threads,
  the ChunkCache, archive fields that are not IDs, markers and vtables.
- Resolution of links: each pass is one traversal that looks names or addresses
  up; what is right is the dynamic linker's rules, which the repository does not
  state.
- Of ELF generation: kernel images and object files, sections that are copied as
  they are, the bytes of code and data.
- ELF and DWARF formats, instruction encodings other than those
  of linked jumps, jump table detection: formats or pattern matching, where a
  model would be a copy of the tables.
- Register liveness and use-def trees: their results feed pattern matching only.
- Contents of data regions and their relocation when a program is loaded into
  memory; mapping of segments by the loader.
- Logging, timing, printing, shells: output and interaction only.
- The other passes: their effect on the tree is one of the sequences of mutator
  calls that ChunkMutator allows; their own promises are not stated.
