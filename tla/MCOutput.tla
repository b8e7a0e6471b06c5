------------------------------ MODULE MCOutput ------------------------------
(***************************************************************************)
(* A behaviour is one of the placing of code by Generator, or one of the   *)
(* writing of an ELF file.                                                 *)
(***************************************************************************)
EXTENDS Generator

CONSTANTS Programs, PageSize, LoadBase, DynBase, GotBase, PltBase, TextBase, TextSize,
          NBuckets, Hash

ASSUME ElfOutputAssumption ==
  /\ PageSize \in Nat \ {0} /\ NBuckets \in Nat \ {0}
  /\ \A b \in {LoadBase, DynBase, GotBase, PltBase, TextBase} : b % PageSize = 0

VARIABLES
  part,
  program, pc, writing, region, sections, strings, symtab, dynsym, relaDyn, relaPlt,
  initArray, finiArray, plt, phdrs, calls, csu, gnuHash, placed, file

elfVars == <<program, pc, writing, region, sections, strings, symtab, dynsym, relaDyn,
             relaPlt, initArray, finiArray, plt, phdrs, calls, csu, gnuHash, placed, file>>

Elf == INSTANCE ElfOutput WITH module <- writing

-----------------------------------------------------------------------------
(* Two modules with three Functions, two of which may be empty or at the   *)
(* same address, and two PLTTrampolines.                                   *)
MCModules == <<[functions |-> <<"f", "g">>, plts |-> <<"p">>],
               [functions |-> <<"h">>, plts |-> <<"q">>]>>
MCSizes ==
  {[f |-> f, g |-> g, h |-> 1, p |-> 2, q |-> 1] : f \in 0..2, g \in {0, 1, 3}}
MCOld == {[f |-> f, g |-> g, h |-> 1] : f, g \in 0..2}
MCOrders == {<< >>, <<"h", "f", "g">>, <<"g", "f">>}

-----------------------------------------------------------------------------
(* Files to write.  Names are numbers: 1 to 3 of functions of others, 4 and *)
(* 5 of functions, 6 and 7 of variables, 8 of an object that is copied, 9   *)
(* of a local function, 10 of a variable of the loader, 11 of a section.    *)
MCHash == [n \in 1..10 |-> CASE n \in {2, 5, 7} -> 1 [] n \in {4, 6} -> 3 [] OTHER -> n]

MCPlt(name, got) == [name |-> name, resolved |-> FALSE, isPltGot |-> got]
MCResolved(name) == [MCPlt(name, FALSE) EXCEPT !.resolved = TRUE]
MCLink(kind, name, target) ==
  [kind |-> kind, name |-> name, bind |-> "GLOBAL", target |-> target, offset |-> 0,
   func |-> FALSE]
MCVar(address, link) ==
  [address |-> address, link |-> link, inJumpTable |-> link.kind = "jump table"]
MCSection(name, type, write, address, length, variables, globals) ==
  [name |-> name, type |-> type, write |-> write, tls |-> name \in {".tdata", ".tbss"},
   address |-> address, size |-> length, vars |-> variables, globals |-> globals]
MCSym(name, bind) == [name |-> name, bind |-> bind, section |-> 1, type |-> "FUNC"]
MCSectionSym(name) == [MCSym(name, "LOCAL") EXCEPT !.type = "SECTION"]
MCGlobal(address, syms, dynamic) ==
  [address |-> address, symbols |-> syms, dynamic |-> dynamic]
MCFunction(name, address, syms, dynamic) ==
  [name |-> name, address |-> address, size |-> 3, symbols |-> syms, dynamic |-> dynamic]
MCOnly(cond, s) == IF cond THEN s ELSE << >>

\* A module with data from "at" on and code from "code" on: a read-only
\* segment and one with the TLS image, .init_array, .data and .bss.  Sections
\* of a segment are less than a page apart and have the same permissions, and
\* .tbss is at the address of .init_array.  libc has a segment in which there is
\* no section.  There may be a special constructor or a special destructor: of
\* one file it is one of both, of several files more than one.
MCModule(role, at, code, links, plts, exports, tls) ==
  [role |-> role,
   init |-> [special |-> IF tls THEN 0 ELSE code, others |-> <<code + 4>>],
   fini |-> [special |-> IF tls THEN code + 12 ELSE 0, others |-> <<code + 8, code + 4>>],
   plts |-> plts, calls |-> [i \in 1..Len(plts) |-> Len(plts) + 1 - i],
   functions |->
     <<MCFunction(4, code, <<MCSym(4, "GLOBAL"), MCSectionSym(11), MCSym(4, "WEAK")>>,
                  MCOnly(4 \in exports, <<MCSym(4, "GLOBAL")>>)),
       MCFunction(5, code + 4, <<MCSym(9, "LOCAL"), MCSym(5, "GLOBAL")>>,
                  MCOnly(5 \in exports, <<MCSym(5, "WEAK")>>)),
       MCFunction(3, code + 8, << >>, << >>), MCFunction(2, code + 12, << >>, << >>)>>,
   regions |->
     <<<<MCSection(".rodata", "DATA", "R", at - 61, 5, << >>, << >>)>>,
       <<MCSection(".init_array", "INIT_ARRAY", "W", at + 25, 4, << >>, << >>),
         MCSection(".data", "DATA", "W", at + 31, 17,
           [i \in 1..Len(links) |-> MCVar(at + 29 + 2 * i, links[i])],
           MCOnly(6 \in exports, <<MCGlobal(at + 45, <<MCSym(6, "GLOBAL")>>,
                                           <<MCSym(6, "GLOBAL")>>)>>)),
         MCSection(".bss", "BSS", "W", at + 60, 8,
           MCOnly(8 \in exports, <<MCVar(at + 66, MCLink("copy", 8, 0))>>),
           <<MCGlobal(at + 62, <<MCSym(7, "LOCAL")>>, << >>)>>
           \o MCOnly(8 \in exports, <<MCGlobal(at + 66, <<MCSym(8, "GLOBAL")>>,
                                               <<MCSym(8, "GLOBAL")>>)>>))>>>>
     \o MCOnly(role = "LIBC", << << >> >>),
   tls |-> MCOnly(tls,
     <<MCSection(".tdata", "DATA", "W", at + 21, 3,
                 <<MCVar(at + 22, MCLink("internal", 0, at + 31))>>, << >>),
       MCSection(".tbss", "BSS", "W", at + 25, 4, << >>, << >>)>>),
   tlsIn |-> IF tls THEN 2 ELSE 0]

MCData == 16384

\* What variables of a mirrored module may be linked to, six in each order.
MCLinks ==
  LET code == MCLink("internal", 0, TextBase)
      ifunc == MCLink("ifunc", 0, TextBase + 4)
      used == MCLink("external", 3, 0)
      called == [MCLink("external", 1, 0) EXCEPT !.func = TRUE]
      own == MCLink("external", 6, MCData + 45)
      offset == MCLink("tls", 0, 1)
      entry == MCLink("jump table", 0, TextBase)
      loader == MCLink("ldso", 10, 0)
      undefined == MCLink("plt", 2, 0)
      end == MCLink("marker", 0, MCData + 68)
  IN {<< >>, <<used, code, called>>, <<called, own, used, ifunc, loader>>,
      <<offset, undefined, entry, used, own, code>>, <<ifunc, loader, offset, entry, end, code>>}

MCPlts == {<< >>, <<MCPlt(2, FALSE), MCPlt(1, FALSE)>>,
           <<MCPlt(2, TRUE), MCResolved(4), MCPlt(3, FALSE), MCPlt(1, TRUE)>>}

\* The symbol of a variable of the module that it links to itself is one that
\* it exports.
MCMirrors ==
  {[kind |-> "mirror", csu |-> 4 \in m[3],
    modules |-> <<MCModule("MAIN", MCData, TextBase, m[1], m[2], m[3], m[4])>>] :
   m \in {x \in MCLinks \X MCPlts \X (SUBSET {4, 5, 6, 8}) \X BOOLEAN :
            (\E i \in 1..Len(x[1]) : x[1][i].name = 6) => 6 \in x[3]}}

\* An executable and its libraries in one file, in which no symbol of a module
\* is external to it.
MCUnions ==
  {[kind |-> "union", csu |-> TRUE,
    modules |-> <<MCModule("MAIN", MCData, TextBase, << >>, plts, {4}, FALSE),
                  MCModule("OTHER", MCData + 256, TextBase + 16, links, rest, {}, tls),
                  MCModule("LIBC", MCData + 512, TextBase + 32,
                           <<MCLink("ldso", 10, 0)>>, << >>, {5, 6}, TRUE)>>] :
   links \in {l \in MCLinks : \A i \in 1..Len(l) : l[i].name # 6},
   plts \in MCPlts, rest \in MCPlts, tls \in BOOLEAN}

MCPrograms == MCMirrors \cup MCUnions

-----------------------------------------------------------------------------
ElfIdle ==
  /\ program = [kind |-> "none"] /\ pc = 0 /\ writing = 0 /\ region = 0
  /\ sections = << >> /\ strings = << >> /\ symtab = << >> /\ dynsym = << >>
  /\ relaDyn = << >> /\ relaPlt = << >> /\ initArray = << >> /\ finiArray = << >>
  /\ plt = << >> /\ phdrs = << >> /\ calls = << >> /\ csu = << >> /\ gnuHash = << >>
  /\ placed = 0 /\ file = << >>

GeneratorIdle ==
  /\ size = CHOOSE s \in Sizes : TRUE
  /\ held = size /\ order = << >> /\ direct = TRUE
  /\ old = CHOOSE o \in OldAddresses : TRUE
  /\ phase = "assign" /\ module = 1 /\ picked = FALSE /\ todo = << >>
  /\ watermark = Base /\ slot = [c \in Chunks |-> NoSlot]
  /\ memory = [o \in 0..(Capacity - 1) |-> Zero] /\ buffer = << >>

OutputInit ==
  \/ part = "Generator" /\ Init /\ ElfIdle
  \/ part = "Elf" /\ GeneratorIdle /\ Elf!Init

OutputNext ==
  \/ part = "Generator" /\ Next /\ UNCHANGED <<part, elfVars>>
  \/ part = "Elf" /\ Elf!Next /\ UNCHANGED <<part, vars>>

OutputSpec == OutputInit /\ [][OutputNext]_<<part, vars, elfVars>>

\* Every section that is loaded is where its address says: SectionsMapped of
\* ElfOutput, about what ModuleGen and BasicElfStructure lay out.
SectionsMapped == Elf!SectionsMapped

\* The headers agree with the sections they describe: HeadersAgree of
\* ElfOutput, about deferred values and updateOffsets.
HeadersAgree == Elf!HeadersAgree

\* A call to a function of another file reaches its symbol:
\* CallsReachTheirSymbol of ElfOutput, about MakeGlobalPLT and UpdatePLTLinks.
CallsReachTheirSymbol == Elf!CallsReachTheirSymbol

\* A linked variable is relocated against its symbol or its place:
\* DataRelocated of ElfOutput, about the adders of DataRelocSectionContent.
DataRelocated == Elf!DataRelocated

\* What a module exports, and nothing else, is found in .gnu.hash:
\* ExportsFound of ElfOutput, about CopyDynsym and MakeDynsymHash.
ExportsFound == Elf!ExportsFound

\* Constructors and destructors run in their order: InitFunctionsRun of
\* ElfOutput, about MakeInitArray.
InitFunctionsRun == Elf!InitFunctionsRun

\* Symbols are in order and have the index of their section:
\* SymbolsInTheirSection of ElfOutput, about the deferred symbol tables.
SymbolsInTheirSection == Elf!SymbolsInTheirSection
=============================================================================
