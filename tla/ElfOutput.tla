----------------------------- MODULE ElfOutput -----------------------------
(***************************************************************************)
(* Writing an ELF file: the pipelines of UnionGen (one executable from     *)
(* several modules) and MirrorGen (one module, written as the kind of file *)
(* it was).  Sections, segments, symbols and relocations are collected     *)
(* first; most of what is written of them (addresses, offsets, sizes,      *)
(* indices) is computed only while the file is written, section by section.*)
(*                                                                         *)
(* The unit is the word of 4 bytes; a name takes one of a string table.    *)
(* What the bytes of code and data are does not matter here, except for    *)
(* those that hold addresses.                                              *)
(***************************************************************************)
EXTENDS SymbolTable

CONSTANTS
  Programs,   \* what may have to be written: [kind, csu, modules]
  PageSize,
  LoadBase, DynBase, GotBase, PltBase,  \* 0x200000, 0x400000, 0x500000, 0x600000
  TextBase, TextSize,                   \* of the SandboxBacking
  NBuckets, Hash                        \* of .gnu.hash

VARIABLES
  program,    \* the Program
  pc,         \* the operation of the pipelines that is next
  module,     \* while ModuleGen runs: the module, and its region
  region,
  sections,   \* the SectionList, with the contents that sections own
  strings,    \* how many names .strtab, .shstrtab and .dynstr hold
  symtab, dynsym,
  relaDyn, relaPlt,
  initArray, finiArray,
  plt,        \* the PLTTrampolines that get an entry, in order
  phdrs,      \* the SegmentInfos, in the order of the phdr table
  calls,      \* where calls that were PLTLinks go
  csu,        \* the bounds of .init_array that __libc_csu_init uses
  gnuHash,
  placed,    \* how many sections have their offset
  file        \* what is written so far, one element per section

vars == <<program, pc, module, region, sections, strings, symtab, dynsym, relaDyn,
          relaPlt, initArray, finiArray, plt, phdrs, calls, csu, gnuHash, placed, file>>

tables == <<symtab, dynsym, strings>>
relas == <<relaDyn, relaPlt>>
arrays == <<initArray, finiArray, plt, calls, csu>>

EhdrSize == 16
InterpSize == 7
PhdrSize == 14
ShdrSize == 16
SymSize == 6
RelaSize == 6
PairSize == 4
PointerSize == 2
PltEntrySize == 4
INIT_ARRAY_ADDR == LoadBase + 23   \* 0x20005c, also when it is not there

mirror == program.kind = "mirror"
AllModules == program.modules

MirrorPipeline ==
  <<"BasicElfCreator", "MakeInitArray0", "MakeGlobalPLT", "BasicElfStructure",
    "AssignSectionsToSegments", "MakeInitArray1", "UpdatePLTLinks", "CopyDynsym",
    "MakeGlobalSymbols", "ModuleGen", "MakeDynsymHash", "TextSectionCreator",
    "makeShdrTable", "makeSectionSymbols", "updateOffsets", "serialize">>

UnionPipeline ==
  <<"BasicElfCreator", "MakeInitArray0", "MakeGlobalPLT", "BasicElfStructure",
    "AssignSectionsToSegments", "MakeInitArray1", "UpdatePLTLinks", "ModuleGen",
    "TextSectionCreator", "makeShdrTable", "makeSectionSymbols", "updateOffsets",
    "serialize">>

Pipeline == IF mirror THEN MirrorPipeline ELSE UnionPipeline

At(op) == pc <= Len(Pipeline) /\ Pipeline[pc] = op

Concat(s) == FlattenSeq(s)

-----------------------------------------------------------------------------
(* SectionList and Section                                                  *)

Section(name, kind, size) ==
  [name |-> name, hdr |-> TRUE, kind |-> kind, size |-> size, desired |-> 0,
   isolated |-> TRUE, address |-> 0, offset |-> 0]

\* Sections that are not mapped, whose names begin with "=".
Ephemeral(name, kind, size) == [Section(name, kind, size) EXCEPT !.hdr = FALSE]

Unindexed == {"=elfheader", "=phdr_table", "=padding", "=intra-padding", "=shdr_table"}

Padding(desired) == [Ephemeral("=padding", "padding", 0) EXCEPT !.desired = desired]
IntraPadding(desired) ==
  [Ephemeral("=intra-padding", "padding", 0) EXCEPT !.desired = desired,
                                                    !.isolated = FALSE]

\* sectionMap: a later section takes the name over.  0 when there is none.
Named(secs, name) == SelectLastInSeq(secs, LAMBDA s : s.name = name)

\* sectionIndexMap, counted from 1 as sections are added.
IndexAt(secs, i) ==
  Cardinality({j \in 1..i : secs[j].name \notin Unindexed})

IndexOfName(secs, name) ==
  IF Named(secs, name) = 0 THEN -1 ELSE IndexAt(secs, Named(secs, name))

\* Mutant: what is left to the page boundary, wherever the section should be.
RoundUpOnly(lastByte, s) == (-lastByte) % PageSize

\* PagePaddingContent::getSize
PaddingSize(lastByte, s) ==
  IF s.isolated THEN (((-lastByte) % PageSize) + s.desired) % PageSize
                ELSE (s.desired - (lastByte % PageSize) + PageSize) % PageSize

\* getContent()->getSize(), for padding once its offset is known.
SizeOf(s) ==
  CASE s.kind = "fixed" -> s.size
    [] s.kind = "padding" -> PaddingSize(s.offset, s)
    [] s.kind = "phdrs" -> PhdrSize * Len(phdrs)
    [] s.kind = "shdrs" -> ShdrSize * (s.size + 1)
    [] s.kind \in {"strtab", "shstrtab", "dynstr"} -> strings[s.kind]
    [] s.kind = "symtab" -> SymSize * Len(symtab.list)
    [] s.kind = "dynsym" -> SymSize * Len(dynsym.list)
    [] s.kind = "relaDyn" -> RelaSize * Len(relaDyn)
    [] s.kind = "relaPlt" -> RelaSize * Len(relaPlt)
    [] s.kind = "initArray" -> PointerSize * Len(initArray)
    [] s.kind = "finiArray" -> PointerSize * Len(finiArray)
    [] s.kind = "hash" -> 4 + NBuckets + Len(gnuHash.chain)
    [] s.kind = "dynamic" -> PairSize * s.size
    [] s.kind = "gotplt" -> PointerSize * (Len(plt) + 3)
    [] s.kind = "plt" -> PltEntrySize * (Len(plt) + 1)

\* SegmentInfo.  "at" is the address it is given, 0 when that of its first
\* section is used.
Segment(type, contains_, at) == [type |-> type, contains |-> contains_, at |-> at, mem |-> 0]

-----------------------------------------------------------------------------
(* Before code has its addresses: preCodeGeneration                         *)

Init ==
  /\ program \in Programs
  /\ pc = 1 /\ module = 1 /\ region = 1
  /\ sections = << >>
  /\ strings = [strtab |-> 0, shstrtab |-> 0, dynstr |-> 0]
  /\ symtab = EmptyTable /\ dynsym = EmptyTable
  /\ relaDyn = << >> /\ relaPlt = << >>
  /\ initArray = << >> /\ finiArray = << >> /\ plt = << >> /\ phdrs = << >>
  /\ calls = << >> /\ csu = << >>
  /\ gnuHash = [symoffset |-> 0, buckets |-> << >>, chain |-> << >>]
  /\ placed = 0 /\ file = << >>

BasicElfCreator ==
  /\ At("BasicElfCreator")
  /\ sections' =
       <<Ephemeral("=elfheader", "fixed", EhdrSize),
         Section(".interp", "fixed", InterpSize),
         Section(".init_array", "initArray", 0), Section(".fini_array", "finiArray", 0),
         Ephemeral("=phdr_table", "phdrs", 0),
         Section(".strtab", "strtab", 0), Section(".shstrtab", "shstrtab", 0),
         Padding(0),
         Section(".dynstr", "dynstr", 0), Section(".symtab", "symtab", 0),
         Section(".dynsym", "dynsym", 0)>>
       \o (IF mirror THEN <<Section(".gnu.hash", "hash", 0)>> ELSE << >>)
       \o <<Section(".rela.dyn", "relaDyn", 0), Section(".dynamic", "dynamic", 0),
            Padding(0),
            Section(".g.got.plt", "gotplt", 0), Section(".rela.plt", "relaPlt", 0)>>
  /\ symtab' = addNullSymbol(symtab) /\ dynsym' = addNullSymbol(dynsym)
  /\ strings' = [strings EXCEPT !.strtab = 1, !.dynstr = 2]
  /\ pc' = pc + 1
  /\ UNCHANGED <<program, module, region, relas, arrays, phdrs, gnuHash, placed, file>>

\* What .init_array or .fini_array lists: firstInit, which each module that has
\* a special function overwrites, and all others.
Special(ms, list) == SelectSeq([i \in 1..Len(ms) |-> ms[i][list].special],
                               LAMBDA f : f # 0)
InitFunctions(list) ==
  LET special == Special(AllModules, list)
  IN (IF special = << >> THEN << >> ELSE <<Last(special)>>)
     \o Concat([i \in 1..Len(AllModules) |-> AllModules[i][list].others])

\* An ElfXX_Rela: its symbol is the one that is numbered id in .dynsym, 0 for
\* none; what addPLTRef makes is for a slot of .g.got.plt.
Rela(at, type, id, addend) ==
  [at |-> at, slot |-> 0, type |-> type, id |-> id, addend |-> addend]

\* Mutant: .fini_array starts where .init_array does.
InitRelasAtStart(list, initArraySize) ==
  LET fs == InitFunctions(list)
  IN [i \in 1..Len(fs) |-> Rela(INIT_ARRAY_ADDR + PointerSize * (i - 1), "64", 0, fs[i])]

\* addInitFunction: when the file is position independent, the pointers are
\* left to relocations, at an address that is a literal.
InitRelas(list, initArraySize) ==
  LET fs == InitFunctions(list)
  IN [i \in 1..Len(fs) |->
        Rela(INIT_ARRAY_ADDR + initArraySize + PointerSize * (i - 1), "64", 0, fs[i])]

MakeInitArray0 ==
  /\ At("MakeInitArray0")
  /\ LET pointers(list) == [i \in 1..Len(InitFunctions(list)) |->
                              IF mirror THEN 0 ELSE InitFunctions(list)[i]]
     IN initArray' = pointers("init") /\ finiArray' = pointers("fini")
  /\ relaDyn' = IF mirror
                THEN InitRelas("init", 0) \o InitRelas("fini", PointerSize * Len(initArray'))
                ELSE << >>
  /\ pc' = pc + 1
  /\ UNCHANGED <<program, module, region, sections, tables, relaPlt, plt, phdrs, calls,
                 csu, gnuHash, placed, file>>

\* collectPLTEntries, over all modules in turn.  Trampolines with a target
\* have been resolved; those without a symbol cannot be.
PltEntries ==
  Concat([i \in 1..Len(AllModules) |->
    SelectSeq([k \in 1..Len(AllModules[i].plts) |->
                 [module |-> i, k |-> k, name |-> AllModules[i].plts[k].name,
                  resolved |-> AllModules[i].plts[k].resolved,
                  isPltGot |-> AllModules[i].plts[k].isPltGot]],
              LAMBDA p : ~p.resolved /\ p.name # 0)])

Undefined(name) == [name |-> name, bind |-> "GLOBAL", section |-> 0]

\* addPLTRef: relocations of one kind, with the slots of .g.got.plt they are
\* for.  Slots are numbered over the entries of both kinds.
PltRelas(entries, d, isPltGot) ==
  LET mine == SelectSeq([i \in 1..Len(entries) |-> i],
                        LAMBDA i : entries[i].isPltGot = isPltGot)
  IN [j \in 1..Len(mine) |->
        [Rela(0, IF isPltGot THEN "GLOB_DAT" ELSE "JUMP_SLOT",
              find(d, KeyFor(Undefined(entries[mine[j]].name), FALSE)), 0)
         EXCEPT !.slot = 2 + mine[j]]]

AddAllUndefined(t, entries) ==
  FoldLeft(LAMBDA u, e : addUndefinedSymbol(u, Undefined(e.name)), t, entries)

NewNames(t, n) == Len(n.list) - Len(t.list)

MakeGlobalPLT ==
  /\ At("MakeGlobalPLT")
  /\ LET ordered == SelectSeq(PltEntries, LAMBDA e : ~e.isPltGot)
                    \o SelectSeq(PltEntries, LAMBDA e : e.isPltGot)
     IN /\ dynsym' = AddAllUndefined(dynsym, ordered)
        /\ symtab' = AddAllUndefined(symtab, ordered)
  /\ strings' = [strings EXCEPT !.strtab = @ + NewNames(symtab, symtab'),
                                !.dynstr = @ + NewNames(dynsym, dynsym')]
  /\ plt' = PltEntries
  /\ relaPlt' = PltRelas(PltEntries, dynsym', FALSE)
  /\ relaDyn' = relaDyn \o PltRelas(PltEntries, dynsym', TRUE)
  /\ sections' = sections \o <<Padding(0), Section(".plt", "plt", 0)>>
  /\ pc' = pc + 1
  /\ UNCHANGED <<program, module, region, initArray, finiArray, phdrs, calls, csu,
                 gnuHash, placed, file>>

\* The pairs of .dynamic whose values are addresses, and the sections' names.
DynamicAddresses ==
  <<<<"STRTAB", ".dynstr">>, <<"SYMTAB", ".dynsym">>>>
  \o (IF mirror THEN <<<<"GNU_HASH", ".gnu.hash">>>> ELSE << >>)
  \o <<<<"RELA", ".rela.dyn">>, <<"INIT_ARRAY", ".init_array">>,
       <<"FINI_ARRAY", ".fini_array">>, <<"PLTGOT", ".g.got.plt">>,
       <<"JMPREL", ".rela.plt">>>>
\* The other pairs: dependencies, sizes, flags and the end.
OtherPairs == 10

\* makePhdrTable
PhdrSegments == <<Segment("PHDR", <<Named(sections, "=phdr_table")>>, 0),
                  Segment("INTERP", <<Named(sections, ".interp")>>, 0)>>

\* makeHeader, makePhdrTable, makeSymtabSection, makeDynamicSection
BasicElfStructure ==
  /\ At("BasicElfStructure")
  /\ phdrs' = PhdrSegments
  /\ strings' = [strings EXCEPT !.dynstr = @ + 1]
  /\ sections' = [sections EXCEPT ![Named(sections, ".dynamic")].size =
                    Len(DynamicAddresses) + OtherPairs]
  /\ pc' = pc + 1
  /\ UNCHANGED <<program, module, region, symtab, dynsym, relas, arrays, calls, csu,
                 gnuHash, placed, file>>

\* The sections of a segment are given addresses one after the other.
Assigned(secs, contains_, at) ==
  FoldLeft(LAMBDA acc, i :
             [secs |-> IF acc.secs[i].hdr
                       THEN [acc.secs EXCEPT ![i].address = acc.at] ELSE acc.secs,
              at |-> acc.at + SizeOf(acc.secs[i])],
           [secs |-> secs, at |-> at], contains_).secs

Positions(names) == [i \in 1..Len(names) |-> Named(sections, names[i])]

LoadSegment ==
  Segment("LOAD", Positions(<<"=elfheader", ".interp", ".init_array", ".fini_array",
                              "=phdr_table">>), LoadBase)
DynSegment ==
  Segment("LOAD", Positions(<<".dynstr", ".symtab", ".dynsym">>
                            \o (IF mirror THEN <<".gnu.hash">> ELSE << >>)
                            \o <<".rela.dyn", ".dynamic">>), DynBase)
GotSegment == Segment("LOAD", Positions(<<".g.got.plt", ".rela.plt">>), GotBase)
PltSegment == Segment("LOAD", Positions(<<".plt">>), PltBase)
DynamicSegment == Segment("DYNAMIC", Positions(<<".dynamic">>), 0)

\* Mutant: the PT_DYNAMIC segment comes before the one that places .dynamic.
DynamicFirst == <<LoadSegment, DynamicSegment, DynSegment, GotSegment, PltSegment>>

FirstSegments == <<LoadSegment, DynSegment, GotSegment, PltSegment, DynamicSegment>>

\* Only the first segment's sections get their addresses at once.
AssignSectionsToSegments ==
  /\ At("AssignSectionsToSegments")
  /\ phdrs' = phdrs \o FirstSegments
  /\ sections' = Assigned(sections, LoadSegment.contains, LoadBase)
  /\ pc' = pc + 1
  /\ UNCHANGED <<program, module, region, tables, relas, arrays, calls, csu, gnuHash,
                 placed, file>>

-----------------------------------------------------------------------------
(* When Functions have their new addresses: afterAddressAssign              *)

\* makeInitArraySectionLinks, when there is a __libc_csu_init.
MakeInitArray1 ==
  /\ At("MakeInitArray1")
  /\ csu' = LET s == sections[Named(sections, ".init_array")]
            IN IF program.csu THEN <<s.address, s.address + SizeOf(s)>> ELSE << >>
  /\ pc' = pc + 1
  /\ UNCHANGED <<program, module, region, sections, tables, relas, initArray, finiArray,
                 plt, phdrs, calls, gnuHash, placed, file>>

\* entryMap: counted from 1, and 0 when there is no entry.
EntryOf(i, k) ==
  SelectInSeq(plt, LAMBDA e : e.module = i /\ e.k = k)

CallTarget(i, k) == PltBase + PltEntrySize * EntryOf(i, k)

\* Calls with a PLTLink go to the entry; a call whose trampoline has none is
\* left alone.
UpdatePLTLinks ==
  /\ At("UpdatePLTLinks")
  /\ calls' = Concat([i \in 1..Len(AllModules) |->
       LET cs == SelectSeq(AllModules[i].calls, LAMBDA k : EntryOf(i, k) # 0)
       IN [j \in 1..Len(cs) |-> [to |-> CallTarget(i, cs[j]),
                                 name |-> AllModules[i].plts[cs[j]].name]]])
  /\ pc' = pc + 1
  /\ UNCHANGED <<program, module, region, sections, tables, relas, initArray, finiArray,
                 plt, phdrs, csu, gnuHash, placed, file>>

AllFunctions == Concat([i \in 1..Len(AllModules) |-> AllModules[i].functions])
AllSections(ms) == Concat(Concat([i \in 1..Len(ms) |-> ms[i].regions \o <<ms[i].tls>>]))
GlobalsOf(secs) == Concat([i \in 1..Len(secs) |-> secs[i].globals])

\* addSymbol and addFunction, for the symbols of a Function.
AddFunctionSymbols(t, f, syms) ==
  FoldLeft(LAMBDA u, s : WithShndx(addSymbol(u, s, f.address), KeyFor(s, TRUE),
                                   ShndxOfSection(".text")), t, syms)

\* The symbols of a variable are copied without their section.
AddGlobalSymbols(t, g, syms) ==
  FoldLeft(LAMBDA u, s : addGlobalVarSymbol(u, [s EXCEPT !.section = 0], g.address),
           t, syms)

CopyDynsym ==
  /\ At("CopyDynsym")
  /\ dynsym' =
       LET withFunctions == FoldLeft(LAMBDA t, f : AddFunctionSymbols(t, f, f.dynamic),
                                     dynsym, AllFunctions)
       IN FoldLeft(LAMBDA t, g : AddGlobalSymbols(t, g, g.dynamic),
                   withFunctions, GlobalsOf(AllSections(AllModules)))
  /\ strings' = [strings EXCEPT !.dynstr = @ + NewNames(dynsym, dynsym')]
  /\ pc' = pc + 1
  /\ UNCHANGED <<program, module, region, sections, symtab, relas, arrays, phdrs, gnuHash,
                 placed, file>>

\* Variables in sections that will be written; their st_shndx is to be that of
\* the section's symbol.
MakeGlobalSymbols ==
  /\ At("MakeGlobalSymbols")
  /\ symtab' =
       LET kept == SelectSeq(AllSections(AllModules), LAMBDA s : s.type \in {"DATA", "BSS"})
           inSection(t, s) ==
             FoldLeft(LAMBDA u, g :
                        FoldLeft(LAMBDA v, y :
                                   WithShndx(v, KeyFor([y EXCEPT !.section = 0], TRUE),
                                             ShndxOfSymbol(s.name)),
                                 AddGlobalSymbols(u, g, g.symbols), g.symbols),
                      t, s.globals)
       IN FoldLeft(inSection, symtab, kept)
  /\ strings' = [strings EXCEPT !.strtab = @ + NewNames(symtab, symtab')]
  /\ pc' = pc + 1
  /\ UNCHANGED <<program, module, region, sections, dynsym, relas, arrays, phdrs, gnuHash,
                 placed, file>>

-----------------------------------------------------------------------------
(* When the code is in the backing: generateContent, one ModuleGen per      *)
(* module                                                                   *)

Here == AllModules[module]
Emitted(s) == s.type = "DATA" \/ (s.type = "BSS" /\ ~s.tls)

\* The sections of a region, and of the TLS region that overlaps it, by
\* address: of two with the same address the later is kept.
sectionMap(m, r) ==
  LET all == m.regions[r] \o (IF m.tlsIn = r THEN m.tls ELSE << >>)
      addresses == SetToSortSeq({all[i].address : i \in 1..Len(all)}, <)
  IN [i \in 1..Len(addresses) |->
        all[SelectLastInSeq(all, LAMBDA s : s.address = addresses[i])]]

\* The open segment is closed; it is dropped when it is empty.
Closed(acc) ==
  IF acc.contains = << >> THEN acc.segments
  ELSE Append(acc.segments, Segment("LOAD", acc.contains, 0))

\* One section of the map.  A segment ends where permissions change; padding
\* belongs to the segment unless nothing of the region is there yet.
EmitSection(acc, s) ==
  LET new == acc.flags # s.write
      open == IF new THEN << >> ELSE acc.contains
      n == Len(sections) + Len(acc.added)
  IN [acc EXCEPT
        !.flags = s.write,
        !.segments = IF new THEN Closed(acc) ELSE @,
        !.contains = IF ~Emitted(s) THEN open
                     ELSE open \o (IF acc.previousEnd # 0 THEN <<n + 1>> ELSE << >>)
                               \o <<n + 2>>,
        !.added = IF ~Emitted(s) THEN @
                  ELSE @ \o <<IntraPadding(s.address % PageSize),
                              [Section(s.name, "fixed", s.size) EXCEPT
                                 !.address = s.address]>>,
        !.previousEnd = IF Emitted(s) THEN s.address + s.size ELSE @]

EmitRegion(map) ==
  LET acc == FoldLeft(EmitSection,
                      [added |-> <<Padding(Head(map).address)>>, segments |-> << >>,
                       contains |-> << >>, flags |-> "none", previousEnd |-> 0], map)
  IN [added |-> acc.added, segments |-> Closed(acc)]

\* The adders of DataRelocSectionContent: each appends a relocation, and those
\* against a symbol put it into .dynsym unless it is there.  Its index is asked
\* for when the relocation is written.
addSymbolRef(acc, v, type, sym, defined, addend) ==
  [acc EXCEPT !.rela = Append(@, Rela(v.address, type,
                         find(acc.dynsym, KeyFor(sym, defined)), addend))]

addUndefinedRef(acc, v) ==
  addSymbolRef([acc EXCEPT !.dynsym = addUndefinedSymbol(@, Undefined(v.link.name))],
               v, "GLOB_DAT", Undefined(v.link.name), FALSE, 0)

\* A symbol that is defined in the module as well is given its address, and the
\* index of the section that the relocated variable is in.
addDataExternalRef(acc, v, in) ==
  LET sym == [Undefined(v.link.name) EXCEPT !.bind = v.link.bind]
      localWeakInstance == v.link.target # 0
      added == [acc EXCEPT !.dynsym =
                  IF localWeakInstance THEN addDataVarSymbol(@, sym, v.link.target, in)
                  ELSE addUndefinedSymbol(@, sym)]
  IN addSymbolRef(added, v, IF v.link.func THEN "JUMP_SLOT" ELSE "GLOB_DAT", sym,
                  localWeakInstance, v.link.offset)

addCopyExternalRef(acc, v, in) ==
  LET sym == [Undefined(v.link.name) EXCEPT !.bind = v.link.bind]
  IN addSymbolRef([acc EXCEPT !.dynsym = addDataVarSymbol(@, sym, v.address, in)],
                  v, "COPY", sym, TRUE, 0)

addDataIFuncRef(acc, v) ==
  [acc EXCEPT !.rela = Append(@, Rela(v.address, "IRELATIVE", 0, v.link.target))]

addDataArbitraryRef(acc, v) ==
  [acc EXCEPT !.rela = Append(@, Rela(v.address, "RELATIVE", 0, v.link.target))]

\* By the kind of its link; "in" is the index of the section it is in.  Links
\* without a target that are of no other kind get no relocation.
Relocated(acc, v, in) ==
  CASE v.link.kind \in {"ldso", "plt"} -> addUndefinedRef(acc, v)
    [] v.link.kind = "external" -> addDataExternalRef(acc, v, in)
    [] v.link.kind = "copy" -> addCopyExternalRef(acc, v, in)
    [] v.link.kind = "ifunc" -> addDataIFuncRef(acc, v)
    [] v.link.kind = "internal" -> addDataArbitraryRef(acc, v)
    [] v.link.kind = "marker" -> acc   \* "Unhandled link type for relocation"

\* maybeMakeDataRelocs: references to the loader always, others only when the
\* output may be placed anywhere.
RelocVars(s) ==
  LET linked == SelectSeq(s.vars, LAMBDA v : ~v.inJumpTable)
  IN SelectSeq(linked, LAMBDA v : v.link.kind = "ldso")
     \o (IF mirror THEN SelectSeq(linked, LAMBDA v : v.link.kind \notin {"ldso", "tls"})
         ELSE << >>)

maybeMakeDataRelocs(acc, s, in) ==
  LET done == FoldLeft(LAMBDA a, v : Relocated(a, v, in), acc, RelocVars(s))
  IN IF RelocVars(s) = << >> THEN acc
     ELSE [done EXCEPT !.dynsym = recalculateIndices(@)]

\* For sections that have just been added, from position "from" on.
RelocsFor(emitted, secs, from) ==
  FoldLeft(LAMBDA acc, s :
             [maybeMakeDataRelocs(acc, s, IndexAt(secs, acc.at)) EXCEPT !.at = @ + acc.step],
           [dynsym |-> dynsym, rela |-> relaDyn, at |-> from.at, step |-> from.step],
           emitted)

UpdateRelocs(acc) ==
  /\ dynsym' = acc.dynsym
  /\ strings' = [strings EXCEPT !.dynstr = @ + NewNames(dynsym, acc.dynsym)]

makeDataSections ==
  /\ At("ModuleGen") /\ module <= Len(AllModules) /\ region <= Len(Here.regions)
  /\ LET map == sectionMap(Here, region)
         out == EmitRegion(map)
         first == IF region = 1 THEN <<Padding(0)>> ELSE << >>
     IN IF map = << >>
        THEN /\ sections' = sections \o first
             /\ UNCHANGED <<phdrs, dynsym, strings, relaDyn>>
        ELSE LET shift == Len(first)
                 at == Len(sections) + shift
                 acc == RelocsFor(SelectSeq(map, Emitted), sections \o first \o out.added,
                                  [at |-> at + 3, step |-> 2])
             IN /\ sections' = sections \o first \o out.added
                /\ phdrs' = phdrs \o [i \in 1..Len(out.segments) |->
                     [out.segments[i] EXCEPT !.contains =
                        [j \in 1..Len(@) |-> @[j] + shift]]]
                /\ UpdateRelocs(acc)
                /\ relaDyn' = acc.rela
  /\ region' = region + 1
  /\ UNCHANGED <<program, pc, module, symtab, relaPlt, arrays, gnuHash, placed, file>>

\* The symbols of a Function: aliases with its own name are left out, and those
\* of another type, which are symbols of sections.
FunctionSymbols(f) ==
  IF f.symbols = << >> THEN <<Undefined(f.name)>>
  ELSE <<Head(f.symbols)>>
       \o SelectSeq(Tail(f.symbols),
                    LAMBDA s : s.name # f.name /\ s.type = Head(f.symbols).type)

\* makeSymbolsAndRelocs, for functions within the backing.
makeTextAccumulative ==
  /\ At("ModuleGen") /\ module <= Len(AllModules) /\ region = Len(Here.regions) + 1
  /\ symtab' = FoldLeft(LAMBDA t, f : AddFunctionSymbols(t, f, FunctionSymbols(f)), symtab,
                 SelectSeq(Here.functions,
                   LAMBDA f : /\ f.address >= TextBase
                              /\ f.address + f.size < TextBase + TextSize))
  /\ strings' = [strings EXCEPT !.strtab = @ + NewNames(symtab, symtab')]
  /\ region' = region + 1
  /\ UNCHANGED <<program, pc, module, sections, dynsym, relas, arrays, phdrs, gnuHash,
                 placed, file>>

\* The relocations of makeTLSRelocs: for all linked variables of the TLS
\* region, and for variables of any region that hold an offset into it.
TLSRelocs(m) ==
  LET linked == Concat([i \in 1..Len(m.tls) |-> m.tls[i].vars])
      data == SelectSeq(Concat(m.regions) \o m.tls, LAMBDA s : s.type = "DATA")
      offsets == SelectSeq(Concat([i \in 1..Len(data) |-> data[i].vars]),
                           LAMBDA v : v.link.kind = "tls")
  IN [i \in 1..Len(linked) |-> Rela(linked[i].address, "64", 0, linked[i].link.target)]
     \o [i \in 1..Len(offsets) |->
           Rela(offsets[i].address, "TPOFF64", 0, offsets[i].link.target)]

\* The TLS image is written a second time, in a segment of its own; .tbss has
\* no content and is added to the memory of the segment.
EmitTLS(m) ==
  LET kept == SelectSeq(m.tls, LAMBDA s : s.type \in {"DATA", "BSS"})
      at == Len(sections) + 1
      bss == SelectSeq(kept, LAMBDA s : s.type = "BSS")
  IN [kept |-> kept,
      added |-> <<Padding(Head(m.tls).address % PageSize)>>
        \o [i \in 1..Len(kept) |->
              [Section(kept[i].name, "fixed", IF kept[i].type = "DATA" THEN kept[i].size ELSE 0)
               EXCEPT !.address = kept[i].address]],
      segment |-> [Segment("TLS", [i \in 1..Len(kept) |-> at + i], 0)
                   EXCEPT !.mem = IF bss = << >> THEN 0 ELSE Last(bss).size]]

hasTLS == Here.tls # << >> /\ (mirror \/ Here.role = "LIBC")

makeTLS ==
  /\ At("ModuleGen") /\ module <= Len(AllModules) /\ region = Len(Here.regions) + 2
  /\ IF hasTLS
     THEN LET out == EmitTLS(Here)
              acc == FoldLeft(LAMBDA a, i :
                                IF out.kept[i].type # "DATA" THEN a
                                ELSE maybeMakeDataRelocs(a, out.kept[i],
                                       IndexAt(sections \o out.added, Len(sections) + 1 + i)),
                              [dynsym |-> dynsym, rela |-> relaDyn],
                              [i \in 1..Len(out.kept) |-> i])
          IN /\ sections' = sections \o out.added
             /\ phdrs' = Append(phdrs, out.segment)
             /\ UpdateRelocs(acc)
             /\ relaDyn' = acc.rela \o TLSRelocs(Here)
     ELSE UNCHANGED <<sections, phdrs, dynsym, strings, relaDyn>>
  /\ module' = module + 1 /\ region' = 1
  /\ pc' = IF module = Len(AllModules) THEN pc + 1 ELSE pc
  /\ UNCHANGED <<program, symtab, relaPlt, arrays, gnuHash, placed, file>>

-----------------------------------------------------------------------------
(* MakeDynsymHash                                                           *)

\* The names in each bucket, in the order of .dynsym from its first symbol
\* with an address on.
Buckets(names) ==
  [b \in 0..NBuckets - 1 |-> SelectSeq(names, LAMBDA n : Hash[n] % NBuckets = b)]

SizeBefore(buckets, b) ==
  FoldLeft(+, 0, [i \in 1..b |-> Len(buckets[i - 1])])

\* The index from 0 of the first symbol that is hashed.
FirstHashed(t) ==
  LET i == SelectInSeq(t.list, LAMBDA e : e.value # 0)
  IN IF i = 0 THEN Len(t.list) ELSE i - 1

\* A chain ends with the symbols that have the name of its last one.
HashOf(t) ==
  LET first == FirstHashed(t)
      names == [i \in 1..Len(t.list) - first |-> t.list[first + i].name]
      buckets == Buckets(names)
      link(b) == [i \in 1..Len(buckets[b]) |->
                    [hash |-> Hash[buckets[b][i]],
                     last |-> buckets[b][i] = Last(buckets[b])]]
  IN [symoffset |-> first,
      buckets |-> [b \in 0..NBuckets - 1 |->
         IF buckets[b] = << >> THEN 0 ELSE first + SizeBefore(buckets, b)],
      chain |-> Concat([b \in 1..NBuckets |-> link(b - 1)])]

\* indexMap: the last place of a name in the buckets.
PlaceInBuckets(t) ==
  LET first == FirstHashed(t)
      names == [i \in 1..Len(t.list) - first |-> t.list[first + i].name]
      order == Concat([b \in 1..NBuckets |-> Buckets(names)[b - 1]])
  IN [n \in {order[i] : i \in 1..Len(order)} |->
        SelectLastInSeq(order, LAMBDA x : x = n) - 1]

\* Mutant: the symbols stay in the order of their names.
KeepOrder(t) == recalculateIndices(t)

SortedByBucket(t) == recalculateIndices(Rekeyed(t, PlaceInBuckets(t)))

MakeDynsymHash ==
  /\ At("MakeDynsymHash")
  /\ gnuHash' = HashOf(dynsym)
  /\ dynsym' = SortedByBucket(dynsym)
  /\ pc' = pc + 1
  /\ UNCHANGED <<program, module, region, sections, strings, symtab, relas, arrays, phdrs,
                 placed, file>>

-----------------------------------------------------------------------------
(* The last sections, and the file                                          *)

TextLength == FoldLeft(LAMBDA n, f : IF f.address + f.size - TextBase > n
                                     THEN f.address + f.size - TextBase ELSE n,
                       0, AllFunctions)

TextSectionCreator ==
  /\ At("TextSectionCreator")
  /\ sections' = sections \o <<Padding(0), [Section(".text", "fixed", TextLength)
                                           EXCEPT !.address = TextBase]>>
  /\ phdrs' = Append(phdrs, Segment("LOAD", <<Len(sections) + 2>>, 0))
  /\ pc' = pc + 1
  /\ UNCHANGED <<program, module, region, tables, relas, arrays, gnuHash, placed, file>>

WithHeader == SelectSeq([i \in 1..Len(sections) |-> i], LAMBDA i : sections[i].hdr)

\* makeShdrTable, the first half of GenerateSectionTable
makeShdrTable ==
  /\ At("makeShdrTable")
  /\ sections' = sections \o <<Padding(0), Ephemeral("=shdr_table", "shdrs", Len(WithHeader))>>
  /\ strings' = [strings EXCEPT !.shstrtab = @ + Len(WithHeader) + 1]
  /\ pc' = pc + 1
  /\ UNCHANGED <<program, module, region, symtab, dynsym, relas, arrays, phdrs, gnuHash,
                 placed, file>>

\* makeSectionSymbols, one section with a header after the other
makeSectionSymbols ==
  /\ At("makeSectionSymbols")
  /\ LET k == Cardinality(DOMAIN symtab.sectionSymbols) + 1
         done == k > Len(WithHeader)
     IN /\ symtab' = IF done THEN recalculateIndices(symtab)
                     ELSE addSectionSymbol(symtab, IndexAt(sections, WithHeader[k]))
        /\ dynsym' = IF done THEN recalculateIndices(dynsym) ELSE dynsym
        /\ pc' = IF done THEN pc + 1 ELSE pc
  /\ UNCHANGED <<program, module, region, sections, strings, relas, arrays, phdrs, gnuHash,
                 placed, file>>

\* ElfFileWriter::updateOffsets, one section after the other: "placed" counts
\* those that are done, and the end of the last is where the next begins.
updateOffsets ==
  /\ At("updateOffsets")
  /\ LET end == IF placed = 0 THEN 0
                ELSE sections[placed].offset + SizeOf(sections[placed])
     IN sections' = [sections EXCEPT ![placed + 1].offset = end]
  /\ placed' = placed + 1
  /\ pc' = IF placed' = Len(sections) THEN pc + 1 ELSE pc
  /\ UNCHANGED <<program, module, region, tables, relas, arrays, phdrs, gnuHash, file>>

\* What the deferred values come to when a section is written.
AddressOf(name) == sections[Named(sections, name)].address

EhdrData ==
  [shoff |-> sections[Named(sections, "=shdr_table")].offset,
   shnum |-> sections[Named(sections, "=shdr_table")].size + 1,
   phoff |-> sections[Named(sections, "=phdr_table")].offset,
   phnum |-> Len(phdrs),
   shstrndx |-> IndexOfName(sections, ".shstrtab")]

DynamicData == [i \in 1..Len(DynamicAddresses) |->
                  [tag |-> DynamicAddresses[i][1],
                   value |-> AddressOf(DynamicAddresses[i][2])]]

RelaData(relocs) ==
  [i \in 1..Len(relocs) |->
     [at |-> IF relocs[i].slot = 0 THEN relocs[i].at
             ELSE AddressOf(".g.got.plt") + PointerSize * relocs[i].slot,
      type |-> relocs[i].type,
      sym |-> IF relocs[i].id = 0 THEN 0 ELSE indexOf(dynsym, relocs[i].id),
      addend |-> relocs[i].addend]]

\* indexOfSectionSymbol is the index of a symbol, not of a section.
ShndxData(x) ==
  CASE x.by = "number" -> x.n
    [] x.by = "indexOf" -> IndexOfName(sections, x.section)
    [] x.by = "indexOfSectionSymbol" ->
         indexOf(symtab, symtab.sectionSymbols[IndexOfName(sections, x.section)])

SymbolData(t) ==
  [i \in 1..Len(t.list) |->
     [name |-> t.list[i].name, bind |-> t.list[i].bind, value |-> t.list[i].value,
      shndx |-> ShndxData(t.list[i].shndx)]]

\* Mutant: the three slots at the beginning of .g.got.plt are forgotten.
PltDataNoPadding ==
  [i \in 1..Len(plt) |-> AddressOf(".g.got.plt") + PointerSize * (i - 1)]

\* The slot that each entry after the special one jumps through.
PltData ==
  [i \in 1..Len(plt) |-> AddressOf(".g.got.plt") + PointerSize * (i - 1 + 3)]

\* sh_info is kept for tables of symbols.
ShdrData ==
  [i \in 1..Len(WithHeader) |->
     LET s == sections[WithHeader[i]]
     IN [name |-> s.name, addr |-> s.address, offset |-> s.offset, size |-> SizeOf(s),
         info |-> CASE s.kind = "symtab" -> symtab.firstGlobalIndex
                    [] s.kind = "dynsym" -> dynsym.firstGlobalIndex
                    [] OTHER -> 0]]

\* A program header.  Writing that of a segment with an address of its own
\* gives addresses to the sections in it.
PhdrWritten(acc, p) ==
  LET secs == IF p.at = 0 THEN acc.secs ELSE Assigned(acc.secs, p.contains, p.at)
      first == secs[Head(p.contains)]
      filesz == FoldLeft(LAMBDA n, i : n + SizeOf(secs[i]), 0, p.contains)
  IN [secs |-> secs,
      data |-> Append(acc.data,
        [type |-> p.type, contains |-> p.contains, offset |-> first.offset,
         vaddr |-> CASE p.type \in {"PHDR", "INTERP"} -> LoadBase + first.offset
                     [] p.at # 0 -> p.at
                     [] OTHER -> first.address,
         filesz |-> filesz, memsz |-> filesz + p.mem])]

PhdrsWritten == FoldLeft(PhdrWritten, [secs |-> sections, data |-> << >>], phdrs)

DataOf(s) ==
  CASE s.name = "=elfheader" -> <<EhdrData>>
    [] s.kind = "phdrs" -> PhdrsWritten.data
    [] s.kind = "dynamic" -> DynamicData
    [] s.kind = "relaDyn" -> RelaData(relaDyn)
    [] s.kind = "relaPlt" -> RelaData(relaPlt)
    [] s.kind = "symtab" -> SymbolData(symtab)
    [] s.kind = "dynsym" -> SymbolData(dynsym)
    [] s.kind = "plt" -> PltData
    [] s.kind = "shdrs" -> ShdrData
    [] s.kind = "hash" -> <<gnuHash>>
    [] s.kind = "initArray" -> initArray
    [] s.kind = "finiArray" -> finiArray
    [] OTHER -> << >>

\* One section of the list.
serialize ==
  /\ At("serialize") /\ Len(file) < Len(sections)
  /\ LET s == sections[Len(file) + 1]
     IN /\ file' = Append(file, [name |-> s.name, data |-> DataOf(s)])
        /\ sections' = IF s.kind = "phdrs" THEN PhdrsWritten.secs ELSE sections
  /\ pc' = IF Len(file') = Len(sections) THEN pc + 1 ELSE pc
  /\ UNCHANGED <<program, module, region, tables, relas, arrays, phdrs, gnuHash, placed>>

\* The file cannot be opened: nothing is written.
CannotOpen ==
  /\ At("serialize") /\ file = << >>
  /\ pc' = pc + 1
  /\ UNCHANGED <<program, module, region, sections, tables, relas, arrays, phdrs, gnuHash,
                 placed, file>>

Next ==
  \/ BasicElfCreator \/ MakeInitArray0 \/ MakeGlobalPLT \/ BasicElfStructure
  \/ AssignSectionsToSegments \/ MakeInitArray1 \/ UpdatePLTLinks \/ CopyDynsym
  \/ MakeGlobalSymbols \/ makeDataSections \/ makeTextAccumulative \/ makeTLS
  \/ MakeDynsymHash \/ TextSectionCreator \/ makeShdrTable \/ makeSectionSymbols
  \/ updateOffsets
  \/ serialize \/ CannotOpen

Spec == Init /\ [][Next]_vars

-----------------------------------------------------------------------------
(* What the kernel and the dynamic linker find in a file that is written.   *)

Written == pc > Len(Pipeline) /\ file # << >>
In(name) == file[SelectLastInSeq(file, LAMBDA f : f.name = name)].data
Elements(s) == {s[i] : i \in 1..Len(s)}

Loads == {p \in Elements(In("=phdr_table")) : p.type = "LOAD"}
Holds(p, address) == p.vaddr <= address /\ address < p.vaddr + p.memsz
\* What is at the address in memory comes from the offset in the file.
ComesFrom(address, offset) ==
  \E p \in Loads : Holds(p, address) /\ address - p.vaddr + p.offset = offset

\* Program headers can be mapped, and map every section that has an address
\* there: file offset and address agree modulo the page size, padding keeps
\* the sections of a segment at their distances, and no two segments overlap.
\* (AssignSectionsToSegments, makeDataSections, PagePaddingContent.)
SectionsMapped ==
  Written =>
    /\ \A p \in Loads : (p.vaddr - p.offset) % PageSize = 0
    /\ \A p \in Loads : \A i \in Elements(p.contains) :
         sections[i].hdr => sections[i].address = p.vaddr + sections[i].offset - p.offset
    /\ \A i \in 1..Len(sections) : sections[i].address # 0 =>
         \E p \in Loads : Holds(p, sections[i].address) \/ SizeOf(sections[i]) = 0
    /\ \A p, q \in Loads : p # q => p.vaddr + p.memsz <= q.vaddr \/ q.vaddr + q.memsz <= p.vaddr

\* Headers that were written before or after others say the same: the other
\* program headers and the addresses in .dynamic lead through the LOAD
\* segments to the offsets where the sections are, and the ELF header names
\* the tables.  (Deferred values of makeHeader, makePhdrTable,
\* makeDynamicSection; addresses that the phdr table sets when written.)
HeadersAgree ==
  Written =>
    /\ \A p \in Elements(In("=phdr_table")) :
         p.type \notin {"LOAD", "TLS"} /\ p.filesz > 0 => ComesFrom(p.vaddr, p.offset)
    /\ \A i \in 1..Len(DynamicAddresses) :
         LET s == sections[Named(sections, DynamicAddresses[i][2])]
         IN SizeOf(s) > 0 => ComesFrom(In(".dynamic")[i].value, s.offset)
    /\ LET h == Head(In("=elfheader"))
       IN /\ sections[Named(sections, "=shdr_table")].offset = h.shoff
          /\ sections[Named(sections, "=phdr_table")].offset = h.phoff
          /\ h.phnum = Len(In("=phdr_table")) /\ h.shnum = Len(In("=shdr_table")) + 1
          /\ In("=shdr_table")[h.shstrndx].name = ".shstrtab"

Relocations == Elements(In(".rela.dyn")) \cup Elements(In(".rela.plt"))
NameOfSymbol(i) == In(".dynsym")[i + 1].name

\* A call to a function of another file gets there: it goes to an entry of
\* .plt that jumps through a slot of .g.got.plt, and what is relocated there
\* is the symbol of that function.  (MakeGlobalPLT, UpdatePLTLinks, addPLTRef,
\* PLTCodeContent::addEntry: four countings of the same entries.)
CallsReachTheirSymbol ==
  Written =>
    \A c \in Elements(calls) :
      LET entry == (c.to - AddressOf(".plt")) \div PltEntrySize
          slots == {r \in Relocations : r.at = In(".plt")[entry]}
      IN /\ entry \in 1..Len(In(".plt"))
         /\ slots # {} /\ \A r \in slots : NameOfSymbol(r.sym) = c.name

\* A variable that is linked to a symbol is relocated against the symbol of
\* that name, whatever was put into .dynsym before it afterwards; one that is
\* linked to a place in the module is relocated to that place.  Links that are
\* not handled are not claimed.  (Adders of DataRelocSectionContent,
\* recalculateIndices.)
DataRelocated ==
  Written =>
    \A s \in Elements(Concat(Concat([i \in 1..Len(AllModules) |-> AllModules[i].regions]))) :
      s.type \in {"DATA", "BSS"} =>
        \A v \in {x \in Elements(RelocVars(s)) : x.link.kind # "marker"} :
          LET rs == {r \in Relocations : r.at = v.address}
          IN /\ rs # {}
             /\ \A r \in rs : IF v.link.kind \in {"internal", "ifunc"}
                               THEN r.sym = 0 /\ r.addend = v.link.target
                               ELSE r.sym # 0 /\ NameOfSymbol(r.sym) = v.link.name

\* What a lookup in .gnu.hash comes to: the first symbol of the chain of the
\* bucket that has the name and an address.  0 when there is none.
Lookup(name) ==
  LET h == Head(In(".gnu.hash"))
      start == h.buckets[Hash[name] % NBuckets]
      stop == CHOOSE i \in start..Len(In(".dynsym")) - 1 :
                /\ h.chain[i - h.symoffset + 1].last
                /\ \A j \in start..i - 1 : ~h.chain[j - h.symoffset + 1].last
      hits == {i \in start..stop : /\ h.chain[i - h.symoffset + 1].hash = Hash[name]
                                   /\ NameOfSymbol(i) = name
                                   /\ In(".dynsym")[i + 1].value # 0}
  IN IF start = 0 \/ hits = {} THEN 0
     ELSE CHOOSE i \in hits : \A j \in hits : i <= j

ExportedBy(x) == {d.name : d \in Elements(x.dynamic)}
Exporting == Elements(AllFunctions) \cup Elements(GlobalsOf(AllSections(AllModules)))

\* What the module exported is found by name at its new address, and names
\* that it only uses are not found: the buckets and chains were made before
\* .dynsym was sorted to match them.  (CopyDynsym, MakeDynsymHash.)
ExportsFound ==
  Written /\ mirror =>
    \A name \in DOMAIN Hash :
      LET by == {x \in Exporting : name \in ExportedBy(x)}
          copied == {v \in UNION {Elements(s.vars) : s \in Elements(AllSections(AllModules))} :
                       v.link.kind = "copy" /\ v.link.name = name}
      IN IF by \cup copied = {} THEN Lookup(name) = 0
         ELSE /\ Lookup(name) # 0
              /\ \E x \in by \cup copied : In(".dynsym")[Lookup(name) + 1].value = x.address

\* Where the array that .dynamic names begins, and what the pointer at a place
\* of it may be once the file is relocated: its content, or what a relocation
\* puts over it.
StartOf(tag) == (CHOOSE d \in Elements(In(".dynamic")) : d.tag = tag).value
PointersAt(tag, name, k) ==
  LET over == {r \in Relocations : r.at = StartOf(tag) + PointerSize * (k - 1)}
  IN IF over = {} THEN {In(name)[k]} ELSE {r.addend : r \in over}

\* The pointers of the array are just these functions, in this order.
Runs(tag, name, functions) ==
  /\ Len(In(name)) = Len(functions)
  /\ \A k \in 1..Len(functions) : PointersAt(tag, name, k) = {functions[k]}

\* Every constructor and every destructor of every module runs, in the order
\* of the modules and of their lists, after the special function (_init) or
\* for destructors, which run backwards, before it; __libc_csu_init goes over
\* just this array.  When several modules have a special function, the claim
\* is about the ordinary functions, which run after one of those: the others
\* are lost.  (MakeInitArray, which uses the address of the array before
\* anything has an address; firstInit.)
InitFunctionsRun ==
  Written =>
    LET modules == Elements(AllModules)
        ordinary(list) == Concat([i \in 1..Len(AllModules) |-> AllModules[i][list].others])
        special(list) == {m[list].special : m \in modules} \ {0}
        complete(list, tag, name) ==
          IF special(list) = {} THEN Runs(tag, name, ordinary(list))
          ELSE \E f \in special(list) : Runs(tag, name, <<f>> \o ordinary(list))
        start == StartOf("INIT_ARRAY")
    IN /\ complete("init", "INIT_ARRAY", ".init_array")
       /\ complete("fini", "FINI_ARRAY", ".fini_array")
       /\ program.csu =>
            csu = <<start, start + PointerSize * Len(In(".init_array"))>>

\* In .symtab and .dynsym the local symbols come first, as many as sh_info
\* says, and in .symtab a symbol with an address has the index of the section
\* that the address is in.  (SymbolInTable's order, firstGlobalIndex, and
\* indexOfSectionSymbol, whose result is used as the index of a section.)
SymbolsInTheirSection ==
  Written =>
    LET headers == In("=shdr_table")
        info(name) == headers[SelectInSeq(headers, LAMBDA h : h.name = name)].info
        localsFirst(name) == \A i \in 1..Len(In(name)) :
                               In(name)[i].bind = "LOCAL" <=> i <= info(name)
    IN /\ localsFirst(".symtab") /\ localsFirst(".dynsym")
       /\ \A e \in Elements(In(".symtab")) : e.value # 0 =>
            /\ e.shndx \in 1..Len(headers)
            /\ headers[e.shndx].addr <= e.value
            /\ e.value < headers[e.shndx].addr + headers[e.shndx].size
=============================================================================
