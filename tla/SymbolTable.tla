---------------------------- MODULE SymbolTable ----------------------------
(***************************************************************************)
(* SymbolTableContent: the symbols of .symtab or .dynsym, kept sorted, and *)
(* the map from a symbol to its index that relocations are written with.   *)
(* The map is not kept up to date: insertAt enters the new symbol only,    *)
(* recalculateIndices sets it right.                                       *)
(*                                                                         *)
(* A table is [list, index, firstGlobalIndex, sectionSymbols].  A symbol's *)
(* key is <<tableIndex, type, name, section>> (SymbolInTable); names are   *)
(* numbers, in the order of strcmp, and 0 is the empty name.  st_shndx is  *)
(* often known only when the table is written: it is given by a way to     *)
(* find it, and SHN_UNDEF is [by |-> "number", n |-> 0].                   *)
(***************************************************************************)
EXTENDS Integers, FiniteSets, SequencesExt

\* SymbolInTable::type_t, whose order is that of the table.
TYPE_NULL == 0
TYPE_SECTION == 1
TYPE_PLT == 2
TYPE_LOCAL == 3
TYPE_UNDEF == 4
TYPE_GLOBAL == 5

ShndxNumber(n) == [by |-> "number", n |-> n, section |-> ""]
ShndxOfSection(s) == [by |-> "indexOf", n |-> 0, section |-> s]
ShndxOfSymbol(s) == [by |-> "indexOfSectionSymbol", n |-> 0, section |-> s]
SHN_UNDEF == ShndxNumber(0)

EmptyTable == [list |-> << >>, index |-> << >>, firstGlobalIndex |-> 0,
               sectionSymbols |-> << >>]

-----------------------------------------------------------------------------
\* SymbolInTable::operator <.  The null symbol is alone with its type.
KeyLess(a, b) ==
  \E i \in 1..4 : a[i] < b[i] /\ \A j \in 1..i - 1 : a[j] = b[j]

contains(t, key) == \E i \in 1..Len(t.list) : t.list[i].key = key

\* The symbol with the key, by the number it was given when it was made.
find(t, key) ==
  t.list[CHOOSE i \in 1..Len(t.list) : t.list[i].key = key].id

indexOf(t, id) == IF id \in DOMAIN t.index THEN t.index[id] ELSE -1

Indices(list) ==
  [id \in {list[i].id : i \in 1..Len(list)} |->
     (CHOOSE i \in 1..Len(list) : list[i].id = id) - 1]

\* Mutant: nothing to do, insertAt has entered every symbol.
KeepIndices(t) == t

recalculateIndices(t) == [t EXCEPT !.index = Indices(t.list)]

\* DeferredListMapDecorator::insertSorted and DeferredListIndexDecorator::
\* insertAt: std::upper_bound finds the place.
insertSorted(t, entry) ==
  LET at == Cardinality({i \in 1..Len(t.list) : ~KeyLess(entry.key, t.list[i].key)})
  IN IF contains(t, entry.key) THEN t
     ELSE [t EXCEPT !.list = InsertAt(@, at + 1, entry),
                    !.index = [id \in DOMAIN @ \cup {entry.id} |->
                                 IF id = entry.id THEN at ELSE @[id]]]

\* A new symbol, after the numbers that are given out.
NewEntry(t, type, name, section, bind, value, shndx) ==
  [id |-> Len(t.list) + 1, key |-> <<0, type, name, section>>, name |-> name,
   bind |-> bind, value |-> value, shndx |-> shndx]

\* Mutant: the count of local symbols is kept for section symbols only.
CountSections(t, entry) ==
  LET n == insertSorted(t, entry)
  IN IF entry.key[2] \in {TYPE_NULL, TYPE_SECTION}
     THEN [n EXCEPT !.firstGlobalIndex = @ + 1] ELSE n

\* What every add... function ends with.
AddEntry(t, entry) ==
  LET n == insertSorted(t, entry)
  IN IF entry.key[2] < TYPE_UNDEF THEN [n EXCEPT !.firstGlobalIndex = @ + 1] ELSE n

addNullSymbol(t) ==
  AddEntry(t, NewEntry(t, TYPE_NULL, 0, 0, "LOCAL", 0, SHN_UNDEF))

addSectionSymbol(t, section) ==
  LET e == NewEntry(t, TYPE_SECTION, 0, section, "LOCAL", 0, ShndxNumber(section))
  IN [AddEntry(t, e) EXCEPT !.sectionSymbols =
        [i \in DOMAIN @ \cup {section} |-> IF i = section THEN e.id ELSE @[i]]]

\* addSymbol for a Function or, when it has none, for a symbol that is
\* undefined; addDataVarSymbol and addGlobalVarSymbol.  A symbol with the same
\* key is taken for the same symbol.
TypeFor(sym, defined) ==
  CASE sym.bind = "LOCAL" -> TYPE_LOCAL
    [] sym.bind # "LOCAL" /\ defined -> TYPE_GLOBAL
    [] OTHER -> TYPE_UNDEF

KeyFor(sym, defined) == <<0, TypeFor(sym, defined), sym.name, sym.section>>

AddUnlessThere(t, sym, defined, value, shndx) ==
  IF contains(t, KeyFor(sym, defined)) THEN t
  ELSE AddEntry(t, NewEntry(t, TypeFor(sym, defined), sym.name, sym.section,
                            sym.bind, value, shndx))

\* addFunction on what addSymbol returns: st_shndx is that of a section.
WithShndx(t, key, shndx) ==
  [t EXCEPT !.list = [i \in 1..Len(@) |->
     IF @[i].key = key THEN [@[i] EXCEPT !.shndx = shndx] ELSE @[i]]]

addSymbol(t, sym, address) == AddUnlessThere(t, sym, TRUE, address, SHN_UNDEF)

addDataVarSymbol(t, sym, address, section) ==
  AddUnlessThere(t, sym, TRUE, address, ShndxNumber(section))

addGlobalVarSymbol(t, sym, address) ==
  AddUnlessThere(t, sym, TRUE, address, SHN_UNDEF)

addUndefinedSymbol(t, sym) == AddUnlessThere(t, sym, FALSE, 0, SHN_UNDEF)

-----------------------------------------------------------------------------
\* The table is emptied and filled again with the names at other tableIndexes.
Rekeyed(t, tableIndex) ==
  LET rekey(e) == IF e.name \in DOMAIN tableIndex
                  THEN [e EXCEPT !.key[1] = tableIndex[e.name]] ELSE e
      empty == [t EXCEPT !.list = << >>, !.index = << >>]
  IN FoldLeft(LAMBDA u, e : insertSorted(u, rekey(e)), empty, t.list)
=============================================================================
