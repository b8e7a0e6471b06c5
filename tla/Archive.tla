------------------------------ MODULE Archive ------------------------------
(***************************************************************************)
(* Saving a Chunk tree in an Egalito archive and reading it back.  The     *)
(* serializer gives every chunk it meets an ID, in the order in which the  *)
(* serialize() methods of the chunks mention them, and makes a FlatChunk   *)
(* for every chunk of the tree; the IDs are indices in the FlatChunkList.  *)
(* A FlatChunk's data is represented by the IDs in it.  Reading makes an   *)
(* object for every FlatChunk and then calls its deserialize(), last ID    *)
(* first.                                                                  *)
(***************************************************************************)
EXTENDS Naturals, Sequences, SequencesExt

CONSTANTS Trees,    \* the Chunk trees that may be saved
          Beyond    \* the bytes that may follow the encode table in memory

\* enum EgalitoChunkType
Types == <<"UNKNOWN", "Program", "Module", "FunctionList", "PLTList",
  "JumpTableList", "DataRegionList", "InitFunctionList", "ExternalSymbolList",
  "LibraryList", "VTableList", "Function", "Block", "Instruction",
  "PLTTrampoline", "JumpTable", "JumpTableEntry", "DataRegion",
  "TLSDataRegion", "DataSection", "DataVariable", "GlobalVariable",
  "MarkerList", "Marker", "VTable", "VTableEntry", "InitFunction",
  "ExternalSymbol", "Library">>

TypeNumber(name) == CHOOSE n \in 1..Len(Types) : Types[n] = name

\* What the bytes of the encode table stand for in decodeChunkType, in the
\* order of the table, which encodeChunkType indexes by type.
Encode == <<"?", "P", "M", "F", "Z", "T", "R", "S", "L", "Q", "f", "b", "i",
  "z", "J", "j", "D", ":", "d", "v", "A", "a", "V", "p", "s", "l">>

Decode ==
  [c \in ToSet(Encode) |->
     CASE c = "?" -> "UNKNOWN"        [] c = "P" -> "Program"
       [] c = "M" -> "Module"         [] c = "F" -> "FunctionList"
       [] c = "Z" -> "PLTList"        [] c = "T" -> "JumpTableList"
       [] c = "R" -> "DataRegionList" [] c = "S" -> "ExternalSymbolList"
       [] c = "L" -> "LibraryList"    [] c = "Q" -> "VTableList"
       [] c = "f" -> "Function"       [] c = "b" -> "Block"
       [] c = "i" -> "Instruction"    [] c = "z" -> "PLTTrampoline"
       [] c = "J" -> "JumpTable"      [] c = "j" -> "JumpTableEntry"
       [] c = "D" -> "DataRegion"     [] c = ":" -> "TLSDataRegion"
       [] c = "d" -> "DataSection"    [] c = "v" -> "DataVariable"
       [] c = "A" -> "MarkerList"     [] c = "a" -> "Marker"
       [] c = "V" -> "VTable"         [] c = "p" -> "VTableEntry"
       [] c = "s" -> "ExternalSymbol" [] c = "l" -> "Library"]

\* The table of constructors in ChunkSerializer::instantiate.
Constructor == <<"null", "Program", "Module", "FunctionList", "PLTList",
  "JumpTableList", "DataRegionList", "ExternalSymbolList", "LibraryList",
  "VTableList", "Function", "Block", "Instruction", "PLTTrampoline",
  "JumpTable", "JumpTableEntry", "DataRegion", "TLSDataRegion", "DataSection",
  "DataVariable", "null", "null", "VTable", "VTableEntry", "ExternalSymbol",
  "Library">>

encodeChunkType(name, beyond) ==
  LET n == TypeNumber(name) IN IF n <= Len(Encode) THEN Encode[n] ELSE beyond

decodeChunkType(byte) ==
  IF byte \in DOMAIN Decode THEN Decode[byte] ELSE "UNKNOWN"

-----------------------------------------------------------------------------
(***************************************************************************)
(* A tree t has chunks DOMAIN t.type, of which t.root is saved.  t.kids    *)
(* are the child lists, t.own the parts a chunk saves with serialize(),    *)
(* t.refs and t.late the chunks it refers to before and after its          *)
(* children, in the order of the code; nullptr is None.                    *)
(***************************************************************************)
None == "nullptr"

VARIABLES
  tree, beyond,
  flats,        \* FlatChunkList::flatList: ID i at index i + 1
  nextID,
  assignment,   \* ArchiveIDOperations::assignment
  stack,        \* the serialize() calls under way, innermost last
  status,       \* what ChunkSerializer is doing
  file,         \* the archive on disk
  back,         \* the FlatChunkList read from it
  done          \* the chunks deserialized so far, in order

vars == <<tree, beyond, flats, nextID, assignment, stack, status, file, back, done>>

NoFlat == [type |-> "none", id |-> 0, data |-> << >>]
NoneID == 99   \* FlatChunk::NoneID, which no chunk is given

local == tree.type[tree.root] = "Module"

Parent(c) == LET up == {p \in DOMAIN tree.kids : c \in ToSet(tree.kids[p])}
             IN  IF up = {} THEN None ELSE CHOOSE p \in up : TRUE

PrevOrParent(c) ==
  LET s == tree.kids[Parent(c)]
      i == CHOOSE i \in 1..Len(s) : s[i] = c
  IN  IF i = 1 THEN Parent(c) ELSE s[i - 1]

\* One thing that a serialize() method does: mention a chunk (Ref), save a
\* part of its own (Own), save its children (Kids), note two levels of
\* children (Ids), save a chunk under the ID it has (Save).
Step(do, c) == [do |-> do, chunk |-> c]
Each(do, s) == [i \in 1..Len(s) |-> Step(do, s[i])]
Refs(s)     == Each("Ref", s)
Kids(c)     == <<Step("Kids", c)>>

\* The serialize() methods of the Chunk classes.
ProgramScript(c) == Each("Own", tree.own[c]) \o Kids(c) \o Refs(tree.late[c])

ModuleScript(c) ==
  Refs(tree.refs[c]) \o Each("Own", tree.own[c])
    \o (IF local /\ tree.refs[c] # <<None>> THEN Each("Save", tree.refs[c]) ELSE << >>)

FunctionScript(c) ==
  LET links(b) == FlattenSeq([j \in 1..Len(tree.kids[b]) |->
                                Refs(tree.refs[tree.kids[b][j]])])
  IN  <<Step("Ids", c)>> \o FlattenSeq([i \in 1..Len(tree.kids[c]) |->
                                          links(tree.kids[c][i])])

BlockScript(c) == Refs(<<PrevOrParent(c)>>) \o Kids(c)
InstructionScript(c) == Refs(<<PrevOrParent(c)>>) \o Refs(tree.refs[c])

DataVariableScript(c) ==
  Refs(<<Parent(c)>>) \o (IF local THEN << >> ELSE Refs(tree.refs[c]))

ExternalSymbolScript(c) == IF local THEN Refs(<<None, None>>) ELSE Refs(tree.refs[c])
LibraryScript(c) == Refs(tree.refs[c])
JumpTableEntryScript(c) == Refs(tree.refs[c])
JumpTableScript(c) == Refs(tree.refs[c]) \o Kids(c) \o Refs(tree.late[c])
PLTTrampolineScript(c) == Refs(tree.refs[c]) \o Kids(c)
InitFunctionScript(c) == Refs(tree.refs[c]) \o Kids(c)
InitFunctionListScript(c) == Refs(tree.refs[c]) \o Kids(c)
DataRegionListScript(c) == Refs(tree.refs[c]) \o Kids(c)

Script(c) ==
  LET type == tree.type[c]
  IN  CASE type = "Program" -> ProgramScript(c)
        [] type = "Module" -> ModuleScript(c)
        [] type = "Function" -> FunctionScript(c)
        [] type = "Block" -> BlockScript(c)
        [] type = "Instruction" -> InstructionScript(c)
        [] type = "DataVariable" -> DataVariableScript(c)
        [] type = "ExternalSymbol" -> ExternalSymbolScript(c)
        [] type = "Library" -> LibraryScript(c)
        [] type = "JumpTableEntry" -> JumpTableEntryScript(c)
        [] type = "JumpTable" -> JumpTableScript(c)
        [] type = "PLTTrampoline" -> PLTTrampolineScript(c)
        [] type = "InitFunction" -> InitFunctionScript(c)
        [] type = "InitFunctionList" -> InitFunctionListScript(c)
        [] type = "DataRegionList" -> DataRegionListScript(c)
        [] OTHER -> Kids(c)

\* InitFunctions are leaves: their getChildren() is null.
HasChildren(c) == tree.type[c] # "InitFunction"

-----------------------------------------------------------------------------
\* FlatChunkList::addFlatChunk
AddFlat(s, flat) ==
  LET n == IF Len(s) < flat.id + 1 THEN flat.id + 1 ELSE Len(s)
  IN  [i \in 1..n |-> IF i = flat.id + 1 THEN flat
                      ELSE IF i <= Len(s) THEN s[i] ELSE NoFlat]

\* ArchiveIDOperations::assign for the chunks of s, in order.
AssignAll(a, s) ==
  LET step(acc, c) ==
        IF c = None \/ acc.ids[c] # NoneID THEN acc
        ELSE [ids |-> [acc.ids EXCEPT ![c] = acc.next], next |-> acc.next + 1]
  IN  FoldLeft(step, a, s)

Assigned(s) == AssignAll([ids |-> assignment, next |-> nextID], s)
ID(a, c) == IF c = None THEN NoneID ELSE a.ids[c]

Top == stack[Len(stack)]
Doing(do) == status = "serialize" /\ stack # << >> /\ Top.todo # << >>
             /\ Head(Top.todo).do = do

\* The IDs ids are written to the FlatChunk of the innermost serialize().
Wrote(s, ids) == [s EXCEPT ![Top.id + 1].data = @ \o ids]

\* The innermost serialize() goes on with todo.
GoOn(todo) == [stack EXCEPT ![Len(stack)].todo = todo]

Call(c, id) == [chunk |-> c, id |-> id, todo |-> Script(c)]

NewFlat(c, id) == [type |-> tree.type[c], id |-> id, data |-> << >>]

Keep == UNCHANGED <<tree, beyond, file, back, done>>

\* writer.writeID(op.assign(c))
Ref ==
  LET c == Head(Top.todo).chunk
      a == Assigned(<<c>>)
  IN  /\ Doing("Ref")
      /\ assignment' = a.ids /\ nextID' = a.next
      /\ flats' = Wrote(flats, <<ID(a, c)>>)
      /\ stack' = GoOn(Tail(Top.todo))
      /\ UNCHANGED status /\ Keep

\* ChunkSerializerOperations::serialize(chunk): a new ID, which is not noted
\* in the assignment, or NoneID for a list that is not there.
Own ==
  LET c == Head(Top.todo).chunk
  IN  /\ Doing("Own")
      /\ IF c = None
         THEN /\ flats' = Wrote(flats, <<NoneID>>)
              /\ stack' = GoOn(Tail(Top.todo))
              /\ UNCHANGED nextID
         ELSE /\ flats' = AddFlat(Wrote(flats, <<nextID>>), NewFlat(c, nextID))
              /\ stack' = Append(GoOn(Tail(Top.todo)), Call(c, nextID))
              /\ nextID' = nextID + 1
      /\ UNCHANGED <<assignment, status>> /\ Keep

\* Mutant: the ID of a child that was mentioned before is not written again.
SerializeChildrenNew ==
  LET s == tree.kids[Head(Top.todo).chunk]
      a == Assigned(s)
      new == SelectSeq(s, LAMBDA c : assignment[c] = NoneID)
  IN  /\ Doing("Kids") /\ HasChildren(Head(Top.todo).chunk)
      /\ assignment' = a.ids /\ nextID' = a.next
      /\ flats' = Wrote(flats, [i \in 1..Len(new) |-> a.ids[new[i]]])
      /\ stack' = GoOn(Each("Save", s) \o Tail(Top.todo))
      /\ UNCHANGED status /\ Keep

\* serializeChildren: first the IDs of all children, then the children.
SerializeChildren ==
  LET s == tree.kids[Head(Top.todo).chunk]
      a == Assigned(s)
  IN  /\ Doing("Kids") /\ HasChildren(Head(Top.todo).chunk)
      /\ assignment' = a.ids /\ nextID' = a.next
      /\ flats' = Wrote(flats, [i \in 1..Len(s) |-> a.ids[s[i]]])
      /\ stack' = GoOn(Each("Save", s) \o Tail(Top.todo))
      /\ UNCHANGED status /\ Keep

\* genericGetSize() through a null pointer.
NoChildList ==
  /\ Doing("Kids") /\ ~HasChildren(Head(Top.todo).chunk)
  /\ status' = "no child list"
  /\ UNCHANGED <<flats, nextID, assignment, stack>> /\ Keep

\* serializeChildrenIDsOnly with two levels: the Blocks, then the
\* Instructions of each; their FlatChunks stay empty.
SerializeIDsOnly ==
  LET blocks == tree.kids[Head(Top.todo).chunk]
      all == blocks \o FlattenSeq([i \in 1..Len(blocks) |-> tree.kids[blocks[i]]])
      a == Assigned(all)
  IN  /\ Doing("Ids")
      /\ assignment' = a.ids /\ nextID' = a.next
      /\ flats' = FoldLeft(LAMBDA s, c : AddFlat(s, NewFlat(c, a.ids[c])),
                           Wrote(flats, [i \in 1..Len(all) |-> a.ids[all[i]]]), all)
      /\ stack' = GoOn(Tail(Top.todo))
      /\ UNCHANGED status /\ Keep

\* ChunkSerializerOperations::serialize(chunk, id)
Save ==
  LET c == Head(Top.todo).chunk
      id == assignment[c]
  IN  /\ Doing("Save")
      /\ flats' = AddFlat(flats, NewFlat(c, id))
      /\ stack' = Append(GoOn(Tail(Top.todo)), Call(c, id))
      /\ UNCHANGED <<nextID, assignment, status>> /\ Keep

SerializeReturns ==
  /\ status = "serialize" /\ stack # << >> /\ Top.todo = << >>
  /\ stack' = Front(stack)
  /\ UNCHANGED <<flats, nextID, assignment, status>> /\ Keep

\* ChunkSerializer::serialize makes sure that the list has no gaps.
Check ==
  /\ status = "serialize" /\ stack = << >>
  /\ status' = IF NoFlat \in ToSet(flats) THEN "errors" ELSE "write"
  /\ UNCHANGED <<flats, nextID, assignment, stack>> /\ Keep

Record(flat) == [byte |-> encodeChunkType(flat.type, beyond),
                 id |-> flat.id, data |-> flat.data]

\* EgalitoArchiveWriter::writeData; a file may be cut short afterwards.
WriteData ==
  /\ status = "write"
  /\ \E n \in {0, Len(flats) - 1, Len(flats)} :
       file' = [count |-> Len(flats), records |-> [i \in 1..n |-> Record(flats[i])]]
  /\ status' = "read"
  /\ UNCHANGED <<tree, beyond, flats, nextID, assignment, stack, back, done>>

\* EgalitoArchiveReader::read, one FlatChunk.
ReadFlatChunk ==
  LET r == file.records[Len(back) + 1]
  IN  /\ status = "read"
      /\ Len(back) < file.count /\ Len(back) < Len(file.records)
      /\ back' = AddFlat(back, [type |-> decodeChunkType(r.byte),
                                id |-> r.id, data |-> r.data])
      /\ status' = IF Len(back) + 1 = file.count THEN "instantiate" ELSE "read"
      /\ UNCHANGED <<tree, beyond, flats, nextID, assignment, stack, file, done>>

\* "unexpected EOF in archive": read() returns null, and
\* ChunkSerializer::deserialize goes on with it.
ReadFails ==
  /\ status = "read"
  /\ Len(back) < file.count /\ Len(back) = Len(file.records)
  /\ status' = "null archive"
  /\ back' = << >>
  /\ UNCHANGED <<tree, beyond, flats, nextID, assignment, stack, file, done>>

instantiate(flat) == Constructor[TypeNumber(flat.type)]

\* ChunkSerializer::instantiate for every FlatChunk, whose type becomes the
\* class of the object; a type beyond the table fails an assertion.
Instantiate ==
  /\ status = "instantiate"
  /\ IF \A i \in 1..Len(back) : TypeNumber(back[i].type) <= Len(Constructor)
     THEN /\ back' = [i \in 1..Len(back) |-> [back[i] EXCEPT !.type = instantiate(back[i])]]
          /\ status' = "deserialize"
     ELSE status' = "assertion" /\ UNCHANGED back
  /\ UNCHANGED <<tree, beyond, flats, nextID, assignment, stack, file, done>>

\* Mutant: deserialize in the order of the IDs.
DeserializeForwards ==
  /\ status = "deserialize" /\ Len(done) < Len(back)
  /\ done' = Append(done, Len(done))
  /\ UNCHANGED <<tree, beyond, flats, nextID, assignment, stack, status, file, back>>

\* ChunkSerializerOperations::deserialize is called with the last ID first.
DeserializeNext ==
  /\ status = "deserialize" /\ Len(done) < Len(back)
  /\ done' = Append(done, Len(back) - 1 - Len(done))
  /\ UNCHANGED <<tree, beyond, flats, nextID, assignment, stack, status, file, back>>

Init ==
  /\ tree \in Trees
  /\ beyond \in Beyond
  /\ flats = <<[type |-> tree.type[tree.root], id |-> 0, data |-> << >>]>>
  /\ nextID = 1
  /\ assignment = [c \in DOMAIN tree.type |-> NoneID]
  /\ stack = <<Call(tree.root, 0)>>
  /\ status = "serialize"
  /\ file = [count |-> 0, records |-> << >>]
  /\ back = << >>
  /\ done = << >>

Next ==
  \/ Ref \/ Own \/ SerializeChildren \/ NoChildList \/ SerializeIDsOnly \/ Save
  \/ SerializeReturns \/ Check \/ WriteData
  \/ ReadFlatChunk \/ ReadFails \/ Instantiate \/ DeserializeNext

Spec == Init /\ [][Next]_vars

-----------------------------------------------------------------------------
Saved == status \in {"write", "read", "instantiate", "deserialize"}

\* The IDs that a chunk's data holds, in memory and as read from the file, are
\* those of its children, in order: no later mention of a child moves it or
\* saves it under another ID (assign, serializeChildren,
\* serializeChildrenIDsOnly, EgalitoArchiveReader::read).
ChildrenByID ==
  Saved => \A c \in DOMAIN tree.kids :
    LET s == tree.kids[c]
        ids == [i \in 1..Len(s) |-> assignment[s[i]]]
        list == IF status \in {"instantiate", "deserialize"} THEN back ELSE flats
        flat == list[assignment[c] + 1]
    IN  tree.type[c] \in {"Function", "JumpTable", "DataRegion", "DataSection"}
          => /\ \A i \in 1..Len(s) : flats[ids[i] + 1].type = tree.type[s[i]]
             /\ \E k \in 0..(Len(flat.data) - Len(s)) : SubSeq(flat.data, k + 1, k + Len(s)) = ids
             /\ IsInjective(ids)

\* The objects made are of the classes that were saved: "First instantiate
\* objects, with the correct type" (ChunkSerializer::deserialize).
InstancesTyped ==
  status = "deserialize" => \A i \in 1..Len(back) : back[i].type = flats[i].type

Position(c) == IF \E k \in 1..Len(done) : done[k] = assignment[c]
               THEN CHOOSE k \in 1..Len(done) : done[k] = assignment[c] ELSE 0

\* A Function is deserialized after its Blocks and Instructions, whose own
\* FlatChunks are empty: the other way round they would lose what the
\* Function's data gave them (Function, Block and Instruction::deserialize).
FunctionAfterItsCode ==
  \A f \in DOMAIN tree.kids : tree.type[f] = "Function" =>
    \A b \in ToSet(tree.kids[f]) : \A c \in {b} \cup ToSet(tree.kids[b]) :
      Position(f) # 0 => Position(c) # 0 /\ Position(c) < Position(f)
=============================================================================
