--------------------------- MODULE MCMutatorModes ---------------------------
(* ChunkMutator in the modes of the PositionFactory: every behaviour is one  *)
(* of a process that has set one of them.  OFFSET is the default.            *)
EXTENDS Naturals

CONSTANTS
  f, b1, b2, b3, i1, i2, i3,
  Function, Blocks, Instrs, NULL, InitialBlock,
  MaxSize, Bases, MaxList, MaxCalls, NullPoints

VARIABLES mode, tree, size, pos, sem, owner, mut, todo, goal, calls

InitialCode == <<i1, i2>>
InstrSize == [x \in Instrs |-> IF x = i2 THEN 2 ELSE 1]

\* In the modes that are not the default the first of several children is not
\* removed, and in the cached ones addresses are not assigned after the passes:
\* a cache is not brought up to date by it.
Offset ==
  INSTANCE ChunkMutator WITH Mode <- "OFFSET", Assigning <- TRUE, FirstGoes <- TRUE
Subsequent ==
  INSTANCE ChunkMutator WITH Mode <- "SUBSEQUENT", Assigning <- TRUE, FirstGoes <- FALSE
CachedSubsequent ==
  INSTANCE ChunkMutator
    WITH Mode <- "CACHED_SUBSEQUENT", Assigning <- FALSE, FirstGoes <- FALSE
CachedOffset ==
  INSTANCE ChunkMutator
    WITH Mode <- "CACHED_OFFSET", Assigning <- FALSE, FirstGoes <- FALSE

ModesInit ==
  \/ mode = "OFFSET" /\ Offset!Init
  \/ mode = "SUBSEQUENT" /\ Subsequent!Init
  \/ mode = "CACHED_SUBSEQUENT" /\ CachedSubsequent!Init
  \/ mode = "CACHED_OFFSET" /\ CachedOffset!Init

ModesNext ==
  /\ UNCHANGED mode
  /\ \/ mode = "OFFSET" /\ Offset!Next
     \/ mode = "SUBSEQUENT" /\ Subsequent!Next
     \/ mode = "CACHED_SUBSEQUENT" /\ CachedSubsequent!Next
     \/ mode = "CACHED_OFFSET" /\ CachedOffset!Next

ModesSpec == ModesInit /\ [][ModesNext]_<<Subsequent!vars, mode>>

-----------------------------------------------------------------------------
\* Sizes are always the sums of the children's, and whenever no mutator is
\* alive the address of every chunk is the Function's
\* address plus the sizes of the code in front of it, in each of the modes
\* (updatePositions in the destructor, mutator.cpp:454).
AddressIntegrity == Subsequent!AddressIntegrity
=============================================================================
