--------------------------- MODULE MCChunkMutator ---------------------------
(* ChunkMutator on a Function with two Instructions in one Block, and new   *)
(* Blocks and Instructions to work with, which are interchangeable.         *)
EXTENDS ChunkMutator, TLC

CONSTANTS f, b1, b2, b3, i1, i2, i3, i4

MCInitialCode == <<i1, i2>>
MCInstrSize == [x \in Instrs |-> IF x = i2 THEN 2 ELSE 1]
MCSymmetry == Permutations({b2, b3}) \cup Permutations({i3, i4})

-----------------------------------------------------------------------------
Editor == INSTANCE CodeEditor
            WITH Items <- Instrs, Labels <- Instrs,
                 code <- Stream(tree, sem), lands <- sem

\* Every single step of ChunkMutator, also an iteration in the middle of a
\* call, edits the Function's code as CodeEditor allows: no code is lost,
\* doubled or reordered by pointer updates, splits and swaps of semantics, and
\* no jump into the code lands elsewhere than before, except the jump that
\* insertBeforeJumpTo is asked to intercept.
EditsCode == Editor!Spec
=============================================================================
