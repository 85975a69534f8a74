--------------------------- MODULE MC_BufferCache ---------------------------
EXTENDS BufferCache, TLC

\* The tasks are interchangeable, and so are the blocks that nobody changes.
Symmetry == {p @@ q : p \in Permutations(Task), q \in Permutations(Block \ Changed)}
=============================================================================
