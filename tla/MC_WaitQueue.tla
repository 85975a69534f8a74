---------------------------- MODULE MC_WaitQueue ----------------------------
EXTENDS WaitQueue, TLC

\* The tasks are interchangeable.
TaskSymmetry == Permutations(Task)
=============================================================================
