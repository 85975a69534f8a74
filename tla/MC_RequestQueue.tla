-------------------------- MODULE MC_RequestQueue --------------------------
EXTENDS RequestQueue, TLC

\* The tasks are interchangeable; no property of a run with this symmetry is
\* a liveness property.
TaskSymmetry == Permutations(Task)
=============================================================================
