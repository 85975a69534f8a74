--------------------------- MODULE PrivateMemory ---------------------------
(***************************************************************************)
(* What mm/memory.c and fork() promise to user programs: every task has a  *)
(* memory of its own.  A new task starts with a copy of its father's; from *)
(* then on nothing but the task's own writes changes it.                   *)
(***************************************************************************)
CONSTANTS Task, VPage, Value,
          Image,    \* what the first task finds in its memory
          None      \* the memory of a task that is not running

VARIABLE mem        \* mem[t][v]: what task t finds in page v

PrivateInit == mem = [t \in Task |-> None]

Boot(t) == mem[t] = None /\ mem' = [mem EXCEPT ![t] = Image]

Clone(t, u) == /\ mem[t] # None /\ mem[u] = None
               /\ mem' = [mem EXCEPT ![u] = mem[t]]

Store(t, v, x) == /\ mem[t] # None
                  /\ mem' = [mem EXCEPT ![t][v] = x]

Quit(t) == mem[t] # None /\ mem' = [mem EXCEPT ![t] = None]

PrivateNext == \E t \in Task :
    \/ Boot(t)
    \/ \E u \in Task : Clone(t, u)
    \/ \E v \in VPage, x \in Value : Store(t, v, x)
    \/ Quit(t)

PrivateSpec == PrivateInit /\ [][PrivateNext]_mem
=============================================================================
