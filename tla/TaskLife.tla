------------------------------ MODULE TaskLife ------------------------------
(***************************************************************************)
(* What the task table and the scheduler promise to the rest of the kernel *)
(* (kernel/sched.c, fork.c, exit.c): one processor, a table of tasks, and  *)
(* a life cycle for each of them.                                          *)
(*                                                                         *)
(*   free --fork--> ready <--sleep/wake--> asleep                          *)
(*                  ready --exit--> zombie --waitpid--> free               *)
(*                                                                         *)
(* A task gives up the processor only by a dispatch, and a dispatch picks  *)
(* a ready task whenever there is one.  Only the running task sleeps, forks *)
(* or exits; others are only ever woken.                                   *)
(*                                                                         *)
(* The promise ends with the first reaped child: the task that reaps it is *)
(* inside release(), which cannot return, so from then on the kernel is    *)
(* doomed (see Sched).                                                     *)
(***************************************************************************)

CONSTANTS Task,     \* the tasks that can be scheduled (slots 1..)
          Idle      \* task 0, which runs when no other task can; not in Task

VARIABLES life,     \* the place of each task in its life cycle
          current,  \* the task that holds the processor
          doomed    \* a child has been reaped

lifeVars == <<life, current, doomed>>

Stage == {"free", "ready", "asleep", "zombie"}

LifeTypeOK == /\ life \in [Task -> Stage]
              /\ current \in Task \cup {Idle}
              /\ doomed \in BOOLEAN

LifeInit == /\ life \in [Task -> Stage]
            /\ current = Idle
            /\ doomed = FALSE

\* Every task outside S keeps its place, except that sleepers may be woken.
OnlyWakes(S) ==
    /\ life' \in [Task -> Stage]
    /\ \A t \in Task \ S : \/ life'[t] = life[t]
                           \/ life[t] = "asleep" /\ life'[t] = "ready"

\* The processor goes to a task that is ready afterwards, or to the idle
\* task when there is none.
Dispatch == \/ /\ current' \in Task
               /\ life'[current'] = "ready"
            \/ /\ current' = Idle
               /\ \A t \in Task : life'[t] # "ready"

\* An interrupt wakes sleepers and goes back to what it interrupted.
Interrupt == OnlyWakes({}) /\ UNCHANGED <<current, doomed>>

\* The running task's time slice is used up.
Preempt == OnlyWakes({}) /\ Dispatch /\ UNCHANGED doomed

\* The running task goes to sleep, unless what it waits for has come already.
Block == /\ current \in Task
         /\ life[current] = "ready"
         /\ life'[current] \in {"asleep", "ready"}
         /\ OnlyWakes({current})
         /\ Dispatch
         /\ UNCHANGED doomed

\* The running task creates another one.
Spawn == \E t \in Task :
            /\ life[t] = "free"
            /\ life'[t] = "ready"
            /\ OnlyWakes({t})
            /\ UNCHANGED <<current, doomed>>

\* The running task exits: a zombie, or gone at once when it has no father.
Finish == /\ current \in Task
          /\ life[current] = "ready"
          /\ life'[current] \in {"zombie", "free"}
          /\ OnlyWakes({current})
          /\ Dispatch
          /\ UNCHANGED doomed

\* The running task takes a zombie out of the table.
Reap == \E t \in Task :
            /\ current \in Task \ {t}
            /\ life[t] = "zombie"
            /\ life'[t] = "free"
            /\ OnlyWakes({t})
            /\ Dispatch
            /\ doomed' = TRUE

\* Nothing is promised once the kernel is doomed, but it stays doomed.
Doom == doomed /\ doomed'

LifeNext == \/ /\ ~doomed
               /\ \/ Interrupt \/ Preempt \/ Block
                  \/ Spawn \/ Finish \/ Reap
            \/ Doom

LifeSpec == LifeInit /\ [][LifeNext]_lifeVars

=============================================================================
