----------------------------- MODULE WaitQueue -----------------------------
(***************************************************************************)
(* A lock with its queue of sleepers: sleep_on() and wake_up() of          *)
(* kernel/sched.c and the three objects locked with them, the buffer       *)
(* (lock_buffer(), unlock_buffer(), wait_on_buffer()), the inode and the   *)
(* super block.  The three are the same code.                              *)
(*                                                                         *)
(* The queue has no nodes.  Its head points to the last task that went to  *)
(* sleep, and each sleeper keeps the head it found in the local variable   *)
(* tmp of its sleep_on().                                                  *)
(*                                                                         *)
(* A task runs without preemption from its dispatch to its next sleep, and *)
(* interrupts are off meanwhile (cli()), so that stretch is one action.    *)
(* Which runnable task is dispatched next is left open.  The unlocking     *)
(* comes from an interrupt (end_request()) or from the task that locked.   *)
(***************************************************************************)
CONSTANTS
    Task,       \* the tasks that use the object, task 0 not among them
    NULL        \* a null pointer

ASSUME WaitQueueAssumption == Task # {} /\ NULL \notin Task

VARIABLES
    lock,       \* b_lock, i_lock or s_lock
    wait,       \* b_wait, i_wait or s_wait: the head of the queue
    state,      \* the state of each task
    tmp,        \* the local variable of sleep_on()
    call,       \* the call a task is inside of: it has slept and not yet left
    owners,     \* tasks whose lock has not been undone yet
    calm        \* TRUE until a step disturbs the queue (a history variable)

vars == <<lock, wait, state, tmp, call, owners, calm>>

-----------------------------------------------------------------------------
MutAsleep == "INTERRUPTIBLE"    \* as interruptible_sleep_on()
Asleep == "UNINTERRUPTIBLE"

\* The states after a wake-up of t, which may be NULL.
Ready(t) == IF t = NULL THEN state ELSE [state EXCEPT ![t] = "RUNNING"]

\* sleep_on() up to its schedule(), with the head and the states it finds.
MutSleepOn(t, head, st) ==      \* the head is read after it was set
    /\ wait' = t
    /\ tmp' = [tmp EXCEPT ![t] = t]
    /\ state' = [st EXCEPT ![t] = Asleep]
MutSleepOnly(t, head, st) ==    \* the head is not kept
    /\ wait' = t
    /\ tmp' = [tmp EXCEPT ![t] = NULL]
    /\ state' = [st EXCEPT ![t] = Asleep]
SleepOn(t, head, st) ==
    /\ wait' = t
    /\ tmp' = [tmp EXCEPT ![t] = head]
    /\ state' = [st EXCEPT ![t] = Asleep]

\* What a task does once it finds the object unlocked.
Leave(t, what) ==
    /\ call' = [call EXCEPT ![t] = "none"]
    /\ IF what = "lock"
       THEN lock' = TRUE /\ owners' = owners \cup {t}
       ELSE UNCHANGED <<lock, owners>>

\* The loop `while (lock) sleep_on(&wait)`, from its test on.
Loop(t, what, head, st) ==
    \/ /\ lock
       /\ SleepOn(t, head, st)
       /\ call' = [call EXCEPT ![t] = what]
       /\ UNCHANGED <<lock, owners>>
    \/ /\ ~lock
       /\ Leave(t, what)
       /\ wait' = head
       /\ state' = st
       /\ UNCHANGED tmp

\* wait_on_buffer(), wait_on_inode(), wait_on_supper() when what is "wait",
\* lock_buffer(), lock_inode(), lock_super() when it is "lock".
Call(t, what) ==
    /\ state[t] = "RUNNING" /\ call[t] = "none"
    /\ Loop(t, what, wait, state)

\* A sleeper is dispatched: the rest of sleep_on() restores the head it kept
\* and wakes the task it points to, and the loop goes on.
MutResume(t) ==                 \* `if (lock)` for `while (lock)`
    /\ state[t] = "RUNNING" /\ call[t] # "none"
    /\ Leave(t, call[t])
    /\ wait' = tmp[t]
    /\ state' = Ready(tmp[t])
    /\ UNCHANGED tmp
MutResumeAlone(t) ==            \* the one behind is not woken
    /\ state[t] = "RUNNING" /\ call[t] # "none"
    /\ Loop(t, call[t], tmp[t], state)
Resume(t) ==
    /\ state[t] = "RUNNING" /\ call[t] # "none"
    /\ Loop(t, call[t], tmp[t], Ready(tmp[t]))

\* unlock_buffer(), unlock_inode(), free_super(): the lock is undone and
\* wake_up() wakes the head and forgets it.
Unlock(t) ==
    /\ t \in owners
    /\ owners' = owners \ {t}
    /\ lock' = FALSE
    /\ state' = Ready(wait)
    /\ wait' = NULL
    /\ UNCHANGED <<tmp, call>>

\* do_exit() of a task that is not in the kernel; a request it has started
\* may be unfinished.
Exit(t) ==
    /\ state[t] = "RUNNING" /\ call[t] = "none"
    /\ state' = [state EXCEPT ![t] = "ZOMBIE"]
    /\ UNCHANGED <<lock, wait, tmp, call, owners>>

Init ==
    /\ lock = FALSE
    /\ wait = NULL
    /\ state = [t \in Task |-> "RUNNING"]
    /\ tmp = [t \in Task |-> NULL]
    /\ call = [t \in Task |-> "none"]
    /\ owners = {}
    /\ calm = TRUE

\* A calm queue: the object is only locked when nobody has slept on it and
\* not yet left, and whoever finds it locked only waits for it.  This is what
\* the queue is good for; nothing in the kernel enforces it.
Inside == {t \in Task : call[t] # "none"}

Calm ==
    /\ Inside = {} \/ owners' \subseteq owners
    /\ \A t \in Task : call'[t] # "lock"

Step ==
    \E t \in Task :
        \/ \E what \in {"wait", "lock"} : Call(t, what)
        \/ Resume(t)
        \/ Unlock(t)
        \/ Exit(t)

Observe == calm' = (calm /\ Calm)

Next == Step /\ Observe

Spec == Init /\ [][Next]_vars

-----------------------------------------------------------------------------
\* Type correctness.
TypeOK ==
    /\ lock \in BOOLEAN
    /\ wait \in Task \cup {NULL}
    /\ state \in [Task -> {"RUNNING", "UNINTERRUPTIBLE", "ZOMBIE"}]
    /\ tmp \in [Task -> Task \cup {NULL}]
    /\ call \in [Task -> {"none", "wait", "lock"}]
    /\ owners \subseteq Task

\* Of all the tasks that race for the object, woken together or passing by,
\* at most one has locked it, and it is locked only if one has.
OneOwner ==
    /\ \A t, u \in owners : t = u
    /\ lock <=> owners # {}

\* When the object is unlocked, the head of its queue is no sleeper: whoever
\* slept last has been woken, however the queue was mixed up before.
HeadAwake == ~lock /\ wait # NULL => state[wait] # Asleep

\* A sleeper will be found: it is the head, or another task that has not left
\* its sleep_on() will wake it.  A calm queue never forgets one.
SleepersFound ==
    \A t \in Task : state[t] = Asleep =>
        t = wait \/ \E u \in Inside \ {t} : tmp[u] = t

NoLostSleeper == calm => SleepersFound

\* Only tasks inside a calm queue are made runnable by it.
OnlySleepersWoken ==
    [][calm' => \A t \in Task : state'[t] = "RUNNING" => state[t] = "RUNNING" \/ t \in Inside]_vars

(***************************************************************************)
(* Liveness.  A woken task is dispatched (Sched's NoStarvation), and a lock *)
(* is undone: by the interrupt that ends the request, or by the owner.     *)
(***************************************************************************)
Fairness == \A t \in Task : WF_vars(Resume(t) /\ Observe)
                               /\ WF_vars(Unlock(t) /\ Observe)

FairSpec == Spec /\ Fairness

\* buffer.c:48 says that when the buffer is unlocked all tasks in its queue
\* are woken: whoever sleeps on the object gets out of its sleep.
SleepersWoken == \A t \in Task : state[t] = Asleep ~> state[t] = "RUNNING"

\* And whoever waits for the object gets past it, as long as it is calm.
WaitersLeave == \A t \in Task : t \in Inside ~> t \notin Inside \/ ~calm
=============================================================================
