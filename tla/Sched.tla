------------------------------- MODULE Sched -------------------------------
(***************************************************************************)
(* Tasks of the kernel: kernel/sched.c, fork.c, exit.c, the signal mask of  *)
(* signal.c, sys_sleep of sys.c, and the paths of system_call.s that lead  *)
(* from user mode into them and back.                                      *)
(*                                                                         *)
(* The kernel is not preemptive: a task in kernel mode runs until it calls *)
(* schedule(), so one action is all the code between two such calls, the   *)
(* call included.  Interrupts are the exception: a timer tick that finds   *)
(* the processor in kernel mode only counts, and a device interrupt only   *)
(* wakes.  pc[i] says where task i continues when the processor returns to *)
(* it:                                                                     *)
(*   "user"     in user mode                                               *)
(*   "ret"      a system call handler has returned (system_call.s:89)      *)
(*   "sig"      at ret_from_syscall                                        *)
(*   "dev"      in sleep_on() or interruptible_sleep_on()                  *)
(*   "wait"     in sys_waitpid(), after its schedule()                     *)
(*   "release"  in release(), after its schedule()                         *)
(*   "dead"     a zombie, after the last schedule() of do_exit()           *)
(***************************************************************************)
EXTENDS Integers, FiniteSets

CONSTANTS
    NR_TASKS,       \* slots of the task table (64 in sched.h)
    Page,           \* pages that can hold a task_struct
    NULL,           \* an empty slot
    Priority,       \* priority of every task, inherited by fork (15)
    HZ,             \* timer ticks in a second (100)
    MaxPid,         \* bound: fork is not called beyond this pid
    MaxJiffies,     \* bound: the clock stands still from here on
    AlarmSeconds,   \* arguments of alarm() and sleep(); 0 is one of them
    KillSignals,    \* signals that programs send with kill()
    Masks,          \* arguments of ssetmask() and sa_masks of signal handlers
    DeviceSleeps,   \* states in which drivers put a task to sleep
    InitExits       \* TRUE if task 1 may exit; init() in main.c never does

Slot == 0..NR_TASKS - 1
UserSlot == Slot \ {0}

SIGKILL == 9
SIGALRM == 14
SIGCHLD == 17
SIGSTOP == 19
Signal == 1..32

\* The signals for which schedule() makes a sleeping task runnable.
Blockable == Signal \ {SIGKILL, SIGSTOP}

ASSUME SchedAssumption ==
    /\ NR_TASKS \in Nat /\ NR_TASKS >= 2
    /\ Page # {} /\ NULL \notin Page
    /\ Priority \in Nat \ {0}
    /\ HZ \in Nat \ {0}
    /\ MaxPid \in Nat \ {0}
    /\ MaxJiffies \in Nat
    /\ AlarmSeconds \subseteq Nat
    /\ KillSignals \subseteq Signal
    /\ Masks \subseteq SUBSET Signal
    /\ DeviceSleeps \subseteq {"INTERRUPTIBLE", "UNINTERRUPTIBLE"}
    /\ InitExits \in BOOLEAN

VARIABLES
    task,       \* task[i]: the page of the task_struct in slot i, or NULL
                \* (slot 0 holds init_task for ever and is left out)
    state, counter, signal, blocked, alarm, pid, father,  \* its fields
    pc,         \* where the task continues
    arg,        \* in sys_waitpid(): the pid waited for, 0 for any child
                \* in release(): the slot that its loop has reached
    freed,      \* in release(): the page that was freed
    current,    \* the slot of the running task
    jiffies, last_pid,
    panicked    \* the kernel is in panic(), which never returns

taskFields == <<state, counter, signal, blocked, alarm, pid, father>>
vars == <<task, taskFields, pc, arg, freed, current, jiffies, last_pid, panicked>>

States == {"RUNNING", "INTERRUPTIBLE", "UNINTERRUPTIBLE", "ZOMBIE"}
Places == {"user", "ret", "sig", "dev", "wait", "release", "dead"}

Live == {i \in UserSlot : task[i] # NULL}

\* The running task is at this place of its code and may go on.
At(place) == ~panicked /\ pc[current] = place

-----------------------------------------------------------------------------
(***************************************************************************)
(* schedule().  Its arguments are the task table and the fields as the     *)
(* caller leaves them and the time, so that a handler and the schedule()   *)
(* it calls are one step.                                                  *)
(***************************************************************************)

MaxOf(S) == CHOOSE m \in S : \A n \in S : n <= m
MinOf(S) == CHOOSE m \in S : \A n \in S : m <= n

\* First pass: the alarms that are over become SIGALRM ...
Expired(live, al, now) == {i \in live : al[i] # 0 /\ al[i] < now}

MutRaiseAlarms(live, sg, al, now) == sg     \* the alarm is only cleared
RaiseAlarms(live, sg, al, now) ==
    [i \in Slot |-> IF i \in Expired(live, al, now) THEN sg[i] \cup {SIGALRM}
                                                    ELSE sg[i]]

ClearAlarms(live, al, now) ==
    [i \in Slot |-> IF i \in Expired(live, al, now) THEN 0 ELSE al[i]]

\* ... and a signal that is not blocked ends an interruptible sleep.
MutWakeSignalled(live, st, sg) ==           \* does not look at the state
    [i \in Slot |-> IF i \in live /\ sg[i] \cap (Blockable \ blocked[i]) # {}
                    THEN "RUNNING" ELSE st[i]]
MutWakeBlocked(live, st, sg) ==             \* the mask is not complemented
    [i \in Slot |-> IF /\ i \in live
                       /\ st[i] = "INTERRUPTIBLE"
                       /\ sg[i] \cap Blockable \cap blocked[i] # {}
                    THEN "RUNNING" ELSE st[i]]
WakeSignalled(live, st, sg) ==
    [i \in Slot |-> IF /\ i \in live
                       /\ st[i] = "INTERRUPTIBLE"
                       /\ sg[i] \cap (Blockable \ blocked[i]) # {}
                    THEN "RUNNING" ELSE st[i]]

\* Second pass: when every runnable task has used up its slice, all tasks
\* get a new one.
MutRefill(live, ready, cn) ==               \* what is left is not halved
    IF ready # {} /\ \A i \in ready : cn[i] = 0
    THEN [i \in Slot |-> IF i \in live THEN cn[i] + Priority ELSE cn[i]]
    ELSE cn
MutNoRefill(live, ready, cn) == cn          \* no new slices
Refill(live, ready, cn) ==
    IF ready # {} /\ \A i \in ready : cn[i] = 0
    THEN [i \in Slot |-> IF i \in live THEN cn[i] \div 2 + Priority ELSE cn[i]]
    ELSE cn

\* The runnable task with the largest slice left, the last slot among equals.
MutPick(ready, cn) ==                       \* the idle task is never picked
    IF ready = {} THEN 1
    ELSE MaxOf({i \in ready : \A j \in ready : cn[j] <= cn[i]})
Pick(ready, cn) ==
    IF ready = {} THEN 0
    ELSE MaxOf({i \in ready : \A j \in ready : cn[j] <= cn[i]})

Schedule(tk, st, sg, cn, al, now) ==
    LET live  == {i \in UserSlot : tk[i] # NULL}
        sg1   == RaiseAlarms(live, sg, al, now)
        st1   == WakeSignalled(live, st, sg1)
        ready == {i \in live : st1[i] = "RUNNING"}
        cn1   == Refill(live, ready, cn)
    IN  /\ signal' = sg1
        /\ alarm' = ClearAlarms(live, al, now)
        /\ state' = st1
        /\ counter' = cn1
        /\ current' = Pick(ready, cn1)

\* The running task gives up the processor in state st and continues at place.
Sleep(st, place) ==
    /\ Schedule(task, [state EXCEPT ![current] = st], signal, counter, alarm, jiffies)
    /\ pc' = [pc EXCEPT ![current] = place]

Goto(place) == pc' = [pc EXCEPT ![current] = place]

-----------------------------------------------------------------------------
(***************************************************************************)
(* System calls that sleep, set alarms and masks, and send signals.        *)
(***************************************************************************)

\* sys_pause(); task 0 does nothing else.
Pause ==
    /\ At("user")
    /\ Sleep("INTERRUPTIBLE", "ret")
    /\ UNCHANGED <<task, blocked, pid, father, arg, freed, jiffies, last_pid, panicked>>

\* The new value of alarm.  Bound: an alarm lies within the clock's range.
AlarmTime(s) == IF s > 0 THEN jiffies + HZ * s ELSE 0
InRange(s) == s > 0 => jiffies + HZ * s < MaxJiffies

\* sys_alarm()
Alarm(s) ==
    /\ At("user") /\ current # 0
    /\ InRange(s)
    /\ alarm' = [alarm EXCEPT ![current] = AlarmTime(s)]
    /\ Goto("ret")
    /\ UNCHANGED <<task, state, counter, signal, blocked, pid, father, arg, freed,
                   current, jiffies, last_pid, panicked>>

\* sys_sleep(): sys_alarm(), then as pause().
SleepFor(s) ==
    /\ At("user") /\ current # 0
    /\ InRange(s)
    /\ Schedule(task, [state EXCEPT ![current] = "INTERRUPTIBLE"], signal, counter,
                [alarm EXCEPT ![current] = AlarmTime(s)], jiffies)
    /\ Goto("ret")
    /\ UNCHANGED <<task, blocked, pid, father, arg, freed, jiffies, last_pid, panicked>>

\* sys_ssetmask(): every signal but SIGKILL can be masked.
SetMask(m) ==
    /\ At("user") /\ current # 0
    /\ blocked' = [blocked EXCEPT ![current] = m \ {SIGKILL}]
    /\ Goto("ret")
    /\ UNCHANGED <<task, state, counter, signal, alarm, pid, father, arg, freed,
                   current, jiffies, last_pid, panicked>>

\* sys_kill() for a positive pid: send_sig() to whoever has it.
Kill(p, sig) ==
    /\ At("user") /\ current # 0
    /\ signal' = [i \in Slot |-> IF i \in Live /\ pid[i] = p THEN signal[i] \cup {sig}
                                                             ELSE signal[i]]
    /\ Goto("ret")
    /\ UNCHANGED <<task, state, counter, blocked, alarm, pid, father, arg, freed,
                   current, jiffies, last_pid, panicked>>

\* A driver or the file system puts the running task to sleep until a
\* device wakes it (sleep_on() and interruptible_sleep_on()).  It looks at
\* what it waits for again afterwards, and may sleep again.
DeviceSleep(st) ==
    /\ At("user") \/ At("dev")
    /\ current # 0
    /\ Sleep(st, "dev")
    /\ UNCHANGED <<task, blocked, pid, father, arg, freed, jiffies, last_pid, panicked>>

DeviceSleepReturn ==
    /\ At("dev")
    /\ Goto("ret")
    /\ UNCHANGED <<task, taskFields, arg, freed, current, jiffies, last_pid, panicked>>

-----------------------------------------------------------------------------
(***************************************************************************)
(* fork()                                                                  *)
(***************************************************************************)

\* find_empty_process(): the first pid from last_pid on that no task has,
\* last_pid itself included, and the first empty slot.
MutNextPid == last_pid                      \* does not look whether it is in use
NextPid == MinOf({p \in last_pid..last_pid + NR_TASKS : \A i \in Live : pid[i] # p})

EmptySlot == UserSlot \ Live

\* sys_fork() and copy_process(): the child runs in user mode at once.
Fork ==
    /\ At("user") /\ current # 0
    /\ EmptySlot # {}
    /\ NextPid <= MaxPid
    /\ last_pid' = NextPid
    /\ LET nr == MinOf(EmptySlot)
       IN  /\ \E p \in Page \ {task[i] : i \in Live} : task' = [task EXCEPT ![nr] = p]
           /\ state' = [state EXCEPT ![nr] = "RUNNING"]
           /\ pid' = [pid EXCEPT ![nr] = NextPid]
           /\ father' = [father EXCEPT ![nr] = pid[current]]
           /\ counter' = [counter EXCEPT ![nr] = Priority]
           /\ signal' = [signal EXCEPT ![nr] = {}]
           /\ blocked' = [blocked EXCEPT ![nr] = blocked[current]]
           /\ alarm' = [alarm EXCEPT ![nr] = 0]
           /\ pc' = [pc EXCEPT ![nr] = "user", ![current] = "ret"]
    /\ UNCHANGED <<arg, freed, current, jiffies, panicked>>

\* The table is full, there is no page for the task_struct, or copy_mem()
\* fails and both are given back: only last_pid has moved.
ForkFails ==
    /\ At("user") /\ current # 0
    /\ NextPid <= MaxPid
    /\ last_pid' = NextPid
    /\ Goto("ret")
    /\ UNCHANGED <<task, taskFields, arg, freed, current, jiffies, panicked>>

-----------------------------------------------------------------------------
(***************************************************************************)
(* exit() and waitpid()                                                    *)
(***************************************************************************)

\* do_exit(): the children go to task 1, the zombies among them are
\* announced to whoever is in slot 1, and tell_father() signals the father
\* or, when there is none, releases the running task itself.
MutReparent(i) == father[i]                 \* children keep the dead father
Reparent(i) == IF i \in Live /\ father[i] = pid[current] THEN 1 ELSE father[i]

Adopted == {i \in Live : father[i] = pid[current] /\ state[i] = "ZOMBIE"}

FatherSlots == {i \in Live : pid[i] = Reparent(current)}

MutExitSilent == signal                     \* the father is not told
ExitSignals ==
    LET told == (IF Adopted # {} THEN {1} \cap Live ELSE {})
                \cup (IF FatherSlots # {} THEN {MinOf(FatherSlots)} ELSE {})
    IN  [i \in Slot |-> IF i \in told THEN signal[i] \cup {SIGCHLD} ELSE signal[i]]

Exit ==
    /\ At("user") /\ current # 0
    /\ pid[current] = 1 => InitExits
    /\ father' = [i \in Slot |-> Reparent(i)]
    /\ task' = IF FatherSlots # {} THEN task ELSE [task EXCEPT ![current] = NULL]
    /\ Schedule(task', [state EXCEPT ![current] = "ZOMBIE"], ExitSignals, counter,
                alarm, jiffies)
    /\ Goto("dead")
    /\ UNCHANGED <<blocked, pid, arg, freed, jiffies, last_pid, panicked>>

\* release() up to its schedule(): slot i is emptied.
Release(i, sg) ==
    /\ task' = [task EXCEPT ![i] = NULL]
    /\ Schedule(task', state, sg, counter, alarm, jiffies)
    /\ pc' = [pc EXCEPT ![current] = "release"]
    /\ arg' = [arg EXCEPT ![current] = i]
    /\ freed' = [freed EXCEPT ![current] = task[i]]

\* release() goes on scanning the table.  A task whose page is the freed one,
\* allocated again, is released as well; the scan always ends in panic().
ReleaseContinues ==
    /\ At("release")
    /\ LET again == {i \in Live : i > arg[current] /\ task[i] = freed[current]}
       IN  IF again # {}
           THEN /\ Release(MinOf(again), signal)
                /\ UNCHANGED panicked
           ELSE /\ panicked' = TRUE
                /\ UNCHANGED <<task, state, counter, signal, alarm, pc, arg, freed, current>>
    /\ UNCHANGED <<blocked, pid, father, jiffies, last_pid>>

\* The scan of sys_waitpid() for children: any of them when who is 0.
Children(who) == {i \in Live \ {current} : /\ father[i] = pid[current]
                                           /\ who = 0 \/ pid[i] = who}

\* From the label repeat on, with the signals as the caller leaves them.
WaitScan(who, nohang, sg) ==
    LET zombies == {i \in Children(who) : state[i] = "ZOMBIE"}
    IN  IF zombies # {}
        THEN Release(MaxOf(zombies), sg)
        ELSE /\ IF Children(who) = {} \/ nohang
                THEN /\ Goto("ret")
                     /\ signal' = sg
                     /\ UNCHANGED <<state, counter, alarm, arg, current>>
                ELSE /\ Schedule(task, [state EXCEPT ![current] = "INTERRUPTIBLE"],
                                 sg, counter, alarm, jiffies)
                     /\ Goto("wait")
                     /\ arg' = [arg EXCEPT ![current] = who]
             /\ UNCHANGED <<task, freed>>

Waitpid(who, nohang) ==
    /\ At("user") /\ current # 0
    /\ WaitScan(who, nohang, signal)
    /\ UNCHANGED <<blocked, pid, father, jiffies, last_pid, panicked>>

\* SIGCHLD is taken back; another signal, blocked or not, ends the call.
WaitResumes ==
    /\ At("wait")
    /\ LET sg == [signal EXCEPT ![current] = @ \ {SIGCHLD}]
       IN  IF sg[current] = {}
           THEN WaitScan(arg[current], FALSE, sg)
           ELSE /\ signal' = sg
                /\ Goto("ret")
                /\ UNCHANGED <<task, state, counter, alarm, arg, freed, current>>
    /\ UNCHANGED <<blocked, pid, father, jiffies, last_pid, panicked>>

-----------------------------------------------------------------------------
(***************************************************************************)
(* The way back to user mode, and interrupts                               *)
(***************************************************************************)

\* After a handler: a task that is not runnable or has no time left gives
\* up the processor first.
Ret ==
    /\ At("ret")
    /\ IF state[current] # "RUNNING" \/ counter[current] = 0
       THEN Sleep(state[current], "sig")
       ELSE /\ Goto("sig")
            /\ UNCHANGED <<state, counter, signal, alarm, current>>
    /\ UNCHANGED <<task, blocked, pid, father, arg, freed, jiffies, last_pid, panicked>>

\* What do_signal() adds to the mask when a handler is called: sa_mask, which
\* sys_sigaction() makes empty with SA_NOMASK and otherwise extends by the
\* signal itself.  Without a handler, as always for SIGKILL, it adds nothing.
HandlerMasks(sig) ==
    {{}} \cup (IF sig = SIGKILL THEN {} ELSE {m \cup {sig} : m \in Masks \cup {{}}})

\* ret_from_syscall: the lowest unblocked signal is taken and passed to
\* do_signal().  Not for task 0.
DeliverSignal ==
    /\ At("sig")
    /\ LET open == signal[current] \ blocked[current]
       IN  IF current # 0 /\ open # {}
           THEN /\ signal' = [signal EXCEPT ![current] = @ \ {MinOf(open)}]
                /\ \E m \in HandlerMasks(MinOf(open)) :
                      blocked' = [blocked EXCEPT ![current] = @ \cup m]
           ELSE UNCHANGED <<signal, blocked>>
    /\ Goto("user")
    /\ UNCHANGED <<task, state, counter, alarm, pid, father, arg, freed, current,
                   jiffies, last_pid, panicked>>

\* What a tick leaves of a time slice.
MutSpend(c) == c - 1                    \* does not stop at 0
Spend(c) == IF c > 1 THEN c - 1 ELSE 0

\* timer_interrupt and do_timer().  The tick of a task in user mode may take
\* the processor from it; in kernel mode, panic() included, it only counts.
Tick ==
    LET now  == IF jiffies < MaxJiffies THEN jiffies + 1 ELSE jiffies
        left == [counter EXCEPT ![current] = Spend(@)]
    IN  /\ jiffies' = now
        /\ IF At("user")
           THEN /\ Goto("sig")
                /\ IF left[current] > 0
                   THEN /\ counter' = left
                        /\ UNCHANGED <<state, signal, alarm, current>>
                   ELSE Schedule(task, state, signal, left, alarm, now)
           ELSE /\ counter' = left
                /\ UNCHANGED <<state, signal, alarm, current, pc>>
        /\ UNCHANGED <<task, blocked, pid, father, arg, freed, last_pid, panicked>>

\* The interrupt of a device wakes a task that sleeps for it.
DeviceWake(i) ==
    /\ ~panicked
    /\ i \in Live
    /\ pc[i] = "dev"
    /\ state[i] \in {"INTERRUPTIBLE", "UNINTERRUPTIBLE"}
    /\ state' = [state EXCEPT ![i] = "RUNNING"]
    /\ UNCHANGED <<task, counter, signal, blocked, alarm, pid, father, pc, arg, freed,
                   current, jiffies, last_pid, panicked>>

-----------------------------------------------------------------------------
\* After main() has forked task 1 and before its first pause().
Init ==
    /\ \E p \in Page : task = [i \in UserSlot |-> IF i = 1 THEN p ELSE NULL]
    /\ state = [i \in Slot |-> "RUNNING"]
    /\ counter = [i \in Slot |-> Priority]
    /\ signal = [i \in Slot |-> {}]
    /\ blocked = [i \in Slot |-> {}]
    /\ alarm = [i \in Slot |-> 0]
    /\ pid = [i \in Slot |-> IF i = 1 THEN 1 ELSE 0]
    /\ father = [i \in Slot |-> IF i = 0 THEN -1 ELSE 0]
    /\ pc = [i \in Slot |-> "user"]
    /\ arg = [i \in Slot |-> 0]
    /\ freed = [i \in Slot |-> NULL]
    /\ current = 0
    /\ jiffies = 0
    /\ last_pid = 1
    /\ panicked = FALSE

UserStep ==
    \/ Pause
    \/ \E s \in AlarmSeconds : Alarm(s) \/ SleepFor(s)
    \/ \E m \in Masks : SetMask(m)
    \/ \E p \in 1..MaxPid, sig \in KillSignals : Kill(p, sig)
    \/ \E st \in DeviceSleeps : At("user") /\ DeviceSleep(st)
    \/ Fork \/ ForkFails \/ Exit
    \/ \E who \in 0..MaxPid, nohang \in BOOLEAN : Waitpid(who, nohang)

KernelStep ==
    \/ \E st \in DeviceSleeps : At("dev") /\ DeviceSleep(st)
    \/ DeviceSleepReturn
    \/ ReleaseContinues \/ WaitResumes
    \/ Ret \/ DeliverSignal

Next == UserStep \/ KernelStep \/ Tick \/ \E i \in UserSlot : DeviceWake(i)

Spec == Init /\ [][Next]_vars

-----------------------------------------------------------------------------
(***************************************************************************)
(* What must be true of it                                                 *)
(***************************************************************************)

\* Type correctness of the task table and the scheduler's variables.
TypeOK ==
    /\ task \in [UserSlot -> Page \cup {NULL}]
    /\ state \in [Slot -> States]
    /\ counter \in [Slot -> Nat]
    /\ signal \in [Slot -> SUBSET Signal]
    /\ blocked \in [Slot -> SUBSET Signal]
    /\ alarm \in [Slot -> Nat]
    /\ pid \in [Slot -> Nat]
    /\ father \in [Slot -> Int]
    /\ pc \in [Slot -> Places]
    /\ arg \in [Slot -> Nat]
    /\ freed \in [Slot -> Page \cup {NULL}]
    /\ current \in Slot
    /\ jiffies \in Nat
    /\ last_pid \in Nat
    /\ panicked \in BOOLEAN

\* A child has been reaped and its father is on the way to panic().
Doomed == panicked \/ \E i \in Live : pc[i] = "release"

\* No time slice exceeds twice the priority, however long a task sleeps
\* while the others use up theirs (schedule(), line 129), so no task can
\* save up time and keep the processor from the others.
CounterBound == \A i \in Slot : counter[i] < 2 * Priority

\* The processor is never held by an empty slot, a sleeper or a zombie,
\* whatever interrupts, signals and exits come between two dispatches.
RunnerReady == current # 0 => current \in Live /\ state[current] = "RUNNING"

\* Two live tasks never share a pid: sys_kill(), tell_father() and
\* sys_waitpid() find the one task they mean, also after pids are reused.
PidsUnique == \A i, j \in Live : pid[i] = pid[j] => i = j

\* A father that sleeps in waitpid() while a child it waits for is a zombie
\* has SIGCHLD pending: the exit of a child between the scan and the sleep,
\* a reparented zombie, a signal taken by the resumed call -- none of them
\* loses the notification.
NoLostChild ==
    \A i, z \in Live :
        /\ pc[i] = "wait"
        /\ father[z] = pid[i]
        /\ arg[i] = 0 \/ arg[i] = pid[z]
        /\ state[z] = "ZOMBIE"
        => SIGCHLD \in signal[i]

\* Every zombie has a living father that can reap it, as long as task 1
\* lives: do_exit() leaves no task behind whose father is gone or is itself a
\* zombie.
ZombieHasFather ==
    ~Doomed /\ (\E i \in Live : pid[i] = 1 /\ state[i] # "ZOMBIE") =>
        \A z \in Live : state[z] = "ZOMBIE" =>
            \E i \in Live : pid[i] = father[z] /\ state[i] # "ZOMBIE"

\* A task table as TaskLife sees it.
Stage(i) == CASE task[i] = NULL -> "free"
              [] task[i] # NULL /\ state[i] = "RUNNING" -> "ready"
              [] task[i] # NULL /\ state[i] = "ZOMBIE" -> "zombie"
              [] OTHER -> "asleep"

Stages == [i \in UserSlot |-> Stage(i)]

Life == INSTANCE TaskLife WITH Task <- UserSlot, Idle <- 0,
            life <- Stages, doomed <- Doomed

\* The kernel implements the life cycle: every handler, interrupt and
\* dispatch is a step of TaskLife.
ImplementsTaskLife == Life!LifeSpec

-----------------------------------------------------------------------------
(***************************************************************************)
(* Liveness.  Kernel code runs on to its next schedule() or to user mode,  *)
(* the idle loop calls pause() again and again, the timer ticks and every  *)
(* device interrupts in the end.  Nothing is assumed of user programs.     *)
(***************************************************************************)

Fairness ==
    /\ WF_vars(KernelStep)
    /\ WF_vars(current = 0 /\ Pause)
    /\ WF_vars(Tick)
    /\ \A i \in UserSlot : WF_vars(DeviceWake(i))

FairSpec == Spec /\ Fairness

\* A runnable task gets the processor, whatever mixture of computing,
\* sleeping and forking the other tasks are.
NoStarvation ==
    \A i \in UserSlot : Stage(i) = "ready" ~> \/ current = i
                                              \/ Stage(i) # "ready"
                                              \/ Doomed

\* A signal that is not blocked ends an interruptible sleep, however it
\* races with the call that sleeps (SIGKILL and SIGSTOP aside).
SignalEndsSleep ==
    \A i \in UserSlot :
        /\ Stage(i) = "asleep" /\ state[i] = "INTERRUPTIBLE"
        /\ signal[i] \cap (Blockable \ blocked[i]) # {}
        ~> Stage(i) # "asleep" \/ Doomed

\* sleep() with a positive argument ends, unless SIGALRM is blocked: some
\* schedule() after the alarm's time finds the task.
AlarmEndsSleep ==
    \A i \in UserSlot :
        /\ Stage(i) = "asleep" /\ state[i] = "INTERRUPTIBLE"
        /\ alarm[i] # 0 /\ SIGALRM \notin blocked[i]
        ~> Stage(i) # "asleep" \/ Doomed

\* A waitpid() asleep while a child it waits for is a zombie wakes up: it finds
\* that child or another one and enters release(), or a signal ends it (exit.c:248);
\* not so if the father blocks SIGCHLD.  From release() it never returns: other
\* than the comments say (exit.c:17, 158 and 223), its loop does not end with
\* the task it was called for, but in panic().
WaitFindsChild ==
    /\ \A i, z \in UserSlot :
          /\ Stage(i) = "asleep" /\ pc[i] = "wait"
          /\ Stage(z) = "zombie" /\ father[z] = pid[i]
          /\ arg[i] = 0 \/ arg[i] = pid[z]
          /\ SIGCHLD \notin blocked[i]
          ~> pc[i] \in {"release", "ret"} \/ panicked
    /\ \A i \in UserSlot : pc[i] = "release" ~> panicked
=============================================================================
