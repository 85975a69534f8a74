---------------------------- MODULE Sched_proofs ----------------------------
(***************************************************************************)
(* Theorems about Sched, for any size of the task table, any number of     *)
(* pages, any priority and any arguments of the system calls.              *)
(***************************************************************************)
EXTENDS Sched, WellFoundedInduction, TLAPS

-----------------------------------------------------------------------------
(***************************************************************************)
(* Minima and maxima                                                       *)
(***************************************************************************)

\* MinOf picks the least element of a set of naturals: the lowest slot, pid
\* or signal that the loops of the kernel find first.
LEMMA MinOfProps ==
    ASSUME NEW S \in SUBSET Nat, S # {}
    PROVE  MinOf(S) \in S /\ \A n \in S : MinOf(S) <= n
<1> DEFINE R == OpToRel(<, Nat)
<1>1. \E m \in S : \A n \in S : ~ (<<n, m>> \in R)
  <2>1. IsWellFoundedOn(R, Nat)
    BY NatLessThanWellFounded
  <2> HIDE DEF R
  <2> QED
    BY <2>1, WFMin
<1>2. PICK m \in S : \A n \in S : ~ (<<n, m>> \in R)
  BY <1>1
<1>3. \A n \in S : m <= n
  <2> TAKE n \in S
  <2>1. m \in Nat /\ n \in Nat
    OBVIOUS
  <2>2. ~ (n < m)
    BY <1>2, <2>1 DEF OpToRel
  <2> QED
    BY <2>1, <2>2
<1>4. QED
  BY <1>3 DEF MinOf

\* A bounded set of naturals has a maximum, which MaxOf picks: the last slot
\* of a scan that runs downwards.
LEMMA MaxOfProps ==
    ASSUME NEW S \in SUBSET Nat, S # {}, NEW K \in Nat, \A n \in S : n <= K
    PROVE  MaxOf(S) \in S /\ \A n \in S : n <= MaxOf(S)
<1> DEFINE T == {K - n : n \in S}
<1>1. T \in SUBSET Nat /\ T # {}
  <2>1. \A n \in S : n \in Nat /\ n <= K
    OBVIOUS
  <2>2. \A n \in Nat : n <= K => K - n \in Nat
    OBVIOUS
  <2>3. \A n \in S : K - n \in Nat
    BY <2>1, <2>2
  <2> QED
    BY <2>3
<1>2. PICK t \in T : \A u \in T : t <= u
  <2> HIDE DEF T
  <2> QED
    BY <1>1, MinOfProps
<1>3. PICK m \in S : t = K - m
  OBVIOUS
<1>4. \A n \in S : n <= m
  <2> TAKE n \in S
  <2>1. K - n \in T
    OBVIOUS
  <2>2. K - m <= K - n
    BY <1>2, <1>3, <2>1
  <2>3. n \in Nat /\ m \in Nat
    OBVIOUS
  <2> QED
    BY <2>2, <2>3
<1>5. QED
  BY <1>4 DEF MaxOf

-----------------------------------------------------------------------------
(***************************************************************************)
(* The scheduler                                                           *)
(***************************************************************************)

\* The slot that schedule() switches to has the largest slice of the runnable
\* ones.
LEMMA PickBest ==
    ASSUME NEW ready \in SUBSET UserSlot, NEW cn \in [Slot -> Nat],
           NEW K \in Nat, \A i \in Slot : cn[i] <= K
    PROVE  ready # {} => /\ Pick(ready, cn) \in ready
                         /\ \A j \in ready : cn[j] <= cn[Pick(ready, cn)]
<1>2. ASSUME ready # {}
      PROVE  /\ Pick(ready, cn) \in ready
             /\ \A j \in ready : cn[j] <= cn[Pick(ready, cn)]
  <2> DEFINE C == {cn[i] : i \in ready}
             best == {i \in ready : \A j \in ready : cn[j] <= cn[i]}
  <2>1. ready \subseteq Slot
    BY DEF UserSlot
  <2>2. C \in SUBSET Nat /\ C # {} /\ \A c \in C : c <= K
    BY <1>2, <2>1
  <2>3. MaxOf(C) \in C /\ \A c \in C : c <= MaxOf(C)
    <3> HIDE DEF C
    <3> QED BY <2>2, MaxOfProps
  <2>4. best # {}
    BY <2>3
  <2>5. best \in SUBSET Nat /\ \A i \in best : i <= NR_TASKS
    <3>1. \A i \in Slot : i \in Nat /\ i <= NR_TASKS
      BY SchedAssumption DEF Slot
    <3> QED
      BY <2>1, <3>1
  <2>6. MaxOf(best) \in best
    <3> HIDE DEF best
    <3> QED BY <2>4, <2>5, MaxOfProps, SchedAssumption
  <2>7. Pick(ready, cn) = MaxOf(best)
    BY <1>2 DEF Pick
  <2> DEFINE m == MaxOf(best)
  <2>8. m \in ready /\ \A j \in ready : cn[j] <= cn[m]
    <3> HIDE DEF m
    <3> QED
      BY <2>6 DEF m
  <2> QED
    BY <2>7, <2>8
<1>3. QED
  BY <1>2

\* It is one of them, or 0 when there are none.
LEMMA PickProps ==
    ASSUME NEW ready \in SUBSET UserSlot, NEW cn \in [Slot -> Nat],
           NEW K \in Nat, \A i \in Slot : cn[i] <= K
    PROVE  /\ ready = {} => Pick(ready, cn) = 0
           /\ ready # {} => Pick(ready, cn) \in ready
  BY PickBest DEF Pick

\* What a call of schedule() does to the state its caller leaves: signals are
\* only added, an interruptible sleeper may be woken and nobody else changes
\* its state, time slices stay below twice the priority, and the processor
\* goes to a runnable task or to task 0.
LEMMA ScheduleProps ==
    ASSUME NEW tk \in [UserSlot -> Page \cup {NULL}],
           NEW st \in [Slot -> States],
           NEW sg \in [Slot -> SUBSET Signal],
           NEW cn \in [Slot -> Nat],
           \A i \in Slot : cn[i] < 2 * Priority,
           NEW al \in [Slot -> Nat], NEW now \in Nat,
           Schedule(tk, st, sg, cn, al, now)
    PROVE  /\ state' \in [Slot -> States]
           /\ signal' \in [Slot -> SUBSET Signal]
           /\ counter' \in [Slot -> Nat]
           /\ alarm' \in [Slot -> Nat]
           /\ current' \in Slot
           /\ \A i \in Slot : counter'[i] < 2 * Priority
           /\ \A i \in Slot : sg[i] \subseteq signal'[i]
           /\ \A i \in Slot : \/ state'[i] = st[i]
                              \/ st[i] = "INTERRUPTIBLE" /\ state'[i] = "RUNNING"
           /\ current' # 0 => /\ current' \in UserSlot
                              /\ tk[current'] # NULL
                              /\ state'[current'] = "RUNNING"
<1> DEFINE live  == {i \in UserSlot : tk[i] # NULL}
           sg1   == RaiseAlarms(live, sg, al, now)
           st1   == WakeSignalled(live, st, sg1)
           ready == {i \in live : st1[i] = "RUNNING"}
           cn1   == Refill(live, ready, cn)
<1>1. /\ signal' = sg1 /\ alarm' = ClearAlarms(live, al, now) /\ state' = st1
      /\ counter' = cn1 /\ current' = Pick(ready, cn1)
  BY DEF Schedule
<1>2. sg1 \in [Slot -> SUBSET Signal] /\ \A i \in Slot : sg[i] \subseteq sg1[i]
  BY DEF RaiseAlarms, SIGALRM, Signal
<1>3. ClearAlarms(live, al, now) \in [Slot -> Nat]
  BY DEF ClearAlarms
<1>4. /\ st1 \in [Slot -> States]
      /\ \A i \in Slot : \/ st1[i] = st[i]
                         \/ st[i] = "INTERRUPTIBLE" /\ st1[i] = "RUNNING"
  <2> HIDE DEF sg1, live
  <2> QED
    BY DEF WakeSignalled, States
<1>5. cn1 \in [Slot -> Nat] /\ \A i \in Slot : cn1[i] < 2 * Priority
  <2>1. Priority \in Nat \ {0}
    BY SchedAssumption
  <2>2. \A i \in Slot : /\ cn[i] \div 2 + Priority \in Nat
                        /\ cn[i] \div 2 + Priority < 2 * Priority
    <3> TAKE i \in Slot
    <3>1. cn[i] \in Nat /\ cn[i] < 2 * Priority
      OBVIOUS
    <3>2. \A x \in Nat : x < 2 * Priority => x \div 2 \in Nat /\ x \div 2 < Priority
      BY <2>1
    <3> QED
      BY <3>1, <3>2, <2>1
  <2> QED
    BY <2>2 DEF Refill
<1>6. ready \in SUBSET UserSlot
  OBVIOUS
<1>7. /\ ready = {} => Pick(ready, cn1) = 0
      /\ ready # {} => Pick(ready, cn1) \in ready
  <2>1. 2 * Priority \in Nat /\ \A i \in Slot : cn1[i] <= 2 * Priority
    <3>1. \A x \in Nat : x < 2 * Priority => x <= 2 * Priority
      BY SchedAssumption
    <3> HIDE DEF cn1
    <3> QED
      BY <1>5, <3>1, SchedAssumption
  <2> HIDE DEF ready, cn1
  <2> QED
    BY <1>5, <1>6, <2>1, PickProps
<1>8. 0 \in Slot
  BY SchedAssumption DEF Slot
<1>9. current' \in Slot /\ (current' # 0 => current' \in ready)
  <2> HIDE DEF ready, cn1
  <2> QED
    BY <1>1, <1>6, <1>7, <1>8 DEF UserSlot
<1>10. QED
  <2>1. current' # 0 => /\ current' \in UserSlot
                        /\ tk[current'] # NULL
                        /\ state'[current'] = "RUNNING"
    BY <1>1, <1>9
  <2> HIDE DEF ready, cn1, sg1, st1, live
  <2> QED
    BY <1>1, <1>2, <1>3, <1>4, <1>5, <1>9, <2>1

-----------------------------------------------------------------------------
(***************************************************************************)
(* The inductive invariant                                                 *)
(***************************************************************************)

\* Pids are given out in ascending order, and only task 1 has pid 1: what
\* makes a new pid new, and slot 1 the father of the orphans.
PidOrder ==
    /\ last_pid >= 1
    /\ \A i \in Live : pid[i] >= 1 /\ pid[i] <= last_pid /\ (pid[i] = 1 => i = 1)

SchedInv ==
    /\ TypeOK /\ CounterBound /\ RunnerReady
    /\ PidOrder /\ PidsUnique /\ NoLostChild

USE DEF UserSlot

\* find_empty_process() always finds a pid, and no task has it.
LEMMA NextPidProps ==
    ASSUME TypeOK, PidOrder
    PROVE  /\ NextPid \in Nat
           /\ NextPid >= last_pid
           /\ \A i \in Live : pid[i] # NextPid
<1> DEFINE S == {p \in last_pid..last_pid + NR_TASKS : \A i \in Live : pid[i] # p}
<1>1. last_pid \in Nat /\ NR_TASKS \in Nat /\ NR_TASKS >= 2
  BY SchedAssumption DEF TypeOK
<1>2. \A i \in Live : pid[i] \in Nat /\ pid[i] <= last_pid
  BY DEF TypeOK, PidOrder, Live
<1>3. last_pid + 1 \in S
  <2>1. last_pid + 1 \in last_pid..last_pid + NR_TASKS
    BY <1>1
  <2>2. \A i \in Live : pid[i] # last_pid + 1
    BY <1>1, <1>2
  <2> QED
    BY <2>1, <2>2
<1>4. S \in SUBSET Nat
  BY <1>1
<1>5. MinOf(S) \in S
  <2> HIDE DEF S
  <2> QED
    BY <1>3, <1>4, MinOfProps
<1>6. NextPid \in S
  BY <1>5 DEF NextPid
<1>7. \A p \in last_pid..last_pid + NR_TASKS : p \in Nat /\ p >= last_pid
  BY <1>1
<1>8. QED
  BY <1>6, <1>7

\* A step that leaves the table, the pids and the fathers alone, makes no
\* zombie, puts nobody to sleep in waitpid() and takes SIGCHLD from nobody
\* who sleeps there keeps the invariants that relate tasks to each other.
LEMMA QuietStep ==
    ASSUME SchedInv,
           UNCHANGED <<task, pid, father>>,
           last_pid' >= last_pid, last_pid' \in Nat,
           \A i \in Slot : state'[i] = "ZOMBIE" => state[i] = "ZOMBIE",
           \A i \in Live : pc'[i] = "wait" => /\ pc[i] = "wait"
                                              /\ arg'[i] = arg[i]
                                              /\ signal[i] \cap {SIGCHLD} \subseteq signal'[i],
           current' # 0 => current' \in Live /\ state'[current'] = "RUNNING"
    PROVE  RunnerReady' /\ PidOrder' /\ PidsUnique' /\ NoLostChild'
<1>1. Live' = Live
  BY DEF Live
<1>2. RunnerReady'
  BY <1>1 DEF RunnerReady
<1>3. PidOrder'
  <2>1. last_pid \in Nat /\ \A i \in Live : pid[i] \in Nat
    BY DEF SchedInv, TypeOK, Live
  <2> QED
    BY <1>1, <2>1 DEF PidOrder, SchedInv
<1>4. PidsUnique'
  BY <1>1 DEF PidsUnique, SchedInv
<1>5. NoLostChild'
  <2> SUFFICES ASSUME NEW i \in Live, NEW z \in Live,
                      pc'[i] = "wait", father[z] = pid[i],
                      arg'[i] = 0 \/ arg'[i] = pid[z], state'[z] = "ZOMBIE"
               PROVE  SIGCHLD \in signal'[i]
    BY <1>1 DEF NoLostChild
  <2>1. z \in Slot
    BY DEF Live
  <2>2. pc[i] = "wait" /\ arg'[i] = arg[i] /\ state[z] = "ZOMBIE"
    BY <2>1
  <2>3. SIGCHLD \in signal[i]
    BY <2>2 DEF NoLostChild, SchedInv
  <2> QED
    BY <2>3
<1>6. QED
  BY <1>2, <1>3, <1>4, <1>5

\* A step that calls schedule() without touching the table, and leaves the
\* caller anywhere but in waitpid().
LEMMA QuietSchedule ==
    ASSUME SchedInv,
           NEW st \in [Slot -> States],
           \A i \in Slot : st[i] = "ZOMBIE" => state[i] = "ZOMBIE",
           NEW cn \in [Slot -> Nat], \A i \in Slot : cn[i] < 2 * Priority,
           NEW al \in [Slot -> Nat], NEW now \in Nat,
           NEW place \in Places \ {"wait"},
           Schedule(task, st, signal, cn, al, now),
           Goto(place),
           UNCHANGED <<task, blocked, pid, father, arg, freed, last_pid, panicked>>,
           jiffies' \in Nat
    PROVE  SchedInv'
<1>1. TypeOK
  BY DEF SchedInv
<1>2. task \in [UserSlot -> Page \cup {NULL}] /\ signal \in [Slot -> SUBSET Signal]
  BY <1>1 DEF TypeOK
<1>3. /\ state' \in [Slot -> States] /\ signal' \in [Slot -> SUBSET Signal]
      /\ counter' \in [Slot -> Nat] /\ alarm' \in [Slot -> Nat] /\ current' \in Slot
      /\ \A i \in Slot : counter'[i] < 2 * Priority
      /\ \A i \in Slot : signal[i] \subseteq signal'[i]
      /\ \A i \in Slot : \/ state'[i] = st[i]
                         \/ st[i] = "INTERRUPTIBLE" /\ state'[i] = "RUNNING"
      /\ current' # 0 => /\ current' \in UserSlot
                         /\ task[current'] # NULL
                         /\ state'[current'] = "RUNNING"
  BY <1>2, ScheduleProps
<1>4. pc' \in [Slot -> Places] /\ \A i \in Slot : pc'[i] = "wait" => pc[i] = "wait"
  BY <1>1 DEF TypeOK, Goto, Places
<1>5. TypeOK'
  BY <1>1, <1>3, <1>4 DEF TypeOK
<1>6. CounterBound'
  BY <1>3 DEF CounterBound
<1>7. \A i \in Live : i \in Slot
  BY DEF Live
<1>8. last_pid' >= last_pid /\ last_pid' \in Nat
  BY <1>1 DEF TypeOK
<1>9. \A i \in Slot : state'[i] = "ZOMBIE" => state[i] = "ZOMBIE"
  BY <1>3
<1>10. current' # 0 => current' \in Live' /\ state'[current'] = "RUNNING"
  BY <1>3 DEF Live
<1>11. Live' = Live
  BY DEF Live
<1>12. RunnerReady' /\ PidOrder' /\ PidsUnique' /\ NoLostChild'
  BY <1>3, <1>4, <1>7, <1>8, <1>9, <1>10, <1>11, QuietStep
<1>13. QED
  BY <1>5, <1>6, <1>12 DEF SchedInv

-----------------------------------------------------------------------------
(***************************************************************************)
(* The initial states and the steps                                        *)
(***************************************************************************)

\* main() leaves a table with one task, which has not run yet.
LEMMA InitInv == Init => SchedInv
<1> SUFFICES ASSUME Init PROVE SchedInv
  OBVIOUS
<1>1. 0 \in Slot /\ 1 \in Slot /\ Slot \subseteq Nat
  BY SchedAssumption DEF Slot
<1>2. PICK p \in Page : task = [i \in UserSlot |-> IF i = 1 THEN p ELSE NULL]
  BY DEF Init
<1>3. Live = {1}
  BY <1>1, <1>2, SchedAssumption DEF Live
<1>4. TypeOK
  <2>1. task \in [UserSlot -> Page \cup {NULL}]
    BY <1>2
  <2>2. /\ state \in [Slot -> States] /\ pc \in [Slot -> Places]
        /\ freed \in [Slot -> Page \cup {NULL}]
    BY DEF Init, States, Places
  <2>3. /\ counter \in [Slot -> Nat] /\ alarm \in [Slot -> Nat]
        /\ pid \in [Slot -> Nat] /\ father \in [Slot -> Int] /\ arg \in [Slot -> Nat]
    BY SchedAssumption DEF Init
  <2>4. signal \in [Slot -> SUBSET Signal] /\ blocked \in [Slot -> SUBSET Signal]
    BY DEF Init
  <2>5. current \in Slot /\ jiffies \in Nat /\ last_pid \in Nat /\ panicked \in BOOLEAN
    BY <1>1 DEF Init
  <2> QED
    BY <2>1, <2>2, <2>3, <2>4, <2>5 DEF TypeOK
<1>5. CounterBound
  BY SchedAssumption DEF Init, CounterBound
<1>6. RunnerReady /\ PidsUnique /\ NoLostChild
  BY <1>1, <1>3 DEF Init, RunnerReady, PidsUnique, NoLostChild
<1>7. PidOrder
  BY <1>1, <1>3 DEF Init, PidOrder
<1>8. QED
  BY <1>4, <1>5, <1>6, <1>7 DEF SchedInv

\* System calls that only sleep.
LEMMA SleepCallsInv ==
    ASSUME SchedInv,
           \/ Pause
           \/ \E s \in AlarmSeconds : SleepFor(s)
           \/ \E st \in DeviceSleeps : DeviceSleep(st)
           \/ Ret /\ (state[current] # "RUNNING" \/ counter[current] = 0)
    PROVE  SchedInv'
<1>1. /\ TypeOK /\ jiffies \in Nat /\ \A i \in Slot : counter[i] < 2 * Priority
      /\ counter \in [Slot -> Nat] /\ alarm \in [Slot -> Nat]
      /\ state \in [Slot -> States] /\ current \in Slot
  BY DEF SchedInv, TypeOK, CounterBound
<1>2. ASSUME NEW s \in {"RUNNING", "INTERRUPTIBLE", "UNINTERRUPTIBLE"}
      PROVE  /\ [state EXCEPT ![current] = s] \in [Slot -> States]
             /\ \A i \in Slot : [state EXCEPT ![current] = s][i] = "ZOMBIE"
                                => state[i] = "ZOMBIE"
  BY <1>1 DEF States
<1>3. CASE Pause
  BY <1>1, <1>2, <1>3, QuietSchedule DEF Pause, Sleep, Goto, Places
<1>4. CASE \E s \in AlarmSeconds : SleepFor(s)
  <2>1. PICK s \in AlarmSeconds : SleepFor(s)
    BY <1>4
  <2>2. [alarm EXCEPT ![current] = AlarmTime(s)] \in [Slot -> Nat]
    <3>1. s \in Nat /\ HZ \in Nat
      BY SchedAssumption
    <3>2. AlarmTime(s) \in Nat
      BY <1>1, <3>1 DEF AlarmTime
    <3> QED
      BY <1>1, <3>2
  <2> QED
    BY <1>1, <1>2, <2>1, <2>2, QuietSchedule DEF SleepFor, Places
<1>5. CASE \E st \in DeviceSleeps : DeviceSleep(st)
  <2>1. PICK st \in DeviceSleeps : DeviceSleep(st)
    BY <1>5
  <2>2. st \in {"INTERRUPTIBLE", "UNINTERRUPTIBLE"}
    BY SchedAssumption
  <2> QED
    BY <1>1, <1>2, <2>1, <2>2, QuietSchedule DEF DeviceSleep, Sleep, Goto, Places
<1>6. CASE Ret /\ (state[current] # "RUNNING" \/ counter[current] = 0)
  <2>1. /\ [state EXCEPT ![current] = state[current]] \in [Slot -> States]
        /\ \A i \in Slot : [state EXCEPT ![current] = state[current]][i] = "ZOMBIE"
                           => state[i] = "ZOMBIE"
    BY <1>1
  <2> QED
    BY <1>1, <1>6, <2>1, QuietSchedule DEF Ret, Sleep, Goto, Places
<1>7. QED
  BY <1>3, <1>4, <1>5, <1>6

\* A step of the running task that calls no schedule(), changes nobody's
\* state and goes on outside waitpid().
LEMMA QuietCall ==
    ASSUME SchedInv, TypeOK', CounterBound',
           UNCHANGED <<task, state, pid, father, arg, current>>,
           last_pid' >= last_pid,
           \A i \in Live : pc'[i] = "wait" => /\ pc[i] = "wait"
                                              /\ signal[i] \subseteq signal'[i]
    PROVE  SchedInv'
<1>1. last_pid' \in Nat /\ Live' = Live
  BY DEF TypeOK, Live
<1>2. current' # 0 => current' \in Live /\ state'[current'] = "RUNNING"
  BY DEF SchedInv, RunnerReady
<1>3. RunnerReady' /\ PidOrder' /\ PidsUnique' /\ NoLostChild'
  BY <1>1, <1>2, QuietStep
<1>4. QED
  BY <1>3 DEF SchedInv

\* System calls and kernel paths without a schedule().
LEMMA PlainCallsInv ==
    ASSUME SchedInv,
           \/ \E s \in AlarmSeconds : Alarm(s)
           \/ \E m \in Masks : SetMask(m)
           \/ \E p \in 1..MaxPid, sig \in KillSignals : Kill(p, sig)
           \/ DeviceSleepReturn
           \/ ForkFails
           \/ Ret /\ state[current] = "RUNNING" /\ counter[current] # 0
           \/ DeliverSignal
    PROVE  SchedInv'
<1>1. TypeOK /\ CounterBound /\ current \in Slot /\ \A i \in Live : i \in Slot
  BY DEF SchedInv, TypeOK, Live
<1>2. ASSUME NEW place \in Places \ {"wait"}, Goto(place)
      PROVE  /\ pc' \in [Slot -> Places]
             /\ \A i \in Slot : pc'[i] = "wait" => pc[i] = "wait" /\ i # current
  BY <1>1, <1>2 DEF TypeOK, Goto
<1>3. last_pid \in Nat /\ last_pid >= last_pid
  BY <1>1 DEF TypeOK
<1>4. CASE \E s \in AlarmSeconds : Alarm(s)
  <2>1. PICK s \in AlarmSeconds : Alarm(s)
    BY <1>4
  <2>2. AlarmTime(s) \in Nat
    <3>1. s \in Nat /\ HZ \in Nat /\ jiffies \in Nat
      BY <1>1, SchedAssumption DEF TypeOK
    <3> QED
      BY <3>1 DEF AlarmTime
  <2>3. Goto("ret")
    BY <2>1 DEF Alarm
  <2>4. alarm' \in [Slot -> Nat]
    BY <1>1, <2>1, <2>2 DEF Alarm, TypeOK
  <2>5. TypeOK' /\ CounterBound'
    BY <1>1, <1>2, <2>1, <2>3, <2>4 DEF Alarm, TypeOK, CounterBound, Places
  <2> QED
    BY <1>1, <1>2, <1>3, <2>1, <2>3, <2>5, QuietCall DEF Alarm, Places
<1>5. CASE \E m \in Masks : SetMask(m)
  <2>1. PICK m \in Masks : SetMask(m)
    BY <1>5
  <2>2. Goto("ret") /\ m \in SUBSET Signal
    BY <2>1, SchedAssumption DEF SetMask
  <2>3. TypeOK' /\ CounterBound'
    BY <1>1, <1>2, <2>1, <2>2 DEF SetMask, TypeOK, CounterBound, Places
  <2> QED
    BY <1>1, <1>2, <1>3, <2>1, <2>2, <2>3, QuietCall DEF SetMask, Places
<1>6. CASE \E p \in 1..MaxPid, sig \in KillSignals : Kill(p, sig)
  <2>1. PICK p \in 1..MaxPid, sig \in KillSignals : Kill(p, sig)
    BY <1>6
  <2>2. Goto("ret") /\ sig \in Signal
    BY <2>1, SchedAssumption DEF Kill
  <2>3. signal' \in [Slot -> SUBSET Signal] /\ \A i \in Slot : signal[i] \subseteq signal'[i]
    BY <1>1, <2>1, <2>2 DEF Kill, TypeOK
  <2>4. TypeOK' /\ CounterBound'
    BY <1>1, <1>2, <2>1, <2>2, <2>3 DEF Kill, TypeOK, CounterBound, Places
  <2> QED
    BY <1>1, <1>2, <1>3, <2>1, <2>2, <2>3, <2>4, QuietCall DEF Kill, Places
<1>7. CASE DeviceSleepReturn
  <2>1. Goto("ret")
    BY <1>7 DEF DeviceSleepReturn
  <2>2. TypeOK' /\ CounterBound'
    BY <1>1, <1>2, <1>7, <2>1
    DEF DeviceSleepReturn, TypeOK, CounterBound, Places, taskFields
  <2> QED
    BY <1>1, <1>2, <1>3, <1>7, <2>1, <2>2, QuietCall DEF DeviceSleepReturn, Places, taskFields
<1>8. CASE ForkFails
  <2>1. Goto("ret") /\ last_pid' = NextPid
    BY <1>8 DEF ForkFails
  <2>2. NextPid \in Nat /\ NextPid >= last_pid
    BY NextPidProps DEF SchedInv
  <2>3. TypeOK' /\ CounterBound'
    BY <1>1, <1>2, <1>8, <2>1, <2>2
    DEF ForkFails, TypeOK, CounterBound, Places, taskFields
  <2> QED
    BY <1>1, <1>2, <1>8, <2>1, <2>2, <2>3, QuietCall DEF ForkFails, Places, taskFields
<1>9. CASE Ret /\ state[current] = "RUNNING" /\ counter[current] # 0
  <2>1. Goto("sig") /\ UNCHANGED <<state, counter, signal, alarm, current>>
    BY <1>9 DEF Ret
  <2>2. TypeOK' /\ CounterBound'
    BY <1>1, <1>2, <1>9, <2>1 DEF Ret, TypeOK, CounterBound, Places
  <2> QED
    BY <1>1, <1>2, <1>3, <1>9, <2>1, <2>2, QuietCall DEF Ret, Places
<1>10. CASE DeliverSignal
  <2> DEFINE open == signal[current] \ blocked[current]
  <2>1. Goto("user") /\ UNCHANGED <<task, state, counter, alarm, pid, father, arg, freed,
                                    current, jiffies, last_pid, panicked>>
    BY <1>10 DEF DeliverSignal
  <2>2. /\ signal' \in [Slot -> SUBSET Signal] /\ blocked' \in [Slot -> SUBSET Signal]
        /\ \A i \in Slot : i # current => signal'[i] = signal[i]
    <3>1. CASE current # 0 /\ open # {}
      <4>1. MinOf(open) \in Signal
        <5>1. open \in SUBSET Signal /\ Signal \in SUBSET Nat
          BY <1>1 DEF TypeOK, Signal
        <5> HIDE DEF open
        <5> QED
          BY <3>1, <5>1, MinOfProps
      <4>2. signal' = [signal EXCEPT ![current] = @ \ {MinOf(open)}]
        BY <1>10, <3>1 DEF DeliverSignal
      <4>3. PICK m \in HandlerMasks(MinOf(open)) :
                blocked' = [blocked EXCEPT ![current] = @ \cup m]
        BY <1>10, <3>1 DEF DeliverSignal
      <4>4. m \in SUBSET Signal
        <5> HIDE DEF open
        <5> QED
          BY <4>1, <4>3, SchedAssumption DEF HandlerMasks
      <4> HIDE DEF open
      <4> QED
        BY <1>1, <4>1, <4>2, <4>3, <4>4 DEF TypeOK
    <3>2. CASE ~(current # 0 /\ open # {})
      <4>1. UNCHANGED <<signal, blocked>>
        BY <1>10, <3>2 DEF DeliverSignal
      <4> QED
        BY <1>1, <4>1 DEF TypeOK
    <3> QED
      BY <3>1, <3>2
  <2>3. TypeOK' /\ CounterBound'
    BY <1>1, <1>2, <2>1, <2>2 DEF TypeOK, CounterBound, Places
  <2>4. \A i \in Slot : pc'[i] = "wait" => pc[i] = "wait" /\ i # current
    BY <1>2, <2>1 DEF Places
  <2> QED
    BY <1>1, <1>3, <2>1, <2>2, <2>3, <2>4, QuietCall
<1>11. QED
  BY <1>4, <1>5, <1>6, <1>7, <1>8, <1>9, <1>10

\* A tick only counts in kernel mode; in user mode it may take the processor.
LEMMA TickInv == SchedInv /\ Tick => SchedInv'
<1> SUFFICES ASSUME SchedInv, Tick PROVE SchedInv'
  OBVIOUS
<1> DEFINE now  == IF jiffies < MaxJiffies THEN jiffies + 1 ELSE jiffies
           left == [counter EXCEPT ![current] = Spend(@)]
<1>1. /\ TypeOK /\ CounterBound /\ current \in Slot /\ state \in [Slot -> States]
      /\ counter \in [Slot -> Nat] /\ alarm \in [Slot -> Nat] /\ \A i \in Live : i \in Slot
  BY DEF SchedInv, TypeOK, Live
<1>2. now \in Nat
  BY <1>1 DEF TypeOK
<1>3. left \in [Slot -> Nat] /\ \A i \in Slot : left[i] < 2 * Priority
  <2>1. \A i \in Slot : counter[i] \in Nat /\ counter[i] < 2 * Priority
    BY <1>1 DEF CounterBound
  <2>2. Priority \in Nat \ {0}
    BY SchedAssumption
  <2>3. \A c \in Nat : c < 2 * Priority => Spend(c) \in Nat /\ Spend(c) < 2 * Priority
    BY <2>2 DEF Spend
  <2> QED
    BY <1>1, <2>1, <2>3
<1>4. jiffies' = now
  BY DEF Tick
<1>5. UNCHANGED <<task, blocked, pid, father, arg, freed, last_pid, panicked>>
  BY DEF Tick
<1>6. last_pid \in Nat /\ last_pid' >= last_pid
  BY <1>1, <1>5 DEF TypeOK
<1>7. CASE At("user") /\ ~(left[current] > 0)
  <2>1. Goto("sig") /\ Schedule(task, state, signal, left, alarm, now)
    BY <1>7 DEF Tick
  <2> HIDE DEF left, now
  <2> QED
    BY <1>1, <1>2, <1>3, <1>4, <1>5, <2>1, QuietSchedule DEF Places
<1>8. CASE ~(At("user") /\ ~(left[current] > 0))
  <2>1. /\ counter' = left /\ UNCHANGED <<state, signal, alarm, current>>
        /\ Goto("sig") \/ UNCHANGED pc
    BY <1>8 DEF Tick
  <2>2. pc' \in [Slot -> Places] /\ \A i \in Slot : pc'[i] = "wait" => pc[i] = "wait"
    BY <1>1, <2>1 DEF TypeOK, Goto, Places
  <2> HIDE DEF left, now
  <2>3. TypeOK' /\ CounterBound'
    BY <1>1, <1>2, <1>3, <1>4, <1>5, <2>1, <2>2 DEF TypeOK, CounterBound
  <2> QED
    BY <1>1, <1>5, <1>6, <2>1, <2>2, <2>3, QuietCall
<1>9. QED
  BY <1>7, <1>8

\* The interrupt of a device wakes its sleeper and nothing else.
LEMMA DeviceWakeInv ==
    ASSUME SchedInv, NEW i \in UserSlot, DeviceWake(i)
    PROVE  SchedInv'
<1>1. TypeOK /\ CounterBound /\ \A k \in Live : k \in Slot
  BY DEF SchedInv, TypeOK, Live
<1>2. state' = [state EXCEPT ![i] = "RUNNING"]
  BY DEF DeviceWake
<1>3. UNCHANGED <<task, counter, signal, blocked, alarm, pid, father, pc, arg, freed,
                  current, jiffies, last_pid, panicked>>
  BY DEF DeviceWake
<1>4. TypeOK' /\ CounterBound'
  BY <1>1, <1>2, <1>3 DEF TypeOK, CounterBound, States
<1>5. last_pid' >= last_pid /\ last_pid' \in Nat
  BY <1>1, <1>3 DEF TypeOK
<1>6. \A k \in Slot : state'[k] = "ZOMBIE" => state[k] = "ZOMBIE"
  BY <1>1, <1>2 DEF TypeOK
<1>7. current' # 0 => current' \in Live /\ state'[current'] = "RUNNING"
  BY <1>1, <1>2, <1>3 DEF SchedInv, RunnerReady, TypeOK
<1>8. RunnerReady' /\ PidOrder' /\ PidsUnique' /\ NoLostChild'
  BY <1>3, <1>5, <1>6, <1>7, QuietStep
<1>9. QED
  BY <1>4, <1>8 DEF SchedInv

\* A new task gets a pid that no live task has, and not pid 1.
LEMMA ForkInv == SchedInv /\ Fork => SchedInv'
<1> SUFFICES ASSUME SchedInv, Fork PROVE SchedInv'
  OBVIOUS
<1> DEFINE nr == MinOf(EmptySlot)
<1>1. /\ TypeOK /\ CounterBound /\ PidOrder /\ PidsUnique /\ NoLostChild /\ RunnerReady
      /\ current \in Slot /\ current # 0 /\ current \in Live
      /\ state[current] = "RUNNING" /\ \A i \in Live : i \in Slot
  BY DEF SchedInv, TypeOK, Fork, RunnerReady, Live
<1>2. nr \in UserSlot /\ nr \notin Live
  <2>1. EmptySlot \in SUBSET Nat /\ EmptySlot # {}
    BY SchedAssumption DEF Fork, EmptySlot, Slot
  <2>2. MinOf(EmptySlot) \in EmptySlot
    BY <2>1, MinOfProps
  <2> QED
    BY <2>2 DEF EmptySlot
<1> HIDE DEF nr
<1>3. nr # current /\ nr \in Slot
  BY <1>1, <1>2
<1>4. /\ NextPid \in Nat /\ NextPid >= last_pid /\ \A i \in Live : pid[i] # NextPid
      /\ last_pid' = NextPid
  BY <1>1, NextPidProps DEF Fork
<1>5. PICK p \in Page : task' = [task EXCEPT ![nr] = p]
  BY DEF Fork, nr
<1>6. /\ state' = [state EXCEPT ![nr] = "RUNNING"]
      /\ pid' = [pid EXCEPT ![nr] = NextPid]
      /\ father' = [father EXCEPT ![nr] = pid[current]]
      /\ counter' = [counter EXCEPT ![nr] = Priority]
      /\ signal' = [signal EXCEPT ![nr] = {}]
      /\ blocked' = [blocked EXCEPT ![nr] = blocked[current]]
      /\ alarm' = [alarm EXCEPT ![nr] = 0]
      /\ pc' = [pc EXCEPT ![nr] = "user", ![current] = "ret"]
      /\ UNCHANGED <<arg, freed, current, jiffies, panicked>>
  BY DEF Fork, nr
<1>7. Live' = Live \cup {nr}
  BY <1>1, <1>2, <1>5, SchedAssumption DEF Live, TypeOK
<1>8. TypeOK'
  <2>1. pid[current] \in Nat /\ pid[current] \in Int /\ Priority \in Nat
    BY <1>1, SchedAssumption DEF TypeOK
  <2>2. task' \in [UserSlot -> Page \cup {NULL}]
    BY <1>1, <1>5 DEF TypeOK
  <2>3. state' \in [Slot -> States] /\ pc' \in [Slot -> Places]
    BY <1>1, <1>6 DEF TypeOK, States, Places
  <2>4. /\ counter' \in [Slot -> Nat] /\ signal' \in [Slot -> SUBSET Signal]
        /\ blocked' \in [Slot -> SUBSET Signal] /\ alarm' \in [Slot -> Nat]
    BY <1>1, <1>6, <2>1 DEF TypeOK
  <2>5. pid' \in [Slot -> Nat] /\ father' \in [Slot -> Int]
    BY <1>1, <1>4, <1>6, <2>1 DEF TypeOK
  <2> QED
    BY <1>1, <1>4, <1>6, <2>2, <2>3, <2>4, <2>5 DEF TypeOK
<1>9. CounterBound'
  <2>1. Priority \in Nat /\ Priority < 2 * Priority
    BY SchedAssumption
  <2> QED
    BY <1>1, <1>6, <2>1 DEF CounterBound, TypeOK
<1>10. RunnerReady'
  BY <1>1, <1>3, <1>6, <1>7 DEF RunnerReady, TypeOK
<1>11. NextPid >= 1 /\ NextPid # 1
  <2>1. last_pid \in Nat /\ last_pid >= 1 /\ pid[current] \in Nat /\ pid[current] >= 1
        /\ pid[current] <= last_pid /\ pid[current] # NextPid
    BY <1>1, <1>4 DEF PidOrder, TypeOK
  <2> QED
    BY <1>4, <2>1
<1>12. PidOrder'
  <2>1. \A i \in Live : pid'[i] = pid[i] /\ i # nr
    BY <1>1, <1>2, <1>6 DEF TypeOK
  <2>2. pid'[nr] = NextPid
    BY <1>1, <1>3, <1>6 DEF TypeOK
  <2>3. \A i \in Live : pid[i] \in Nat /\ pid[i] >= 1 /\ pid[i] <= last_pid /\ (pid[i] = 1 => i = 1)
    BY <1>1 DEF PidOrder, TypeOK
  <2>4. last_pid \in Nat
    BY <1>1 DEF TypeOK
  <2>5. \A i \in Live' : pid'[i] >= 1 /\ pid'[i] <= last_pid' /\ (pid'[i] = 1 => i = 1)
    BY <1>4, <1>7, <1>11, <2>1, <2>2, <2>3, <2>4
  <2> QED
    BY <1>4, <1>11, <2>5 DEF PidOrder
<1>13. PidsUnique'
  BY <1>1, <1>2, <1>3, <1>4, <1>6, <1>7 DEF PidsUnique, TypeOK
<1>14. NoLostChild'
  <2> SUFFICES ASSUME NEW i \in Live', NEW z \in Live',
                      pc'[i] = "wait", father'[z] = pid'[i],
                      arg'[i] = 0 \/ arg'[i] = pid'[z], state'[z] = "ZOMBIE"
               PROVE  SIGCHLD \in signal'[i]
    BY DEF NoLostChild
  <2>1. i # nr /\ z # nr
    BY <1>1, <1>3, <1>6 DEF TypeOK
  <2>2. i \in Live /\ z \in Live
    BY <1>7, <2>1
  <2>3. /\ pc[i] = "wait" /\ father[z] = pid[i] /\ arg[i] = arg'[i]
        /\ pid'[z] = pid[z] /\ state[z] = "ZOMBIE" /\ signal'[i] = signal[i]
    BY <1>1, <1>6, <2>1, <2>2 DEF TypeOK
  <2> QED
    BY <1>1, <2>2, <2>3 DEF NoLostChild
<1>15. QED
  BY <1>8, <1>9, <1>10, <1>12, <1>13, <1>14 DEF SchedInv

\* A step that calls schedule() with a table that has lost tasks or none, and
\* gives nobody a new pid.
LEMMA TableSchedule ==
    ASSUME SchedInv,
           NEW tk \in [UserSlot -> Page \cup {NULL}],
           \A i \in UserSlot : tk[i] # NULL => task[i] # NULL,
           NEW st \in [Slot -> States],
           NEW sg \in [Slot -> SUBSET Signal],
           Schedule(tk, st, sg, counter, alarm, jiffies),
           task' = tk,
           father' \in [Slot -> Int], pc' \in [Slot -> Places],
           arg' \in [Slot -> Nat], freed' \in [Slot -> Page \cup {NULL}],
           UNCHANGED <<blocked, pid, jiffies, last_pid, panicked>>
    PROVE  /\ TypeOK' /\ CounterBound' /\ RunnerReady' /\ PidOrder' /\ PidsUnique'
           /\ Live' \subseteq Live
           /\ \A i \in Slot : /\ sg[i] \subseteq signal'[i]
                              /\ state'[i] = "ZOMBIE" => st[i] = "ZOMBIE"
<1>1. /\ TypeOK /\ counter \in [Slot -> Nat] /\ alarm \in [Slot -> Nat] /\ jiffies \in Nat
      /\ \A i \in Slot : counter[i] < 2 * Priority
  BY DEF SchedInv, TypeOK, CounterBound
<1>2. /\ state' \in [Slot -> States] /\ signal' \in [Slot -> SUBSET Signal]
      /\ counter' \in [Slot -> Nat] /\ alarm' \in [Slot -> Nat] /\ current' \in Slot
      /\ \A i \in Slot : counter'[i] < 2 * Priority
      /\ \A i \in Slot : sg[i] \subseteq signal'[i]
      /\ \A i \in Slot : \/ state'[i] = st[i]
                         \/ st[i] = "INTERRUPTIBLE" /\ state'[i] = "RUNNING"
      /\ current' # 0 => /\ current' \in UserSlot
                         /\ tk[current'] # NULL
                         /\ state'[current'] = "RUNNING"
  BY <1>1, ScheduleProps
<1>3. TypeOK'
  BY <1>1, <1>2 DEF TypeOK
<1>4. CounterBound'
  BY <1>2 DEF CounterBound
<1>5. Live' \subseteq Live
  BY DEF Live
<1>6. RunnerReady'
  BY <1>2 DEF RunnerReady, Live
<1>7. PidOrder'
  BY <1>5 DEF SchedInv, PidOrder
<1>8. PidsUnique'
  BY <1>5 DEF SchedInv, PidsUnique
<1>9. \A i \in Slot : state'[i] = "ZOMBIE" => st[i] = "ZOMBIE"
  BY <1>2
<1>10. QED
  BY <1>2, <1>3, <1>4, <1>5, <1>6, <1>7, <1>8, <1>9

\* exit() tells whoever waits for the new zombie, and task 1 when zombies
\* come to it.
LEMMA ExitInv == SchedInv /\ Exit => SchedInv'
<1> SUFFICES ASSUME SchedInv, Exit PROVE SchedInv'
  OBVIOUS
<1> DEFINE told == (IF Adopted # {} THEN {1} \cap Live ELSE {})
                   \cup (IF FatherSlots # {} THEN {MinOf(FatherSlots)} ELSE {})
           st   == [state EXCEPT ![current] = "ZOMBIE"]
           tk   == IF FatherSlots # {} THEN task ELSE [task EXCEPT ![current] = NULL]
<1>1. /\ TypeOK /\ PidOrder /\ PidsUnique /\ NoLostChild /\ current \in Slot
      /\ current # 0 /\ current \in Live /\ \A i \in Live : i \in Slot
      /\ \A i \in Live : i \in UserSlot
  BY DEF SchedInv, TypeOK, Exit, RunnerReady, Live
<1>2. /\ task' = tk /\ father' = [i \in Slot |-> Reparent(i)] /\ Goto("dead")
      /\ Schedule(tk, st, ExitSignals, counter, alarm, jiffies)
      /\ UNCHANGED <<blocked, pid, arg, freed, jiffies, last_pid, panicked>>
  BY DEF Exit
<1>3. /\ ExitSignals \in [Slot -> SUBSET Signal]
      /\ \A i \in Slot : signal[i] \subseteq ExitSignals[i]
      /\ \A i \in Slot : i \in told => SIGCHLD \in ExitSignals[i]
  <2>1. ExitSignals = [i \in Slot |-> IF i \in told THEN signal[i] \cup {SIGCHLD} ELSE signal[i]]
    BY DEF ExitSignals
  <2>2. SIGCHLD \in Signal /\ signal \in [Slot -> SUBSET Signal]
    BY <1>1 DEF SIGCHLD, Signal, TypeOK
  <2> HIDE DEF told
  <2> QED
    BY <2>1, <2>2
<1>4. /\ tk \in [UserSlot -> Page \cup {NULL}] /\ st \in [Slot -> States]
      /\ \A i \in UserSlot : tk[i] # NULL => task[i] # NULL
  BY <1>1 DEF TypeOK, States
<1>5. /\ father' \in [Slot -> Int] /\ pc' \in [Slot -> Places]
      /\ arg' \in [Slot -> Nat] /\ freed' \in [Slot -> Page \cup {NULL}]
      /\ \A i \in Slot : pc'[i] = "wait" => pc[i] = "wait" /\ i # current
  BY <1>1, <1>2 DEF TypeOK, Goto, Places, Reparent
<1> HIDE DEF tk, st
<1>6. /\ TypeOK' /\ CounterBound' /\ RunnerReady' /\ PidOrder' /\ PidsUnique'
      /\ Live' \subseteq Live
      /\ \A i \in Slot : /\ ExitSignals[i] \subseteq signal'[i]
                         /\ state'[i] = "ZOMBIE" => st[i] = "ZOMBIE"
  BY <1>2, <1>3, <1>4, <1>5, TableSchedule
<1>7. NoLostChild'
  <2> SUFFICES ASSUME NEW i \in Live', NEW z \in Live',
                      pc'[i] = "wait", father'[z] = pid[i],
                      arg'[i] = 0 \/ arg'[i] = pid[z], state'[z] = "ZOMBIE"
               PROVE  SIGCHLD \in signal'[i]
    BY <1>2 DEF NoLostChild
  <2>1. /\ i \in Live /\ z \in Live /\ i \in Slot /\ z \in Slot /\ pc[i] = "wait" /\ i # current
        /\ st[z] = "ZOMBIE" /\ father'[z] = Reparent(z) /\ arg'[i] = arg[i]
    BY <1>1, <1>2, <1>5, <1>6
  <2>2. i \in told => SIGCHLD \in signal'[i]
    BY <1>3, <1>6, <2>1
  <2>3. SIGCHLD \in signal[i] => SIGCHLD \in signal'[i]
    BY <1>3, <1>6, <2>1
  <2>4. CASE z = current
    <3>1. i \in FatherSlots
      BY <2>1, <2>4 DEF FatherSlots
    <3>2. FatherSlots \in SUBSET Nat
      <4>1. FatherSlots \subseteq Slot
        BY <1>1 DEF FatherSlots
      <4>2. Slot \subseteq Nat
        BY SchedAssumption DEF Slot
      <4> QED
        BY <4>1, <4>2
    <3>3. MinOf(FatherSlots) \in FatherSlots
      BY <3>1, <3>2, MinOfProps
    <3>4. MinOf(FatherSlots) = i
      BY <1>1, <3>1, <3>3 DEF FatherSlots, PidsUnique
    <3> QED
      BY <2>2, <3>1, <3>4
  <2>5. CASE z # current /\ father[z] # pid[current]
    <3>1. father[z] = pid[i] /\ state[z] = "ZOMBIE"
      BY <1>1, <2>1, <2>5 DEF Reparent, st, TypeOK
    <3> QED
      BY <1>1, <2>1, <2>3, <3>1 DEF NoLostChild
  <2>6. CASE z # current /\ father[z] = pid[current]
    <3>1. pid[i] = 1 /\ state[z] = "ZOMBIE"
      BY <1>1, <2>1, <2>6 DEF Reparent, st, TypeOK
    <3>2. i = 1 /\ z \in Adopted
      BY <1>1, <2>1, <2>6, <3>1 DEF PidOrder, Adopted
    <3> QED
      BY <2>1, <2>2, <3>2
  <2> QED
    BY <2>4, <2>5, <2>6
<1>8. QED
  BY <1>6, <1>7 DEF SchedInv

\* release() takes a task out of the table and leaves the caller in release(),
\* whatever signals the caller has taken back from itself before.
LEMMA ReleaseInv ==
    ASSUME SchedInv, NEW i \in Live, NEW sg \in [Slot -> SUBSET Signal],
           \A k \in Slot : k # current => sg[k] = signal[k],
           Release(i, sg),
           UNCHANGED <<blocked, pid, father, jiffies, last_pid, panicked>>
    PROVE  SchedInv'
<1> DEFINE tk == [task EXCEPT ![i] = NULL]
<1>1. /\ TypeOK /\ NoLostChild /\ i \in UserSlot /\ i \in Nat /\ current \in Slot
      /\ state \in [Slot -> States] /\ \A k \in Live : k \in Slot
  <2>1. Slot \subseteq Nat
    BY SchedAssumption DEF Slot
  <2> QED
    BY <2>1 DEF SchedInv, TypeOK, Live
<1>2. /\ task' = tk /\ Schedule(tk, state, sg, counter, alarm, jiffies)
      /\ pc' = [pc EXCEPT ![current] = "release"]
      /\ arg' = [arg EXCEPT ![current] = i]
      /\ freed' = [freed EXCEPT ![current] = task[i]]
  BY DEF Release
<1>3. /\ tk \in [UserSlot -> Page \cup {NULL}]
      /\ \A k \in UserSlot : tk[k] # NULL => task[k] # NULL
  BY <1>1 DEF TypeOK
<1>4. /\ father' \in [Slot -> Int] /\ pc' \in [Slot -> Places]
      /\ arg' \in [Slot -> Nat] /\ freed' \in [Slot -> Page \cup {NULL}]
  BY <1>1, <1>2 DEF TypeOK, Places
<1> HIDE DEF tk
<1>5. /\ TypeOK' /\ CounterBound' /\ RunnerReady' /\ PidOrder' /\ PidsUnique'
      /\ Live' \subseteq Live
      /\ \A k \in Slot : /\ sg[k] \subseteq signal'[k]
                         /\ state'[k] = "ZOMBIE" => state[k] = "ZOMBIE"
  <2>1. \A k \in UserSlot : tk[k] # NULL => task[k] # NULL
    BY <1>3
  <2>2. /\ Schedule(tk, state, sg, counter, alarm, jiffies) /\ task' = tk
        /\ UNCHANGED <<blocked, pid, jiffies, last_pid, panicked>>
    BY <1>2
  <2> QED
    BY <1>1, <1>3, <1>4, <2>1, <2>2, TableSchedule
<1>6. NoLostChild'
  <2> SUFFICES ASSUME NEW k \in Live', NEW z \in Live',
                      pc'[k] = "wait", father[z] = pid[k],
                      arg'[k] = 0 \/ arg'[k] = pid[z], state'[z] = "ZOMBIE"
               PROVE  SIGCHLD \in signal'[k]
    BY DEF NoLostChild
  <2>1. k \in Live /\ z \in Live /\ k \in Slot /\ z \in Slot /\ state[z] = "ZOMBIE"
    BY <1>1, <1>5
  <2>2. k # current /\ pc[k] = "wait" /\ arg[k] = arg'[k]
    BY <1>1, <1>2, <2>1 DEF TypeOK
  <2>3. SIGCHLD \in signal[k]
    BY <1>1, <2>1, <2>2 DEF NoLostChild
  <2> QED
    BY <1>5, <2>1, <2>2, <2>3
<1>7. QED
  BY <1>5, <1>6 DEF SchedInv

\* The scan of waitpid() sleeps only when no child it waits for is a zombie.
LEMMA WaitScanInv ==
    ASSUME SchedInv,
           NEW who \in Nat, NEW nohang \in BOOLEAN, NEW sg \in [Slot -> SUBSET Signal],
           \A k \in Slot : k # current => sg[k] = signal[k],
           WaitScan(who, nohang, sg),
           UNCHANGED <<blocked, pid, father, jiffies, last_pid, panicked>>
    PROVE  SchedInv'
<1> DEFINE zombies == {i \in Children(who) : state[i] = "ZOMBIE"}
           st == [state EXCEPT ![current] = "INTERRUPTIBLE"]
<1>1. /\ TypeOK /\ CounterBound /\ NoLostChild /\ current \in Slot
      /\ \A k \in Live : k \in Slot
  BY DEF SchedInv, RunnerReady, TypeOK, Live
<1>2. CASE zombies # {}
  <2>1. Release(MaxOf(zombies), sg)
    BY <1>2 DEF WaitScan
  <2>2. zombies \in SUBSET Nat /\ \A k \in zombies : k <= NR_TASKS
    <3>1. \A k \in Slot : k \in Nat /\ k <= NR_TASKS
      BY SchedAssumption DEF Slot
    <3> QED
      BY <1>1, <3>1 DEF Children
  <2>3. zombies \subseteq Live
    BY DEF Children
  <2> HIDE DEF zombies
  <2>4. MaxOf(zombies) \in Live
    BY <1>2, <2>2, <2>3, MaxOfProps, SchedAssumption
  <2> QED
    BY <2>1, <2>4, ReleaseInv
<1>3. CASE zombies = {} /\ (Children(who) = {} \/ nohang)
  <2>1. /\ Goto("ret") /\ signal' = sg
        /\ UNCHANGED <<state, counter, alarm, arg, current, task, freed>>
    BY <1>3 DEF WaitScan
  <2>2. pc' \in [Slot -> Places] /\ \A k \in Slot : pc'[k] = "wait" => pc[k] = "wait" /\ k # current
    BY <1>1, <2>1 DEF TypeOK, Goto, Places
  <2>3. TypeOK' /\ CounterBound'
    BY <1>1, <2>1, <2>2 DEF TypeOK, CounterBound
  <2>4. last_pid' >= last_pid
    BY <1>1 DEF TypeOK
  <2> QED
    BY <1>1, <2>1, <2>2, <2>3, <2>4, QuietCall
<1>4. CASE zombies = {} /\ ~(Children(who) = {} \/ nohang)
  <2>1. /\ Schedule(task, st, sg, counter, alarm, jiffies)
        /\ Goto("wait") /\ arg' = [arg EXCEPT ![current] = who]
        /\ UNCHANGED <<task, freed>>
    BY <1>4 DEF WaitScan
  <2>2. /\ task \in [UserSlot -> Page \cup {NULL}] /\ st \in [Slot -> States]
        /\ \A k \in UserSlot : task[k] # NULL => task[k] # NULL
    BY <1>1 DEF TypeOK, States
  <2>3. /\ father' \in [Slot -> Int] /\ pc' \in [Slot -> Places]
        /\ arg' \in [Slot -> Nat] /\ freed' \in [Slot -> Page \cup {NULL}]
    BY <1>1, <2>1 DEF TypeOK, Goto, Places
  <2> HIDE DEF st
  <2>4. /\ TypeOK' /\ CounterBound' /\ RunnerReady' /\ PidOrder' /\ PidsUnique'
        /\ Live' \subseteq Live
        /\ \A k \in Slot : /\ sg[k] \subseteq signal'[k]
                           /\ state'[k] = "ZOMBIE" => st[k] = "ZOMBIE"
    <3>1. st \in [Slot -> States] /\ sg \in [Slot -> SUBSET Signal]
      BY <1>1, <2>2
    <3>2. UNCHANGED <<blocked, pid, jiffies, last_pid, panicked>>
      BY DEF WaitScan
    <3>3. SchedInv /\ task' = task
      BY <2>1
    <3> QED
      BY ONLY <2>1, <2>2, <2>3, <3>1, <3>2, <3>3, TableSchedule
  <2>5. NoLostChild'
    <3> SUFFICES ASSUME NEW k \in Live', NEW z \in Live',
                        pc'[k] = "wait", father[z] = pid[k],
                        arg'[k] = 0 \/ arg'[k] = pid[z], state'[z] = "ZOMBIE"
                 PROVE  SIGCHLD \in signal'[k]
      BY DEF NoLostChild
    <3>1. /\ k \in Live /\ z \in Live /\ k \in Slot /\ z \in Slot
          /\ z # current /\ state[z] = "ZOMBIE"
      BY <1>1, <2>4 DEF st, TypeOK
    <3>2. CASE k = current
      <4>1. arg'[k] = who
        BY <1>1, <2>1, <3>2 DEF TypeOK
      <4>2. z \in zombies
        BY <3>1, <3>2, <4>1 DEF Children
      <4> QED
        BY <1>4, <4>2
    <3>3. CASE k # current
      <4>1. pc[k] = "wait" /\ arg'[k] = arg[k]
        BY <1>1, <2>1, <3>1, <3>3 DEF TypeOK, Goto
      <4>2. SIGCHLD \in signal[k]
        BY <1>1, <3>1, <4>1 DEF NoLostChild
      <4> QED
        BY <2>4, <3>1, <3>3, <4>2
    <3> QED
      BY <3>2, <3>3
  <2> QED
    BY <2>4, <2>5 DEF SchedInv
<1>5. QED
  BY <1>2, <1>3, <1>4

\* sys_waitpid(), before and after its sleep.
LEMMA WaitInv ==
    ASSUME SchedInv,
           \/ \E who \in 0..MaxPid, nohang \in BOOLEAN : Waitpid(who, nohang)
           \/ WaitResumes
    PROVE  SchedInv'
<1>1. TypeOK /\ CounterBound /\ current \in Slot /\ \A k \in Live : k \in Slot
  BY DEF SchedInv, TypeOK, Live
<1>2. CASE \E who \in 0..MaxPid, nohang \in BOOLEAN : Waitpid(who, nohang)
  <2>1. PICK who \in 0..MaxPid, nohang \in BOOLEAN : Waitpid(who, nohang)
    BY <1>2
  <2>2. who \in Nat /\ signal \in [Slot -> SUBSET Signal]
    BY <1>1, SchedAssumption DEF TypeOK
  <2>3. /\ current # 0 /\ WaitScan(who, nohang, signal)
        /\ UNCHANGED <<blocked, pid, father, jiffies, last_pid, panicked>>
    BY <2>1 DEF Waitpid
  <2> QED
    BY <2>2, <2>3, WaitScanInv
<1>3. CASE WaitResumes
  <2> DEFINE sg == [signal EXCEPT ![current] = @ \ {SIGCHLD}]
  <2>1. /\ sg \in [Slot -> SUBSET Signal] /\ arg[current] \in Nat
        /\ \A k \in Slot : k # current => sg[k] = signal[k]
    BY <1>1 DEF TypeOK
  <2>2. UNCHANGED <<blocked, pid, father, jiffies, last_pid, panicked>>
    BY <1>3 DEF WaitResumes
  <2>3. CASE sg[current] = {}
    <3>1. WaitScan(arg[current], FALSE, sg)
      BY <1>3, <2>3 DEF WaitResumes
    <3> HIDE DEF sg
    <3> QED
      BY <1>3, <2>1, <2>2, <3>1, WaitScanInv
  <2>4. CASE sg[current] # {}
    <3>1. /\ signal' = sg /\ Goto("ret")
          /\ UNCHANGED <<task, state, counter, alarm, arg, freed, current>>
      BY <1>3, <2>4 DEF WaitResumes
    <3> HIDE DEF sg
    <3>2. pc' \in [Slot -> Places] /\ \A k \in Slot : pc'[k] = "wait" => pc[k] = "wait" /\ k # current
      BY <1>1, <3>1 DEF TypeOK, Goto, Places
    <3>3. TypeOK' /\ CounterBound'
      BY <1>1, <2>1, <2>2, <3>1, <3>2 DEF TypeOK, CounterBound
    <3>4. last_pid' >= last_pid
      BY <1>1, <2>2 DEF TypeOK
    <3> QED
      BY <1>1, <2>1, <2>2, <3>1, <3>2, <3>3, <3>4, QuietCall
  <2> QED
    BY <2>3, <2>4
<1>4. QED
  BY <1>2, <1>3

\* release() takes a second task only when its page is the freed one.
LEMMA ReleaseContinuesInv == SchedInv /\ ReleaseContinues => SchedInv'
<1> SUFFICES ASSUME SchedInv, ReleaseContinues PROVE SchedInv'
  OBVIOUS
<1> DEFINE again == {i \in Live : i > arg[current] /\ task[i] = freed[current]}
<1>1. /\ TypeOK /\ CounterBound /\ signal \in [Slot -> SUBSET Signal]
      /\ UNCHANGED <<blocked, pid, father, jiffies, last_pid>>
  BY DEF SchedInv, TypeOK, ReleaseContinues
<1>2. CASE again # {}
  <2>1. Release(MinOf(again), signal) /\ UNCHANGED panicked
    BY <1>2 DEF ReleaseContinues
  <2>2. again \subseteq Live /\ again \in SUBSET Nat
    <3>1. Slot \subseteq Nat
      BY SchedAssumption DEF Slot
    <3> QED
      BY <3>1 DEF Live
  <2> HIDE DEF again
  <2>3. MinOf(again) \in Live
    BY <1>2, <2>2, MinOfProps
  <2> QED
    BY <1>1, <2>1, <2>3, ReleaseInv
<1>3. CASE again = {}
  <2>1. /\ panicked' = TRUE
        /\ UNCHANGED <<task, state, counter, signal, alarm, pc, arg, freed, current>>
    BY <1>3 DEF ReleaseContinues
  <2>2. TypeOK' /\ CounterBound'
    BY <1>1, <2>1 DEF TypeOK, CounterBound
  <2>3. last_pid' >= last_pid
    BY <1>1 DEF TypeOK
  <2> QED
    BY <1>1, <2>1, <2>2, <2>3, QuietCall
<1>4. QED
  BY <1>2, <1>3

-----------------------------------------------------------------------------
\* Every handler, interrupt and dispatch keeps the invariant.
LEMMA NextInv == SchedInv /\ [Next]_vars => SchedInv'
<1> SUFFICES ASSUME SchedInv, [Next]_vars PROVE SchedInv'
  OBVIOUS
<1>1. CASE UserStep
  BY <1>1, SleepCallsInv, PlainCallsInv, ForkInv, ExitInv, WaitInv DEF UserStep
<1>2. CASE KernelStep
  BY <1>2, SleepCallsInv, PlainCallsInv, ReleaseContinuesInv, WaitInv DEF KernelStep
<1>3. CASE Tick
  BY <1>3, TickInv
<1>4. CASE \E i \in UserSlot : DeviceWake(i)
  <2>1. PICK i \in UserSlot : DeviceWake(i)
    BY <1>4
  <2> QED
    BY <2>1, DeviceWakeInv
<1>5. CASE UNCHANGED vars
  <2> USE <1>5 DEF vars, taskFields
  <2>1. TypeOK' /\ CounterBound'
    BY DEF SchedInv, TypeOK, CounterBound
  <2>2. RunnerReady' /\ PidOrder' /\ PidsUnique' /\ NoLostChild'
    BY DEF SchedInv, RunnerReady, PidOrder, PidsUnique, NoLostChild, Live
  <2> QED
    BY <2>1, <2>2 DEF SchedInv
<1>6. QED
  BY <1>1, <1>2, <1>3, <1>4, <1>5 DEF Next

\* The inductive invariant holds in every reachable state.
THEOREM SchedCorrect == Spec => []SchedInv
BY InitInv, NextInv, PTL DEF Spec

\* The task table and the scheduler's variables keep their types.
THEOREM TypeCorrect == Spec => []TypeOK
<1>1. SchedInv => TypeOK
  BY DEF SchedInv
<1>2. QED
  BY <1>1, SchedCorrect, PTL

\* However the halving of schedule() and the ticks of the timer follow each
\* other, no task saves up twice its priority.
THEOREM CounterBounded == Spec => []CounterBound
<1>1. SchedInv => CounterBound
  BY DEF SchedInv
<1>2. QED
  BY <1>1, SchedCorrect, PTL

\* The processor is only ever with the idle task or with a runnable one.
THEOREM RunnerIsReady == Spec => []RunnerReady
<1>1. SchedInv => RunnerReady
  BY DEF SchedInv
<1>2. QED
  BY <1>1, SchedCorrect, PTL

\* find_empty_process() and the order of the pids keep pids apart, also when
\* pids are given out again.
THEOREM PidsAreUnique == Spec => []PidsUnique
<1>1. SchedInv => PidsUnique
  BY DEF SchedInv
<1>2. QED
  BY <1>1, SchedCorrect, PTL

\* No exit of a child is lost to a father that sleeps in waitpid().
THEOREM NoChildIsLost == Spec => []NoLostChild
<1>1. SchedInv => NoLostChild
  BY DEF SchedInv
<1>2. QED
  BY <1>1, SchedCorrect, PTL

-----------------------------------------------------------------------------
(***************************************************************************)
(* Fathers and the life cycle.  What these need besides: no two tasks have *)
(* a page in common, so that a task in release() does not find itself; and *)
(* every task has a father that is not a zombie, or task 1, until the      *)
(* first child is reaped.                                                  *)
(***************************************************************************)
IdlePlaces == {"user", "ret", "sig"}

PageInv ==
    /\ \A i, j \in Live : task[i] = task[j] => i = j
    /\ \A i \in Live : pc[i] = "release" => task[i] # freed[i]
    /\ pc[0] \in IdlePlaces

HasFather(i) ==
    father[i] \in {0, 1} \/ \E j \in Live : pid[j] = father[i] /\ state[j] # "ZOMBIE"

FamilyInv ==
    /\ ~Doomed => \A i \in Live : HasFather(i)
    /\ \A i \in Live : father[i] = 0 => i = 1

TableInv == SchedInv /\ PageInv /\ FamilyInv

Woken(s, t) == s \in {"INTERRUPTIBLE", "UNINTERRUPTIBLE"} /\ t = "RUNNING"

Dispatched ==
    \/ /\ current' \in UserSlot /\ task'[current'] # NULL
       /\ state'[current'] = "RUNNING"
    \/ /\ current' = 0
       /\ \A i \in UserSlot : task'[i] # NULL => state'[i] # "RUNNING"

\* A step of the running task, or an interrupt, that leaves the table as it is.
Moves(i) ==
    /\ i = current /\ pc[i] # "release"
    /\ pc'[i] \in IdlePlaces \/ (pc'[i] \in {"dev", "wait"} /\ i # 0)

Calm ==
    /\ UNCHANGED <<task, pid, father, freed, panicked>>
    /\ \A i \in Slot : pc'[i] = pc[i] \/ Moves(i)
    /\ \A i \in Slot \ {current} : state'[i] = state[i] \/ Woken(state[i], state'[i])
    /\ \/ UNCHANGED current /\ state'[current] = state[current]
       \/ Dispatched /\ (current # 0 => state'[current] # "ZOMBIE")

LEMMA TableInit == Init => TableInv
<1> SUFFICES ASSUME Init PROVE TableInv
  OBVIOUS
<1>1. 0 \in Slot /\ 1 \in Slot
  BY SchedAssumption DEF Slot
<1>2. PICK p \in Page : task = [i \in UserSlot |-> IF i = 1 THEN p ELSE NULL]
  BY DEF Init
<1>3. Live = {1}
  BY <1>1, <1>2, SchedAssumption DEF Live
<1>4. PageInv
  BY <1>1, <1>3 DEF Init, PageInv, IdlePlaces
<1>5. father[1] = 0
  BY <1>1 DEF Init
<1>6. FamilyInv
  BY <1>3, <1>5 DEF FamilyInv, HasFather
<1> QED
  BY <1>4, <1>6, InitInv DEF TableInv

\* schedule() leaves the processor idle only when no task can run.
LEMMA ScheduleIdle ==
    ASSUME NEW tk \in [UserSlot -> Page \cup {NULL}],
           NEW st \in [Slot -> States],
           NEW sg \in [Slot -> SUBSET Signal],
           NEW cn \in [Slot -> Nat],
           \A i \in Slot : cn[i] < 2 * Priority,
           NEW al \in [Slot -> Nat], NEW now \in Nat,
           Schedule(tk, st, sg, cn, al, now),
           task' = tk
    PROVE  /\ Dispatched
           /\ \A i \in Slot : state'[i] = st[i] \/ Woken(st[i], state'[i])
<1> DEFINE live  == {i \in UserSlot : tk[i] # NULL}
           sg1   == RaiseAlarms(live, sg, al, now)
           st1   == WakeSignalled(live, st, sg1)
           ready == {i \in live : st1[i] = "RUNNING"}
           cn1   == Refill(live, ready, cn)
<1>1. state' = st1 /\ counter' = cn1 /\ current' = Pick(ready, cn1)
  BY DEF Schedule
<1>2. /\ counter' \in [Slot -> Nat] /\ \A i \in Slot : counter'[i] < 2 * Priority
      /\ \A i \in Slot : \/ state'[i] = st[i]
                         \/ st[i] = "INTERRUPTIBLE" /\ state'[i] = "RUNNING"
  BY ScheduleProps
<1>3. ready \in SUBSET UserSlot
  OBVIOUS
<1>4. \A i \in UserSlot : i \in ready <=> task'[i] # NULL /\ state'[i] = "RUNNING"
  BY <1>1
<1> HIDE DEF ready, cn1, st1
<1>5. 2 * Priority \in Nat /\ \A i \in Slot : counter'[i] <= 2 * Priority
  <2>1. \A x \in Nat : x < 2 * Priority => x <= 2 * Priority
    BY SchedAssumption
  <2> QED
    BY <1>2, <2>1, SchedAssumption
<1>6. /\ ready = {} => current' = 0
      /\ ready # {} => current' \in ready
  BY <1>1, <1>2, <1>3, <1>5, PickProps
<1>7. Dispatched
  BY <1>3, <1>4, <1>6 DEF Dispatched
<1> QED
  BY <1>2, <1>7 DEF Woken

\* Calls of schedule() that leave the table as it is.
LEMMA SleepIsCalm ==
    ASSUME TableInv,
           NEW s \in States, current # 0 => s # "ZOMBIE",
           NEW sg \in [Slot -> SUBSET Signal],
           NEW cn \in [Slot -> Nat], \A i \in Slot : cn[i] < 2 * Priority,
           NEW al \in [Slot -> Nat], NEW now \in Nat,
           Schedule(task, [state EXCEPT ![current] = s], sg, cn, al, now),
           NEW place \in IdlePlaces \cup {"dev", "wait"},
           place \in IdlePlaces \/ current # 0,
           pc[current] # "release",
           Goto(place),
           UNCHANGED <<task, pid, father, freed, panicked>>
    PROVE  Calm
<1> DEFINE st == [state EXCEPT ![current] = s]
<1>1. TypeOK /\ current \in Slot
  BY DEF TableInv, SchedInv, TypeOK
<1>2. /\ st \in [Slot -> States] /\ st[current] = s
      /\ \A i \in Slot \ {current} : st[i] = state[i]
  BY <1>1 DEF TypeOK
<1> HIDE DEF st
<1>3. Schedule(task, st, sg, cn, al, now)
  BY DEF st
<1>4. task \in [UserSlot -> Page \cup {NULL}]
  BY <1>1 DEF TypeOK
<1>5. Dispatched /\ \A i \in Slot : state'[i] = st[i] \/ Woken(st[i], state'[i])
  BY <1>2, <1>3, <1>4, ScheduleIdle
<1>6. current # 0 => state'[current] # "ZOMBIE"
  BY <1>1, <1>2, <1>5 DEF Woken
<1>7. \A i \in Slot \ {current} : state'[i] = state[i] \/ Woken(state[i], state'[i])
  BY <1>2, <1>5
<1>8. \A i \in Slot : pc'[i] = pc[i] \/ Moves(i)
  BY <1>1 DEF Goto, Moves, TypeOK
<1> QED
  BY <1>5, <1>6, <1>7, <1>8 DEF Calm

\* Steps without schedule().
LEMMA PlainIsCalm ==
    ASSUME TypeOK,
           UNCHANGED <<task, pid, father, freed, panicked, current, state>>,
           NEW place \in IdlePlaces, Goto(place), pc[current] # "release"
    PROVE  Calm
<1>1. \A i \in Slot : pc'[i] = pc[i] \/ Moves(i)
  BY DEF Goto, Moves, TypeOK
<1> QED
  BY <1>1 DEF Calm

\* Signals that are sent or taken, and what is left of a time slice.
LEMMA TableFacts ==
    ASSUME TableInv
    PROVE  /\ TypeOK /\ current \in Slot /\ state \in [Slot -> States]
           /\ signal \in [Slot -> SUBSET Signal] /\ counter \in [Slot -> Nat]
           /\ \A i \in Slot : counter[i] < 2 * Priority
           /\ alarm \in [Slot -> Nat] /\ jiffies \in Nat
           /\ current # 0 => current \in Live /\ state[current] = "RUNNING"
           /\ current = 0 => pc[current] \in IdlePlaces
  BY DEF TableInv, SchedInv, TypeOK, CounterBound, RunnerReady, PageInv

LEMMA UserCallsCalm ==
    ASSUME TableInv,
           \/ Pause
           \/ \E s \in AlarmSeconds : Alarm(s) \/ SleepFor(s)
           \/ \E m \in Masks : SetMask(m)
           \/ \E p \in 1..MaxPid, sig \in KillSignals : Kill(p, sig)
           \/ \E st \in DeviceSleeps : DeviceSleep(st)
           \/ ForkFails \/ DeviceSleepReturn \/ DeliverSignal
    PROVE  Calm
<1>1. /\ TypeOK /\ current \in Slot /\ state \in [Slot -> States]
      /\ signal \in [Slot -> SUBSET Signal] /\ counter \in [Slot -> Nat]
      /\ \A i \in Slot : counter[i] < 2 * Priority
      /\ alarm \in [Slot -> Nat] /\ jiffies \in Nat
  BY TableFacts
<1>2. /\ "ret" \in IdlePlaces /\ "sig" \in IdlePlaces /\ "user" \in IdlePlaces
      /\ "dev" \in IdlePlaces \cup {"dev", "wait"}
      /\ "INTERRUPTIBLE" \in States /\ "UNINTERRUPTIBLE" \in States
  BY DEF IdlePlaces, States
<1>3. CASE Pause
  <2>1. /\ pc[current] # "release" /\ Goto("ret")
        /\ Schedule(task, [state EXCEPT ![current] = "INTERRUPTIBLE"], signal, counter,
                    alarm, jiffies)
        /\ UNCHANGED <<task, pid, father, freed, panicked>>
    BY <1>3 DEF Pause, Sleep, At, Goto
  <2> QED
    BY <1>1, <1>2, <2>1, SleepIsCalm
<1>4. ASSUME NEW s \in AlarmSeconds, SleepFor(s) PROVE Calm
  <2>1. /\ pc[current] # "release" /\ Goto("ret")
        /\ Schedule(task, [state EXCEPT ![current] = "INTERRUPTIBLE"], signal, counter,
                    [alarm EXCEPT ![current] = AlarmTime(s)], jiffies)
        /\ UNCHANGED <<task, pid, father, freed, panicked>>
    BY <1>4 DEF SleepFor, At
  <2>2. [alarm EXCEPT ![current] = AlarmTime(s)] \in [Slot -> Nat]
    <3>1. s \in Nat /\ HZ \in Nat
      BY SchedAssumption
    <3>2. AlarmTime(s) \in Nat
      BY <1>1, <3>1 DEF AlarmTime
    <3> QED
      BY <1>1, <3>2
  <2> QED
    BY <1>1, <1>2, <2>1, <2>2, SleepIsCalm
<1>5. ASSUME NEW st \in DeviceSleeps, DeviceSleep(st) PROVE Calm
  <2>1. /\ pc[current] # "release" /\ Goto("dev") /\ current # 0
        /\ Schedule(task, [state EXCEPT ![current] = st], signal, counter, alarm, jiffies)
        /\ UNCHANGED <<task, pid, father, freed, panicked>>
    BY <1>5 DEF DeviceSleep, Sleep, At, Goto
  <2>2. st \in States /\ st # "ZOMBIE"
    BY SchedAssumption DEF States
  <2> QED
    BY <1>1, <1>2, <2>1, <2>2, SleepIsCalm
<1>6. ASSUME NEW s \in AlarmSeconds, Alarm(s) PROVE Calm
  <2>1. /\ UNCHANGED <<task, pid, father, freed, panicked, current, state>>
        /\ Goto("ret") /\ pc[current] # "release"
    BY <1>6 DEF Alarm, At
  <2> QED
    BY <1>1, <1>2, <2>1, PlainIsCalm
<1>7. ASSUME NEW m \in Masks, SetMask(m) PROVE Calm
  <2>1. /\ UNCHANGED <<task, pid, father, freed, panicked, current, state>>
        /\ Goto("ret") /\ pc[current] # "release"
    BY <1>7 DEF SetMask, At
  <2> QED
    BY <1>1, <1>2, <2>1, PlainIsCalm
<1>8. ASSUME NEW p, NEW sig, Kill(p, sig) PROVE Calm
  <2>1. /\ UNCHANGED <<task, pid, father, freed, panicked, current, state>>
        /\ Goto("ret") /\ pc[current] # "release"
    BY <1>8 DEF Kill, At
  <2> QED
    BY <1>1, <1>2, <2>1, PlainIsCalm
<1>9. CASE ForkFails \/ DeviceSleepReturn
  <2>1. /\ UNCHANGED <<task, pid, father, freed, panicked, current, state>>
        /\ Goto("ret") /\ pc[current] # "release"
    BY <1>9 DEF ForkFails, DeviceSleepReturn, At, taskFields
  <2> QED
    BY <1>1, <1>2, <2>1, PlainIsCalm
<1>10. CASE DeliverSignal
  <2>1. /\ UNCHANGED <<task, pid, father, freed, panicked, current, state>>
        /\ Goto("user") /\ pc[current] # "release"
    BY <1>10 DEF DeliverSignal, At
  <2> QED
    BY <1>1, <1>2, <2>1, PlainIsCalm
<1> QED
  BY <1>3, <1>4, <1>5, <1>6, <1>7, <1>8, <1>9, <1>10

LEMMA RetCalm == TableInv /\ Ret => Calm
<1> SUFFICES ASSUME TableInv, Ret PROVE Calm
  OBVIOUS
<1>1. /\ TypeOK /\ current \in Slot /\ state \in [Slot -> States]
      /\ signal \in [Slot -> SUBSET Signal] /\ counter \in [Slot -> Nat]
      /\ \A i \in Slot : counter[i] < 2 * Priority
      /\ alarm \in [Slot -> Nat] /\ jiffies \in Nat
      /\ current # 0 => state[current] = "RUNNING"
  BY TableFacts
<1>2. /\ pc[current] # "release" /\ "sig" \in IdlePlaces
      /\ UNCHANGED <<task, pid, father, freed, panicked>>
  BY DEF Ret, At, IdlePlaces
<1>3. CASE state[current] # "RUNNING" \/ counter[current] = 0
  <2>1. /\ Schedule(task, [state EXCEPT ![current] = state[current]], signal, counter,
                    alarm, jiffies)
        /\ Goto("sig")
    BY <1>3 DEF Ret, Sleep, Goto
  <2>2. state[current] \in States /\ (current # 0 => state[current] # "ZOMBIE")
    BY <1>1
  <2> QED
    BY <1>1, <1>2, <2>1, <2>2, SleepIsCalm
<1>4. CASE ~(state[current] # "RUNNING" \/ counter[current] = 0)
  <2>1. Goto("sig") /\ UNCHANGED <<state, current>>
    BY <1>4 DEF Ret
  <2> QED
    BY <1>1, <1>2, <2>1, PlainIsCalm
<1> QED
  BY <1>3, <1>4

LEMMA TickCalm == TableInv /\ Tick => Calm
<1> SUFFICES ASSUME TableInv, Tick PROVE Calm
  OBVIOUS
<1> DEFINE now  == IF jiffies < MaxJiffies THEN jiffies + 1 ELSE jiffies
           left == [counter EXCEPT ![current] = Spend(@)]
<1>1. /\ TypeOK /\ current \in Slot /\ state \in [Slot -> States]
      /\ signal \in [Slot -> SUBSET Signal] /\ counter \in [Slot -> Nat]
      /\ \A i \in Slot : counter[i] < 2 * Priority
      /\ alarm \in [Slot -> Nat] /\ jiffies \in Nat
      /\ current # 0 => state[current] = "RUNNING"
  BY TableFacts
<1>2. now \in Nat
  BY <1>1
<1>3. left \in [Slot -> Nat] /\ \A i \in Slot : left[i] < 2 * Priority
  <2>1. Priority \in Nat \ {0}
    BY SchedAssumption
  <2>2. \A c \in Nat : c < 2 * Priority => Spend(c) \in Nat /\ Spend(c) < 2 * Priority
    BY <2>1 DEF Spend
  <2> QED
    BY <1>1, <2>2
<1>4. UNCHANGED <<task, pid, father, freed, panicked>> /\ "sig" \in IdlePlaces
  BY DEF Tick, IdlePlaces
<1>5. CASE At("user") /\ ~(left[current] > 0)
  <2>1. Goto("sig") /\ Schedule(task, state, signal, left, alarm, now)
    BY <1>5 DEF Tick
  <2>2. [state EXCEPT ![current] = state[current]] = state
    BY <1>1
  <2>3. Schedule(task, [state EXCEPT ![current] = state[current]], signal, left, alarm, now)
    <3> HIDE DEF left, now
    <3> QED
      BY <2>1, <2>2
  <2>4. state[current] \in States /\ (current # 0 => state[current] # "ZOMBIE")
    BY <1>1
  <2>5. pc[current] # "release"
    BY <1>5 DEF At
  <2> HIDE DEF left, now
  <2> QED
    BY <1>1, <1>2, <1>3, <1>4, <2>1, <2>3, <2>4, <2>5, SleepIsCalm
<1>6. CASE At("user") /\ left[current] > 0
  <2>1. Goto("sig") /\ UNCHANGED <<state, current>> /\ pc[current] # "release"
    BY <1>6 DEF Tick, At
  <2> QED
    BY <1>1, <1>4, <2>1, PlainIsCalm
<1>7. CASE ~At("user")
  <2>1. UNCHANGED <<state, current, pc>>
    BY <1>7 DEF Tick
  <2> QED
    BY <1>4, <2>1 DEF Calm
<1> QED
  BY <1>5, <1>6, <1>7

LEMMA DeviceWakeCalm ==
    ASSUME TableInv, NEW i \in UserSlot, DeviceWake(i)
    PROVE  Calm
<1>1. /\ TypeOK /\ current \in Slot /\ state \in [Slot -> States]
      /\ current # 0 => state[current] = "RUNNING"
  BY TableFacts
<1>2. /\ state' = [state EXCEPT ![i] = "RUNNING"]
      /\ state[i] \in {"INTERRUPTIBLE", "UNINTERRUPTIBLE"}
      /\ UNCHANGED <<task, pid, father, freed, panicked, pc, current>>
  BY DEF DeviceWake
<1>3. i # current
  BY <1>1, <1>2
<1> QED
  BY <1>1, <1>2, <1>3 DEF Calm, Woken

\* waitpid() finds no zombie.
LEMMA WaitScanCalm ==
    ASSUME TableInv, current # 0, pc[current] \in {"user", "wait"},
           NEW who \in Nat, NEW nohang \in BOOLEAN, NEW sg \in [Slot -> SUBSET Signal],
           WaitScan(who, nohang, sg),
           {i \in Children(who) : state[i] = "ZOMBIE"} = {},
           UNCHANGED <<pid, father, panicked>>
    PROVE  Calm
<1>1. /\ TypeOK /\ current \in Slot /\ counter \in [Slot -> Nat]
      /\ \A i \in Slot : counter[i] < 2 * Priority
      /\ alarm \in [Slot -> Nat] /\ jiffies \in Nat
  BY TableFacts
<1>2. UNCHANGED <<task, freed>>
  BY DEF WaitScan
<1>3. /\ "INTERRUPTIBLE" \in States /\ "wait" \in IdlePlaces \cup {"dev", "wait"}
      /\ "ret" \in IdlePlaces /\ pc[current] # "release"
  BY DEF States, IdlePlaces
<1>4. CASE Children(who) = {} \/ nohang
  <2>1. Goto("ret") /\ UNCHANGED <<state, current>>
    BY <1>4 DEF WaitScan
  <2> QED
    BY <1>1, <1>2, <1>3, <2>1, PlainIsCalm
<1>5. CASE ~(Children(who) = {} \/ nohang)
  <2>1. /\ Schedule(task, [state EXCEPT ![current] = "INTERRUPTIBLE"], sg, counter, alarm,
                    jiffies)
        /\ Goto("wait")
    BY <1>5 DEF WaitScan
  <2> QED
    BY <1>1, <1>2, <1>3, <2>1, SleepIsCalm
<1> QED
  BY <1>4, <1>5

\* Reaping goes on to its end.
LEMMA DoomedStays ==
    ASSUME TableInv, Calm, Doomed
    PROVE  Doomed'
<1>1. Live' = Live
  BY DEF Calm, Live
<1>2. \A i \in Live : i \in Slot
  BY DEF Live
<1>3. CASE panicked
  BY <1>3 DEF Calm, Doomed
<1>4. ASSUME NEW i \in Live, pc[i] = "release" PROVE Doomed'
  <2>1. pc'[i] = "release"
    BY <1>2, <1>4 DEF Calm, Moves
  <2> QED
    BY <1>1, <2>1 DEF Doomed
<1> QED
  BY <1>3, <1>4 DEF Doomed

LEMMA CalmTable ==
    ASSUME TableInv, Calm
    PROVE  PageInv' /\ FamilyInv'
<1>1. Live' = Live /\ \A i \in Live : i \in Slot
  BY DEF Calm, Live
<1>2. UNCHANGED <<task, pid, father, freed>>
  BY DEF Calm
<1>3. 0 \in Slot
  BY SchedAssumption DEF Slot
<1>4. PageInv'
  <2>1. \A i \in Live : pc'[i] = "release" => pc[i] = "release"
    BY <1>1 DEF Calm, Moves, IdlePlaces
  <2>2. pc'[0] \in IdlePlaces
    BY <1>3 DEF Calm, Moves, TableInv, PageInv
  <2> QED
    BY <1>1, <1>2, <2>1, <2>2 DEF TableInv, PageInv
<1>5. ~Doomed' => ~Doomed
  BY DoomedStays
<1>6. ASSUME NEW j \in Live, state[j] # "ZOMBIE" PROVE state'[j] # "ZOMBIE"
  <2>1. CASE j = current
    <3>1. j # 0
      BY DEF Live
    <3> QED
      BY <1>6, <2>1, <3>1 DEF Calm
  <2>2. CASE j # current
    BY <1>1, <1>6, <2>2 DEF Calm, Woken
  <2> QED
    BY <2>1, <2>2
<1>7. ASSUME NEW i \in Live, HasFather(i) PROVE HasFather(i)'
  BY <1>1, <1>2, <1>6, <1>7 DEF HasFather
<1>8. FamilyInv'
  BY <1>1, <1>2, <1>5, <1>7 DEF TableInv, FamilyInv
<1> QED
  BY <1>4, <1>8

\* A new task has a page of its own and the running task as father.
LEMMA ForkTable ==
    ASSUME TableInv, Fork
    PROVE  /\ PageInv' /\ FamilyInv'
           /\ \E nr \in UserSlot :
                 /\ task[nr] = NULL /\ task'[nr] # NULL /\ state'[nr] = "RUNNING"
                 /\ \A i \in UserSlot \ {nr} : task'[i] = task[i] /\ state'[i] = state[i]
                 /\ current' = current /\ (Doomed' <=> Doomed)
<1> DEFINE nr == MinOf(EmptySlot)
<1>1. /\ TypeOK /\ current \in Slot /\ current # 0 /\ current \in Live
      /\ state[current] = "RUNNING" /\ \A i \in Live : i \in Slot
      /\ PageInv /\ FamilyInv /\ PidOrder /\ pc[current] # "release"
  BY TableFacts DEF TableInv, SchedInv, Fork, Live, At
<1>2. nr \in UserSlot /\ nr \notin Live
  <2>1. EmptySlot \in SUBSET Nat /\ EmptySlot # {}
    BY SchedAssumption DEF Fork, EmptySlot, Slot
  <2>2. MinOf(EmptySlot) \in EmptySlot
    BY <2>1, MinOfProps
  <2> QED
    BY <2>2 DEF EmptySlot
<1>5. PICK p \in Page \ {task[i] : i \in Live} : task' = [task EXCEPT ![nr] = p]
  BY DEF Fork
<1>6. /\ state' = [state EXCEPT ![nr] = "RUNNING"]
      /\ pid' = [pid EXCEPT ![nr] = NextPid]
      /\ father' = [father EXCEPT ![nr] = pid[current]]
      /\ pc' = [pc EXCEPT ![nr] = "user", ![current] = "ret"]
      /\ UNCHANGED <<freed, current, panicked>>
  BY DEF Fork
<1> HIDE DEF nr
<1>3. nr # current /\ nr \in Slot /\ nr # 0 /\ 0 \in Slot
  BY <1>1, <1>2, SchedAssumption DEF Slot
<1>7. Live' = Live \cup {nr} /\ task[nr] = NULL /\ task'[nr] # NULL
  BY <1>1, <1>2, <1>5, SchedAssumption DEF Live, TypeOK
<1>8. /\ \A i \in Live : /\ i # nr /\ task'[i] = task[i] /\ state'[i] = state[i]
                         /\ pid'[i] = pid[i] /\ father'[i] = father[i]
                         /\ pc'[i] = IF i = current THEN "ret" ELSE pc[i]
      /\ task'[nr] = p /\ state'[nr] = "RUNNING" /\ father'[nr] = pid[current]
      /\ pc'[nr] = "user" /\ pc'[0] = pc[0]
  BY <1>1, <1>2, <1>3, <1>5, <1>6 DEF TypeOK
<1>9. PageInv'
  <2>1. \A i, j \in Live' : task'[i] = task'[j] => i = j
    BY <1>1, <1>5, <1>7, <1>8 DEF PageInv
  <2>2. \A i \in Live' : pc'[i] = "release" => task'[i] # freed'[i]
    BY <1>1, <1>6, <1>7, <1>8 DEF PageInv
  <2> QED
    BY <1>1, <1>8, <2>1, <2>2 DEF PageInv
<1>10. Doomed' <=> Doomed
  <2>1. ASSUME NEW i \in Live' PROVE pc'[i] = "release" => i \in Live /\ pc[i] = "release"
    BY <1>7, <1>8
  <2>2. ASSUME NEW i \in Live, pc[i] = "release" PROVE i \in Live' /\ pc'[i] = "release"
    BY <1>1, <1>7, <1>8, <2>2
  <2>3. panicked' <=> panicked
    BY <1>6
  <2> QED
    BY <2>1, <2>2, <2>3 DEF Doomed
<1>11. pid[current] # 0
  <2>1. pid[current] \in Nat /\ pid[current] >= 1
    BY <1>1 DEF PidOrder, TypeOK
  <2> QED
    BY <2>1
<1>12. FamilyInv'
  <2>1. ASSUME ~Doomed', NEW i \in Live' PROVE HasFather(i)'
    <3>1. CASE i = nr
      <4>1. pid'[current] = father'[nr] /\ state'[current] # "ZOMBIE" /\ current \in Live'
        BY <1>1, <1>7, <1>8
      <4> QED
        BY <3>1, <4>1 DEF HasFather
    <3>2. CASE i # nr
      <4>1. i \in Live /\ HasFather(i)
        BY <1>1, <1>7, <1>10, <2>1, <3>2 DEF FamilyInv
      <4> QED
        BY <1>7, <1>8, <4>1 DEF HasFather
    <3> QED
      BY <3>1, <3>2
  <2>2. \A i \in Live' : father'[i] = 0 => i = 1
    BY <1>1, <1>7, <1>8, <1>11 DEF FamilyInv
  <2> QED
    BY <2>1, <2>2 DEF FamilyInv
<1>13. \A i \in UserSlot \ {nr} : task'[i] = task[i] /\ state'[i] = state[i]
  BY <1>1, <1>5, <1>6 DEF TypeOK
<1> QED
  BY <1>2, <1>6, <1>7, <1>8, <1>9, <1>10, <1>12, <1>13

\* The children of a task that exits go to task 1.
LEMMA ExitTable ==
    ASSUME TableInv, Exit
    PROVE  /\ PageInv' /\ FamilyInv'
           /\ current # 0 /\ state[current] = "RUNNING" /\ task[current] # NULL
           /\ task'[current] = NULL \/ (task'[current] = task[current] /\ state'[current] = "ZOMBIE")
           /\ Dispatched
           /\ \A i \in UserSlot \ {current} :
                 task'[i] = task[i] /\ (state'[i] = state[i] \/ Woken(state[i], state'[i]))
           /\ ~Doomed => ~Doomed'
<1> DEFINE st == [state EXCEPT ![current] = "ZOMBIE"]
           tk == IF FatherSlots # {} THEN task ELSE [task EXCEPT ![current] = NULL]
<1>1. /\ TypeOK /\ current \in Slot /\ current # 0 /\ current \in Live
      /\ state[current] = "RUNNING" /\ \A i \in Live : i \in Slot
      /\ PageInv /\ FamilyInv /\ PidOrder /\ pc[current] # "release"
      /\ counter \in [Slot -> Nat]
      /\ \A i \in Slot : counter[i] < 2 * Priority
      /\ alarm \in [Slot -> Nat] /\ jiffies \in Nat
  BY TableFacts DEF TableInv, SchedInv, Exit, Live, At
<1>2. /\ task' = tk /\ father' = [i \in Slot |-> Reparent(i)]
      /\ pc' = [pc EXCEPT ![current] = "dead"]
      /\ Schedule(tk, st, ExitSignals, counter, alarm, jiffies)
      /\ UNCHANGED <<pid, freed, panicked>>
  BY DEF Exit, Goto
<1>3. ExitSignals \in [Slot -> SUBSET Signal]
  <2>1. SIGCHLD \in Signal /\ signal \in [Slot -> SUBSET Signal]
    BY <1>1 DEF SIGCHLD, Signal, TypeOK
  <2> QED
    BY <2>1 DEF ExitSignals
<1>4. /\ tk \in [UserSlot -> Page \cup {NULL}] /\ st \in [Slot -> States]
      /\ tk[current] = NULL \/ tk[current] = task[current]
      /\ \A i \in UserSlot \ {current} : tk[i] = task[i]
      /\ st[current] = "ZOMBIE" /\ \A i \in Slot \ {current} : st[i] = state[i]
  BY <1>1 DEF TypeOK, States
<1> HIDE DEF tk, st
<1>5. Dispatched /\ \A i \in Slot : state'[i] = st[i] \/ Woken(st[i], state'[i])
  BY <1>1, <1>2, <1>3, <1>4, ScheduleIdle
<1>6. state'[current] = "ZOMBIE"
  BY <1>1, <1>4, <1>5 DEF Woken
<1>7. Live' \subseteq Live /\ \A i \in Live \ {current} : i \in Live'
  BY <1>1, <1>2, <1>4 DEF Live
<1>8. \A i \in Slot : pc'[i] = IF i = current THEN "dead" ELSE pc[i]
  BY <1>1, <1>2 DEF TypeOK
<1>9. PageInv'
  <2>1. \A i \in Live' : task'[i] = task[i]
    BY <1>1, <1>2, <1>4 DEF Live
  <2>2. 0 \in Slot
    BY SchedAssumption DEF Slot
  <2> QED
    BY <1>1, <1>2, <1>7, <1>8, <2>1, <2>2 DEF PageInv
<1>10. ~Doomed' => ~Doomed
  BY <1>1, <1>2, <1>7, <1>8 DEF Doomed
<1>11. ~Doomed => ~Doomed'
  BY <1>1, <1>2, <1>7, <1>8 DEF Doomed
<1>12. \A i \in Live : father'[i] = IF father[i] = pid[current] THEN 1 ELSE father[i]
  BY <1>1, <1>2 DEF Reparent
<1>13. ASSUME ~Doomed', NEW i \in Live' PROVE HasFather(i)'
  <2>1. i \in Live /\ HasFather(i)
    BY <1>1, <1>7, <1>10, <1>13 DEF FamilyInv
  <2>2. CASE father[i] = pid[current]
    BY <1>12, <2>1, <2>2 DEF HasFather
  <2>3. CASE father[i] # pid[current] /\ father[i] \in {0, 1}
    BY <1>12, <2>1, <2>3 DEF HasFather
  <2>4. ASSUME father[i] # pid[current], NEW j \in Live, pid[j] = father[i], state[j] # "ZOMBIE"
        PROVE  HasFather(i)'
    <3>1. j # current /\ j \in Live' /\ j \in Slot
      BY <1>1, <1>7, <2>4
    <3>2. state'[j] # "ZOMBIE"
      BY <1>4, <1>5, <2>4, <3>1 DEF Woken
    <3> QED
      BY <1>2, <1>12, <2>1, <2>4, <3>1, <3>2 DEF HasFather
  <2> QED
    BY <2>1, <2>2, <2>3, <2>4 DEF HasFather
<1>14. \A i \in Live' : father'[i] = 0 => i = 1
  BY <1>1, <1>7, <1>12 DEF FamilyInv
<1>15. FamilyInv'
  BY <1>13, <1>14 DEF FamilyInv
<1>16. \A i \in UserSlot \ {current} :
           task'[i] = task[i] /\ (state'[i] = state[i] \/ Woken(state[i], state'[i]))
  BY <1>2, <1>4, <1>5
<1>17. task[current] # NULL
  BY <1>1 DEF Live
<1> QED
  BY <1>1, <1>2, <1>4, <1>5, <1>6, <1>9, <1>11, <1>15, <1>16, <1>17

\* Whoever releases a task does not release itself, and is in release() from then on.
LEMMA ReleaseTable ==
    ASSUME TableInv, current # 0, NEW z \in Live, z # current,
           NEW sg \in [Slot -> SUBSET Signal], Release(z, sg),
           UNCHANGED <<pid, father>>
    PROVE  /\ PageInv' /\ FamilyInv' /\ Doomed'
           /\ task'[z] = NULL /\ Dispatched
           /\ \A i \in UserSlot \ {z} :
                 task'[i] = task[i] /\ (state'[i] = state[i] \/ Woken(state[i], state'[i]))
<1> DEFINE tk == [task EXCEPT ![z] = NULL]
<1>1. /\ TypeOK /\ current \in Slot /\ current \in Live /\ state \in [Slot -> States]
      /\ \A i \in Live : i \in Slot /\ i \in UserSlot /\ task[i] # NULL
      /\ PageInv /\ FamilyInv
      /\ counter \in [Slot -> Nat]
      /\ \A i \in Slot : counter[i] < 2 * Priority
      /\ alarm \in [Slot -> Nat] /\ jiffies \in Nat
  BY TableFacts DEF TableInv, Live
<1>2. /\ task' = tk /\ Schedule(tk, state, sg, counter, alarm, jiffies)
      /\ pc' = [pc EXCEPT ![current] = "release"]
      /\ freed' = [freed EXCEPT ![current] = task[z]]
  BY DEF Release
<1>3. /\ tk \in [UserSlot -> Page \cup {NULL}] /\ tk[z] = NULL
      /\ \A i \in UserSlot \ {z} : tk[i] = task[i]
  BY <1>1 DEF TypeOK
<1> HIDE DEF tk
<1>4. Dispatched /\ \A i \in Slot : state'[i] = state[i] \/ Woken(state[i], state'[i])
  BY <1>1, <1>2, <1>3, ScheduleIdle
<1>5. /\ Live' \subseteq Live /\ current \in Live'
      /\ \A i \in Live' : task'[i] = task[i]
  BY <1>1, <1>2, <1>3 DEF Live
<1>6. /\ \A i \in Slot : pc'[i] = IF i = current THEN "release" ELSE pc[i]
      /\ \A i \in Slot : freed'[i] = IF i = current THEN task[z] ELSE freed[i]
  BY <1>1, <1>2 DEF TypeOK
<1>7. Doomed'
  BY <1>1, <1>5, <1>6 DEF Doomed
<1>8. PageInv'
  <2>1. \A i, j \in Live' : task'[i] = task'[j] => i = j
    BY <1>1, <1>5 DEF PageInv
  <2>2. ASSUME NEW i \in Live', pc'[i] = "release" PROVE task'[i] # freed'[i]
    <3>1. CASE i = current
      BY <1>1, <1>5, <1>6, <3>1 DEF PageInv
    <3>2. CASE i # current
      BY <1>1, <1>5, <1>6, <2>2, <3>2 DEF PageInv
    <3> QED
      BY <3>1, <3>2
  <2>3. pc'[0] \in IdlePlaces
    <3>1. 0 \in Slot
      BY SchedAssumption DEF Slot
    <3> QED
      BY <1>1, <1>6, <3>1 DEF PageInv
  <2> QED
    BY <2>1, <2>2, <2>3 DEF PageInv
<1>9. FamilyInv'
  BY <1>1, <1>5, <1>7 DEF FamilyInv
<1> QED
  BY <1>1, <1>2, <1>3, <1>4, <1>7, <1>8, <1>9

\* The scan of waitpid() reaps a zombie, or leaves the table as it is.
LEMMA WaitScanTable ==
    ASSUME TableInv, current # 0, pc[current] \in {"user", "wait"},
           NEW who \in Nat, NEW nohang \in BOOLEAN, NEW sg \in [Slot -> SUBSET Signal],
           WaitScan(who, nohang, sg),
           UNCHANGED <<pid, father, panicked>>
    PROVE  \/ Calm
           \/ \E z \in Live : z # current /\ state[z] = "ZOMBIE" /\ Release(z, sg)
<1> DEFINE zombies == {i \in Children(who) : state[i] = "ZOMBIE"}
<1>1. CASE zombies = {}
  BY <1>1, WaitScanCalm
<1>2. CASE zombies # {}
  <2>1. Release(MaxOf(zombies), sg)
    BY <1>2 DEF WaitScan
  <2>2. zombies \in SUBSET Nat /\ \A k \in zombies : k <= NR_TASKS
    <3>1. \A k \in Slot : k \in Nat /\ k <= NR_TASKS
      BY SchedAssumption DEF Slot
    <3>2. \A k \in zombies : k \in Slot
      BY DEF Children, Live
    <3> QED
      BY <3>1, <3>2
  <2>3. \A z \in zombies : z \in Live /\ z # current /\ state[z] = "ZOMBIE"
    BY DEF Children
  <2> HIDE DEF zombies
  <2>4. MaxOf(zombies) \in zombies
    BY <1>2, <2>2, MaxOfProps, SchedAssumption
  <2> QED
    BY <2>1, <2>3, <2>4
<1> QED
  BY <1>1, <1>2

Reaps == \E z \in Live : \E sg \in [Slot -> SUBSET Signal] :
            z # current /\ state[z] = "ZOMBIE" /\ Release(z, sg)

LEMMA WaitTable ==
    ASSUME TableInv,
           \/ \E who \in 0..MaxPid, nohang \in BOOLEAN : Waitpid(who, nohang)
           \/ WaitResumes
    PROVE  /\ current # 0 /\ UNCHANGED <<pid, father>>
           /\ Calm \/ Reaps
<1>1. /\ TypeOK /\ current \in Slot /\ signal \in [Slot -> SUBSET Signal]
      /\ current = 0 => pc[current] \in IdlePlaces
  BY TableFacts
<1>2. ASSUME NEW who \in 0..MaxPid, NEW nohang \in BOOLEAN, Waitpid(who, nohang)
      PROVE  /\ current # 0 /\ UNCHANGED <<pid, father>>
             /\ Calm \/ Reaps
  <2>1. /\ current # 0 /\ pc[current] = "user" /\ WaitScan(who, nohang, signal)
        /\ UNCHANGED <<pid, father, panicked>>
    BY <1>2 DEF Waitpid, At
  <2>2. who \in Nat
    BY SchedAssumption
  <2> QED
    BY <1>1, <2>1, <2>2, WaitScanTable DEF Reaps
<1>3. CASE WaitResumes
  <2> DEFINE sg == [signal EXCEPT ![current] = @ \ {SIGCHLD}]
  <2>1. sg \in [Slot -> SUBSET Signal] /\ arg[current] \in Nat
    BY <1>1 DEF TypeOK
  <2>2. /\ pc[current] = "wait" /\ current # 0
        /\ UNCHANGED <<pid, father, panicked>>
    BY <1>1, <1>3 DEF WaitResumes, At, IdlePlaces
  <2>3. CASE sg[current] = {}
    <3>1. WaitScan(arg[current], FALSE, sg)
      BY <1>3, <2>3 DEF WaitResumes
    <3> HIDE DEF sg
    <3> QED
      BY <2>1, <2>2, <3>1, WaitScanTable DEF Reaps
  <2>4. CASE sg[current] # {}
    <3>1. Goto("ret") /\ UNCHANGED <<task, state, freed, current>>
      BY <1>3, <2>4 DEF WaitResumes
    <3>2. "ret" \in IdlePlaces
      BY DEF IdlePlaces
    <3> QED
      BY <1>1, <2>2, <3>1, <3>2, PlainIsCalm
  <2> QED
    BY <2>2, <2>3, <2>4
<1> QED
  BY <1>2, <1>3

\* In release() the kernel is doomed already.
LEMMA ReleaseContinuesTable ==
    ASSUME TableInv, ReleaseContinues
    PROVE  /\ Doomed /\ Doomed' /\ PageInv' /\ FamilyInv'
<1> DEFINE again == {i \in Live : i > arg[current] /\ task[i] = freed[current]}
<1>1. /\ TypeOK /\ current \in Slot /\ pc[current] = "release"
      /\ signal \in [Slot -> SUBSET Signal] /\ PageInv /\ FamilyInv
      /\ UNCHANGED <<pid, father>>
  BY TableFacts DEF TableInv, ReleaseContinues, At
<1>2. current # 0 /\ current \in Live
  BY <1>1, TableFacts DEF IdlePlaces
<1>3. Doomed
  BY <1>1, <1>2 DEF Doomed
<1>4. CASE again # {}
  <2>1. Release(MinOf(again), signal)
    BY <1>4 DEF ReleaseContinues
  <2>2. again \subseteq Live /\ again \in SUBSET Nat
    <3>1. Slot \subseteq Nat
      BY SchedAssumption DEF Slot
    <3> QED
      BY <3>1 DEF Live
  <2>3. \A i \in again : i # current
    BY <1>1, <1>2 DEF PageInv
  <2> HIDE DEF again
  <2>4. MinOf(again) \in again
    BY <1>4, <2>2, MinOfProps
  <2>5. MinOf(again) \in Live /\ MinOf(again) # current
    BY <2>2, <2>3, <2>4
  <2> QED
    BY <1>1, <1>2, <1>3, <2>1, <2>5, ReleaseTable
<1>5. CASE again = {}
  <2>1. panicked' = TRUE /\ UNCHANGED <<task, state, pc, freed>>
    BY <1>5 DEF ReleaseContinues
  <2>2. Doomed'
    BY <2>1 DEF Doomed
  <2>3. PageInv' /\ FamilyInv'
    BY <1>1, <2>1, <2>2 DEF PageInv, FamilyInv, Live
  <2> QED
    BY <1>3, <2>2, <2>3
<1> QED
  BY <1>4, <1>5

LEMMA TableNext == TableInv /\ [Next]_vars => TableInv'
<1> SUFFICES ASSUME TableInv, [Next]_vars PROVE PageInv' /\ FamilyInv'
  BY NextInv DEF TableInv
<1>1. ASSUME Calm PROVE PageInv' /\ FamilyInv'
  BY <1>1, CalmTable
<1>2. ASSUME \/ \E who \in 0..MaxPid, nohang \in BOOLEAN : Waitpid(who, nohang)
             \/ WaitResumes
      PROVE  PageInv' /\ FamilyInv'
  BY <1>1, <1>2, WaitTable, ReleaseTable DEF Reaps
<1>3. CASE UserStep
  BY <1>1, <1>2, <1>3, UserCallsCalm, ForkTable, ExitTable DEF UserStep
<1>4. CASE KernelStep
  BY <1>1, <1>2, <1>4, UserCallsCalm, RetCalm, ReleaseContinuesTable DEF KernelStep
<1>5. CASE Tick
  BY <1>1, <1>5, TickCalm
<1>6. CASE \E i \in UserSlot : DeviceWake(i)
  BY <1>1, <1>6, DeviceWakeCalm
<1>7. CASE UNCHANGED vars
  BY <1>7 DEF vars, taskFields, TableInv, PageInv, FamilyInv, HasFather, Live, Doomed
<1> QED
  BY <1>3, <1>4, <1>5, <1>6, <1>7 DEF Next

\* As long as nobody is reaped and task 1 lives, each zombie has a father that
\* can reap it (ZombieHasFather): do_exit() gives the children of the task
\* to task 1, and fork() makes only children of a running task.
THEOREM ZombiesHaveFathers == Spec => []ZombieHasFather
<1>1. Spec => []TableInv
  BY TableInit, TableNext, PTL DEF Spec
<1>2. TableInv => ZombieHasFather
  <2> SUFFICES ASSUME TableInv, ~Doomed, NEW f \in Live, pid[f] = 1, state[f] # "ZOMBIE",
                      NEW z \in Live, state[z] = "ZOMBIE"
               PROVE  \E i \in Live : pid[i] = father[z] /\ state[i] # "ZOMBIE"
    BY DEF ZombieHasFather
  <2>1. f = 1 /\ HasFather(z) /\ (father[z] = 0 => z = 1)
    BY DEF TableInv, FamilyInv, SchedInv, PidOrder
  <2>2. father[z] # 0
    BY <2>1
  <2> QED
    BY <2>1, <2>2 DEF HasFather
<1> QED
  BY <1>1, <1>2, PTL

-----------------------------------------------------------------------------
(***************************************************************************)
(* The kernel implements the life cycle of TaskLife.                       *)
(***************************************************************************)
LifeStep == [Life!LifeNext]_(Life!lifeVars)

LEMMA StageProps ==
    ASSUME TypeOK
    PROVE  /\ Stages \in [UserSlot -> Life!Stage]
           /\ \A i \in UserSlot :
                 /\ Stages[i] = "free" <=> task[i] = NULL
                 /\ Stages[i] = "ready" <=> task[i] # NULL /\ state[i] = "RUNNING"
                 /\ Stages[i] = "zombie" <=> task[i] # NULL /\ state[i] = "ZOMBIE"
                 /\ Stages[i] = "asleep" <=> /\ task[i] # NULL
                                             /\ state[i] \in {"INTERRUPTIBLE", "UNINTERRUPTIBLE"}
<1>1. ASSUME NEW i \in UserSlot
      PROVE  /\ Stage(i) \in Life!Stage
             /\ Stage(i) = "free" <=> task[i] = NULL
             /\ Stage(i) = "ready" <=> task[i] # NULL /\ state[i] = "RUNNING"
             /\ Stage(i) = "zombie" <=> task[i] # NULL /\ state[i] = "ZOMBIE"
             /\ Stage(i) = "asleep" <=> /\ task[i] # NULL
                                        /\ state[i] \in {"INTERRUPTIBLE", "UNINTERRUPTIBLE"}
  <2>1. state[i] \in {"RUNNING", "INTERRUPTIBLE", "UNINTERRUPTIBLE", "ZOMBIE"}
    BY DEF TypeOK, States
  <2>2. CASE task[i] = NULL
    BY <2>2 DEF Stage, Life!Stage
  <2>3. CASE task[i] # NULL /\ state[i] = "RUNNING"
    BY <2>3 DEF Stage, Life!Stage
  <2>4. CASE task[i] # NULL /\ state[i] = "ZOMBIE"
    BY <2>4 DEF Stage, Life!Stage
  <2>5. CASE task[i] # NULL /\ state[i] \in {"INTERRUPTIBLE", "UNINTERRUPTIBLE"}
    BY <2>5 DEF Stage, Life!Stage
  <2> QED
    BY <2>1, <2>2, <2>3, <2>4, <2>5
<1>2. \A i \in UserSlot : Stages[i] = Stage(i)
  BY DEF Stages
<1>3. Stages \in [UserSlot -> Life!Stage]
  BY <1>1 DEF Stages
<1> QED
  BY <1>1, <1>2, <1>3

LEMMA StageLater ==
    ASSUME TypeOK'
    PROVE  /\ Stages' \in [UserSlot -> Life!Stage]
           /\ \A i \in UserSlot :
                 /\ Stages'[i] = "free" <=> task'[i] = NULL
                 /\ Stages'[i] = "ready" <=> task'[i] # NULL /\ state'[i] = "RUNNING"
                 /\ Stages'[i] = "zombie" <=> task'[i] # NULL /\ state'[i] = "ZOMBIE"
                 /\ Stages'[i] = "asleep" <=> /\ task'[i] # NULL
                                              /\ state'[i] \in {"INTERRUPTIBLE", "UNINTERRUPTIBLE"}
<1>1. (TypeOK => /\ Stages \in [UserSlot -> Life!Stage]
                 /\ \A i \in UserSlot :
                       /\ Stages[i] = "free" <=> task[i] = NULL
                       /\ Stages[i] = "ready" <=> task[i] # NULL /\ state[i] = "RUNNING"
                       /\ Stages[i] = "zombie" <=> task[i] # NULL /\ state[i] = "ZOMBIE"
                       /\ Stages[i] = "asleep" <=> /\ task[i] # NULL
                                                   /\ state[i] \in {"INTERRUPTIBLE", "UNINTERRUPTIBLE"})'
  BY StageProps, PTL
<1> QED
  BY <1>1 DEF Life!Stage

LEMMA WakesOnly ==
    ASSUME TypeOK, TypeOK', NEW S,
           \A i \in UserSlot \ S :
               task'[i] = task[i] /\ (state'[i] = state[i] \/ Woken(state[i], state'[i]))
    PROVE  Life!OnlyWakes(S)
<1>1. \A i \in UserSlot \ S : \/ Stages'[i] = Stages[i]
                              \/ Stages[i] = "asleep" /\ Stages'[i] = "ready"
  <2> TAKE i \in UserSlot \ S
  <2>1. CASE state'[i] = state[i]
    <3>1. task'[i] = task[i]
      OBVIOUS
    <3>2. Stages[i] \in {"free", "ready", "asleep", "zombie"}
          /\ Stages'[i] \in {"free", "ready", "asleep", "zombie"}
      BY StageProps, StageLater DEF Life!Stage
    <3> QED
      BY <2>1, <3>1, <3>2, StageProps, StageLater
  <2>2. CASE Woken(state[i], state'[i])
    BY <2>2, StageProps, StageLater DEF Woken
  <2> QED
    BY <2>1, <2>2
<1> QED
  BY <1>1, StageLater DEF Life!OnlyWakes

LEMMA DispatchesLife ==
    ASSUME TypeOK', Dispatched
    PROVE  Life!Dispatch
  BY StageLater DEF Dispatched, Life!Dispatch

LEMMA CalmLife ==
    ASSUME TableInv, TypeOK', Calm
    PROVE  LifeStep
<1>1. TypeOK /\ current \in Slot /\ (current # 0 => current \in Live /\ state[current] = "RUNNING")
  BY TableFacts
<1>2. Live' = Live /\ UNCHANGED <<task, panicked>> /\ \A i \in Live : i \in Slot
  BY DEF Calm, Live
<1>3. Doomed' <=> Doomed
  <2>1. \A i \in Live : pc'[i] = "release" => pc[i] = "release"
    BY <1>2 DEF Calm, Moves, IdlePlaces
  <2>2. \A i \in Live : pc[i] = "release" => pc'[i] = "release"
    BY <1>2 DEF Calm, Moves, IdlePlaces
  <2> QED
    BY <1>2, <2>1, <2>2 DEF Doomed
<1>4. Doomed' = Doomed
  BY <1>3 DEF Doomed
<1>5. CASE Doomed
  BY <1>3, <1>5 DEF LifeStep, Life!LifeNext, Life!Doom
<1>6. CASE ~Doomed /\ UNCHANGED current /\ state'[current] = state[current]
  <2>1. \A i \in UserSlot \ {} :
            task'[i] = task[i] /\ (state'[i] = state[i] \/ Woken(state[i], state'[i]))
    BY <1>2, <1>6 DEF Calm
  <2>2. Life!OnlyWakes({})
    BY <1>1, <2>1, WakesOnly
  <2>3. Life!Interrupt
    BY <1>4, <1>6, <2>2 DEF Life!Interrupt
  <2> QED
    BY <1>6, <2>3 DEF LifeStep, Life!LifeNext
<1>7. CASE ~Doomed /\ Dispatched /\ (current # 0 => state'[current] # "ZOMBIE")
  <2>1. Life!Dispatch
    BY <1>7, DispatchesLife
  <2>2. CASE current = 0
    <3>1. \A i \in UserSlot \ {} :
              task'[i] = task[i] /\ (state'[i] = state[i] \/ Woken(state[i], state'[i]))
      BY <1>2, <2>2 DEF Calm
    <3>2. Life!OnlyWakes({})
      BY <1>1, <3>1, WakesOnly
    <3>3. Life!Preempt
      BY <1>4, <2>1, <3>2 DEF Life!Preempt
    <3> QED
      BY <1>7, <3>3 DEF LifeStep, Life!LifeNext
  <2>3. CASE current # 0
    <3>1. \A i \in UserSlot \ {current} :
              task'[i] = task[i] /\ (state'[i] = state[i] \/ Woken(state[i], state'[i]))
      BY <1>2 DEF Calm
    <3>2. Life!OnlyWakes({current})
      BY <1>1, <3>1, WakesOnly
    <3>3. current \in UserSlot /\ task[current] # NULL /\ task'[current] # NULL
      BY <1>1, <1>2, <2>3 DEF Live
    <3>4. Stages[current] = "ready"
      BY <1>1, <2>3, <3>3, StageProps
    <3>5. Stages'[current] \in {"asleep", "ready"}
      <4>1. Stages'[current] \in {"free", "ready", "asleep", "zombie"}
        BY <3>3, StageLater DEF Life!Stage
      <4> QED
        BY <1>7, <2>3, <3>3, <4>1, StageLater
    <3>6. Life!Block
      BY <1>4, <2>1, <3>2, <3>3, <3>4, <3>5 DEF Life!Block
    <3> QED
      BY <1>7, <3>6 DEF LifeStep, Life!LifeNext
  <2> QED
    BY <2>2, <2>3
<1> QED
  BY <1>5, <1>6, <1>7 DEF Calm

LEMMA ForkLife ==
    ASSUME TableInv, TypeOK', Fork
    PROVE  LifeStep
<1>1. PICK nr \in UserSlot :
          /\ task[nr] = NULL /\ task'[nr] # NULL /\ state'[nr] = "RUNNING"
          /\ \A i \in UserSlot \ {nr} : task'[i] = task[i] /\ state'[i] = state[i]
          /\ current' = current /\ (Doomed' <=> Doomed)
  BY ForkTable
<1>2. TypeOK
  BY TableFacts
<1>3. Doomed' = Doomed
  BY <1>1 DEF Doomed
<1>4. CASE Doomed
  BY <1>1, <1>4 DEF LifeStep, Life!LifeNext, Life!Doom
<1>5. CASE ~Doomed
  <2>1. Life!OnlyWakes({nr})
    BY <1>1, <1>2, WakesOnly
  <2>2. Stages[nr] = "free" /\ Stages'[nr] = "ready"
    BY <1>1, <1>2, StageProps, StageLater
  <2>3. Life!Spawn
    BY <1>1, <1>3, <2>1, <2>2 DEF Life!Spawn
  <2> QED
    BY <1>5, <2>3 DEF LifeStep, Life!LifeNext
<1> QED
  BY <1>4, <1>5

LEMMA ExitLife ==
    ASSUME TableInv, TypeOK', Exit
    PROVE  LifeStep
<1>1. /\ current # 0 /\ state[current] = "RUNNING" /\ task[current] # NULL
      /\ \/ task'[current] = NULL
         \/ task'[current] = task[current] /\ state'[current] = "ZOMBIE"
      /\ Dispatched
      /\ \A i \in UserSlot \ {current} :
            task'[i] = task[i] /\ (state'[i] = state[i] \/ Woken(state[i], state'[i]))
      /\ ~Doomed => ~Doomed'
  BY ExitTable
<1>2. TypeOK /\ current \in UserSlot
  BY <1>1, TableFacts
<1>3. CASE Doomed
  <2>1. Doomed'
    <3>1. Live' \subseteq Live /\ \A i \in Live \ {current} : i \in Live'
      <4>1. \A i \in UserSlot : task'[i] # NULL => task[i] # NULL
        BY <1>1
      <4> QED
        BY <1>1, <4>1 DEF Live
    <3>2. pc[current] # "release" /\ UNCHANGED panicked /\ \A i \in Slot \ {current} : pc'[i] = pc[i]
      BY <1>2 DEF Exit, At, Goto, TypeOK
    <3>3. \A i \in Live : i \in Slot
      BY DEF Live
    <3> QED
      BY <1>3, <3>1, <3>2, <3>3 DEF Doomed
  <2> QED
    BY <1>3, <2>1 DEF LifeStep, Life!LifeNext, Life!Doom
<1>4. CASE ~Doomed
  <2>1. Life!OnlyWakes({current})
    BY <1>1, <1>2, WakesOnly
  <2>2. Life!Dispatch
    BY <1>1, DispatchesLife
  <2>3. Stages[current] = "ready" /\ Stages'[current] \in {"zombie", "free"}
    BY <1>1, <1>2, StageProps, StageLater
  <2>4. Doomed' = Doomed
    BY <1>1, <1>4 DEF Doomed
  <2>5. Life!Finish
    BY <1>2, <2>1, <2>2, <2>3, <2>4 DEF Life!Finish
  <2> QED
    BY <1>4, <2>5 DEF LifeStep, Life!LifeNext
<1> QED
  BY <1>3, <1>4

LEMMA ReapLife ==
    ASSUME TableInv, TypeOK', current # 0, Reaps, UNCHANGED <<pid, father>>
    PROVE  LifeStep
<1>1. PICK z \in Live : \E sg \in [Slot -> SUBSET Signal] :
          z # current /\ state[z] = "ZOMBIE" /\ Release(z, sg)
  BY DEF Reaps
<1>2. /\ Doomed' /\ task'[z] = NULL /\ Dispatched
      /\ \A i \in UserSlot \ {z} :
            task'[i] = task[i] /\ (state'[i] = state[i] \/ Woken(state[i], state'[i]))
  BY <1>1, ReleaseTable
<1>3. TypeOK /\ current \in UserSlot /\ z \in UserSlot /\ task[z] # NULL
  BY TableFacts DEF Live
<1>4. CASE Doomed
  BY <1>2, <1>4 DEF LifeStep, Life!LifeNext, Life!Doom
<1>5. CASE ~Doomed
  <2>1. Life!OnlyWakes({z})
    BY <1>2, <1>3, WakesOnly
  <2>2. Life!Dispatch
    BY <1>2, DispatchesLife
  <2>3. Stages[z] = "zombie" /\ Stages'[z] = "free"
    BY <1>1, <1>2, <1>3, StageProps, StageLater
  <2>4. Doomed' = TRUE
    BY <1>2 DEF Doomed
  <2>5. Life!Reap
    BY <1>1, <1>3, <2>1, <2>2, <2>3, <2>4 DEF Life!Reap
  <2> QED
    BY <1>5, <2>5 DEF LifeStep, Life!LifeNext
<1> QED
  BY <1>4, <1>5

\* Every handler, interrupt and dispatch is a step of the life cycle, until a
\* child is reaped (ImplementsTaskLife): a task gives up the processor only to
\* a ready one, only the running task sleeps, forks or exits, and nobody
\* leaves the table but by exit() and waitpid().
THEOREM LifeImplemented == Spec => ImplementsTaskLife
<1>1. Init => Life!LifeInit
  <2> SUFFICES ASSUME Init PROVE Life!LifeInit
    OBVIOUS
  <2>1. TypeOK
    BY InitInv DEF SchedInv
  <2>2. Stages \in [UserSlot -> Life!Stage]
    BY <2>1, StageProps
  <2>3. Doomed = FALSE
    BY DEF Init, Doomed, Live
  <2> QED
    BY <2>2, <2>3 DEF Init, Life!LifeInit
<1>2. TableInv /\ TypeOK' /\ [Next]_vars => LifeStep
  <2> SUFFICES ASSUME TableInv, TypeOK', [Next]_vars PROVE LifeStep
    OBVIOUS
  <2>1. ASSUME Calm PROVE LifeStep
    BY <2>1, CalmLife
  <2>2. ASSUME \/ \E who \in 0..MaxPid, nohang \in BOOLEAN : Waitpid(who, nohang)
               \/ WaitResumes
        PROVE  LifeStep
    BY <2>1, <2>2, WaitTable, ReapLife
  <2>3. ASSUME ReleaseContinues PROVE LifeStep
    BY <2>3, ReleaseContinuesTable DEF LifeStep, Life!LifeNext, Life!Doom
  <2>4. CASE UserStep
    BY <2>1, <2>2, <2>4, UserCallsCalm, ForkLife, ExitLife DEF UserStep
  <2>5. CASE KernelStep
    BY <2>1, <2>2, <2>3, <2>5, UserCallsCalm, RetCalm DEF KernelStep
  <2>6. CASE Tick
    BY <2>1, <2>6, TickCalm
  <2>7. CASE \E i \in UserSlot : DeviceWake(i)
    BY <2>1, <2>7, DeviceWakeCalm
  <2>8. CASE UNCHANGED vars
    <3>1. Stages' = Stages /\ Doomed' = Doomed /\ current' = current
      BY <2>8 DEF vars, taskFields, Stages, Stage, Doomed, Live
    <3> QED
      BY <3>1 DEF LifeStep, Life!lifeVars
  <2> QED
    BY <2>4, <2>5, <2>6, <2>7, <2>8 DEF Next
<1>3. TableInv => TypeOK
  BY DEF TableInv, SchedInv
<1> QED
  BY <1>1, <1>2, <1>3, TableInit, TableNext, PTL
     DEF Spec, ImplementsTaskLife, Life!LifeSpec, LifeStep

-----------------------------------------------------------------------------
(***************************************************************************)
(* Who gets the processor: what the liveness properties rest on.           *)
(***************************************************************************)

\* schedule() passes nobody over: no sleeper has a signal that ends its sleep,
\* no alarm is due, and no runnable task has more time left than the one that
\* runs, which has some.
Settled ==
    /\ \A i \in Live : state[i] = "INTERRUPTIBLE" =>
                           signal[i] \cap (Blockable \ blocked[i]) = {}
    /\ \A i \in Live : ~(alarm[i] # 0 /\ alarm[i] < jiffies)
    /\ \A i \in Live : state[i] = "RUNNING" =>
           current # 0 /\ counter[current] > 0 /\ counter[i] <= counter[current]

\* The processor changes hands only so.
HandOver == current' # current => Settled'

\* A task that does not run loses no time.
SlicesKept == \A i \in Live \ {current} : i \in Live' => counter[i] <= counter'[i]

\* A slice below twice the priority only gains when it is refilled.
LEMMA RefillGains ==
    ASSUME NEW live, NEW ready \in SUBSET Slot, NEW cn \in [Slot -> Nat],
           \A i \in Slot : cn[i] < 2 * Priority
    PROVE  /\ Refill(live, ready, cn) \in [Slot -> Nat]
           /\ \A i \in Slot : cn[i] <= Refill(live, ready, cn)[i]
           /\ \A i \in Slot : Refill(live, ready, cn)[i] <= 2 * Priority
           /\ ready # {} /\ ready \subseteq live =>
                  \E i \in ready : Refill(live, ready, cn)[i] > 0
<1>0. Priority \in Nat \ {0}
  BY SchedAssumption
<1>1. \A i \in Slot : /\ cn[i] \in Nat /\ cn[i] <= 2 * Priority
                      /\ cn[i] \div 2 + Priority \in Nat /\ cn[i] \div 2 + Priority > 0
                      /\ cn[i] <= cn[i] \div 2 + Priority
                      /\ cn[i] \div 2 + Priority <= 2 * Priority
  <2> TAKE i \in Slot
  <2>1. PICK x \in Nat : x = cn[i] /\ x < 2 * Priority
    OBVIOUS
  <2>2. PICK h \in Nat : h = x \div 2 /\ 2 * h <= x /\ x <= 2 * h + 1
    BY ONLY x \in Nat
  <2>3. x <= h + Priority /\ h + Priority <= 2 * Priority /\ h + Priority > 0
    BY ONLY <1>0, <2>1, <2>2
  <2> QED
    BY <1>0, <2>1, <2>2, <2>3
<1>2. CASE ready # {} /\ \A i \in ready : cn[i] = 0
  <2>1. Refill(live, ready, cn) =
            [i \in Slot |-> IF i \in live THEN cn[i] \div 2 + Priority ELSE cn[i]]
    BY <1>2 DEF Refill
  <2>2. \A i \in Slot : i \in live => Refill(live, ready, cn)[i] = cn[i] \div 2 + Priority
    BY <2>1
  <2>3. ready # {} /\ ready \subseteq live => \E i \in ready : Refill(live, ready, cn)[i] > 0
    BY <1>1, <2>2
  <2> QED
    BY <1>1, <2>1, <2>3
<1>3. CASE ~(ready # {} /\ \A i \in ready : cn[i] = 0)
  <2>1. Refill(live, ready, cn) = cn
    BY <1>3 DEF Refill
  <2>2. ASSUME ready # {} PROVE \E i \in ready : cn[i] > 0
    <3>1. PICK i \in ready : cn[i] # 0
      BY <1>3, <2>2
    <3> QED
      BY <1>1, <3>1
  <2> QED
    BY <1>1, <2>1, <2>2
<1> QED
  BY <1>2, <1>3

\* One call of schedule().
LEMMA ScheduleSettles ==
    ASSUME NEW st, NEW sg, NEW al, NEW cn \in [Slot -> Nat],
           \A i \in Slot : cn[i] < 2 * Priority,
           NEW now, now = jiffies',
           Schedule(task', st, sg, cn, al, now), blocked' = blocked
    PROVE  Settled' /\ \A i \in Slot : cn[i] <= counter'[i]
<1> DEFINE live  == {i \in UserSlot : task'[i] # NULL}
           sg1   == RaiseAlarms(live, sg, al, now)
           st1   == WakeSignalled(live, st, sg1)
           ready == {i \in live : st1[i] = "RUNNING"}
           cn1   == Refill(live, ready, cn)
<1>1. /\ signal' = sg1 /\ alarm' = ClearAlarms(live, al, now) /\ state' = st1
      /\ counter' = cn1 /\ current' = Pick(ready, cn1)
  BY DEF Schedule
<1>2. live = Live' /\ live \subseteq Slot /\ ready \subseteq live /\ live \subseteq UserSlot
  BY DEF Live
<1>3. \A i \in Live' : i \in ready <=> state'[i] = "RUNNING"
  BY <1>1, <1>2
<1>4. \A i \in Live' : state'[i] = "INTERRUPTIBLE" =>
                           signal'[i] \cap (Blockable \ blocked'[i]) = {}
  <2> HIDE DEF live, sg1
  <2> QED
    BY <1>1, <1>2 DEF WakeSignalled
<1>5. \A i \in Live' : ~(alarm'[i] # 0 /\ alarm'[i] < jiffies')
  <2> HIDE DEF live, ready, cn1, st1, sg1
  <2> QED
    BY <1>1, <1>2 DEF ClearAlarms, Expired
<1> HIDE DEF live, ready, cn1, st1, sg1
<1>6. /\ cn1 \in [Slot -> Nat] /\ \A i \in Slot : cn[i] <= cn1[i] /\ cn1[i] <= 2 * Priority
      /\ ready # {} => \E i \in ready : cn1[i] > 0
  <2>1. ready \in SUBSET Slot
    BY <1>2
  <2> QED
    BY <1>2, <2>1, RefillGains DEF cn1
<1>7. ready # {} => /\ current' \in ready
                    /\ \A j \in ready : counter'[j] <= counter'[current']
  <2>1. ready \in SUBSET UserSlot /\ 2 * Priority \in Nat /\ \A i \in Slot : cn1[i] <= 2 * Priority
    BY <1>2, <1>6, SchedAssumption
  <2>2. ready # {} => /\ Pick(ready, cn1) \in ready
                      /\ \A j \in ready : cn1[j] <= cn1[Pick(ready, cn1)]
    BY ONLY <1>6, <2>1, PickBest
  <2> QED
    BY <1>1, <2>2
<1>8. \A i \in Live' : state'[i] = "RUNNING" =>
          current' # 0 /\ counter'[current'] > 0 /\ counter'[i] <= counter'[current']
  <2> TAKE i \in Live'
  <2> HAVE state'[i] = "RUNNING"
  <2>1. i \in ready /\ current' \in ready /\ counter'[i] <= counter'[current']
    BY <1>3, <1>7
  <2>2. PICK j \in ready : cn1[j] > 0
    BY <1>6, <2>1
  <2>3. current' # 0 /\ current' \in Slot /\ j \in Slot
    BY <1>2, <2>1
  <2>4. counter'[j] \in Nat /\ counter'[current'] \in Nat /\ counter'[j] > 0
        /\ counter'[j] <= counter'[current']
    BY <1>1, <1>6, <1>7, <2>1, <2>2, <2>3
  <2> QED
    BY <2>1, <2>3, <2>4
<1> QED
  BY <1>1, <1>4, <1>5, <1>6, <1>8 DEF Settled

\* Every step calls schedule(), with the slices as they were but that of the
\* running task, or leaves the processor and the slices of the others alone.
Dispatch(st, sg, cn, al) ==
    /\ Schedule(task', st, sg, cn, al, jiffies') /\ blocked' = blocked
    /\ cn \in [Slot -> Nat] /\ \A i \in Slot : cn[i] < 2 * Priority
    /\ \A i \in Slot \ {current} : cn[i] = counter[i]
Quiet == current' = current /\ \A i \in Live \ {current} : counter'[i] = counter[i]

LEMMA DispatchKeeps ==
    ASSUME NEW st, NEW sg, NEW cn, NEW al, Dispatch(st, sg, cn, al)
    PROVE  HandOver /\ SlicesKept
<1>1. Settled' /\ \A i \in Slot : cn[i] <= counter'[i]
  BY ScheduleSettles DEF Dispatch
<1>2. \A i \in Live \ {current} : cn[i] = counter[i] /\ i \in Slot
  BY DEF Dispatch, Live
<1> QED
  BY <1>1, <1>2 DEF HandOver, SlicesKept

LEMMA QuietKeeps == SchedInv /\ Quiet => HandOver /\ SlicesKept
<1> SUFFICES ASSUME SchedInv, Quiet PROVE HandOver /\ SlicesKept
  OBVIOUS
<1>1. \A i \in Live : counter[i] \in Nat
  BY DEF SchedInv, TypeOK, Live
<1> QED
  BY <1>1 DEF Quiet, HandOver, SlicesKept

LEMMA WithSlices ==
    ASSUME SchedInv, NEW st, NEW sg, NEW al, Schedule(task', st, sg, counter, al, jiffies),
           UNCHANGED <<blocked, jiffies>>
    PROVE  HandOver /\ SlicesKept
<1>1. counter \in [Slot -> Nat] /\ \A i \in Slot : counter[i] < 2 * Priority
  BY DEF SchedInv, TypeOK, CounterBound
<1>2. Dispatch(st, sg, counter, al)
  BY <1>1 DEF Dispatch
<1> QED
  BY <1>2, DispatchKeeps

LEMMA HandOverStep == SchedInv /\ [Next]_vars => HandOver /\ SlicesKept
<1> SUFFICES ASSUME SchedInv, [Next]_vars PROVE HandOver /\ SlicesKept
  OBVIOUS
<1> USE DEF Sleep
<1>1. CASE Pause
  BY <1>1, WithSlices DEF Pause
<1>2. ASSUME NEW s \in AlarmSeconds, SleepFor(s) PROVE HandOver /\ SlicesKept
  BY <1>2, WithSlices DEF SleepFor
<1>3. ASSUME NEW s \in DeviceSleeps, DeviceSleep(s) PROVE HandOver /\ SlicesKept
  BY <1>3, WithSlices DEF DeviceSleep
<1>4. CASE Exit
  BY <1>4, WithSlices DEF Exit
<1>5. ASSUME NEW i, NEW sg, Release(i, sg), UNCHANGED <<blocked, jiffies>>
      PROVE  HandOver /\ SlicesKept
  BY <1>5, WithSlices DEF Release
<1>6. ASSUME NEW who, NEW nohang, NEW sg, WaitScan(who, nohang, sg),
             UNCHANGED <<blocked, jiffies>>
      PROVE  HandOver /\ SlicesKept
  <2>1. \/ \E i : Release(i, sg)
        \/ UNCHANGED <<counter, current>>
        \/ /\ Schedule(task, [state EXCEPT ![current] = "INTERRUPTIBLE"],
                       sg, counter, alarm, jiffies)
           /\ task' = task
    BY <1>6 DEF WaitScan
  <2>2. CASE UNCHANGED <<counter, current>>
    BY <2>2, QuietKeeps DEF Quiet
  <2> QED
    BY <1>5, <1>6, <2>1, <2>2, WithSlices
<1>7. ASSUME NEW who, NEW nohang, Waitpid(who, nohang) PROVE HandOver /\ SlicesKept
  BY <1>6, <1>7 DEF Waitpid
<1>8. CASE WaitResumes
  <2>1. \/ \E sg : WaitScan(arg[current], FALSE, sg)
        \/ UNCHANGED <<counter, current>>
    BY <1>8 DEF WaitResumes
  <2>2. CASE UNCHANGED <<counter, current>>
    BY <2>2, QuietKeeps DEF Quiet
  <2>3. UNCHANGED <<blocked, jiffies>>
    BY <1>8 DEF WaitResumes
  <2> QED
    BY <1>6, <2>1, <2>2, <2>3
<1>9. CASE ReleaseContinues
  <2>1. (\E i : Release(i, signal)) \/ UNCHANGED <<counter, current>>
    BY <1>9 DEF ReleaseContinues
  <2>2. CASE UNCHANGED <<counter, current>>
    BY <2>2, QuietKeeps DEF Quiet
  <2>3. UNCHANGED <<blocked, jiffies>>
    BY <1>9 DEF ReleaseContinues
  <2> QED
    BY <1>5, <2>1, <2>2, <2>3
<1>10. CASE Ret
  <2>1. \/ UNCHANGED <<counter, current>>
        \/ Schedule(task', [state EXCEPT ![current] = state[current]], signal, counter,
                    alarm, jiffies)
    BY <1>10 DEF Ret
  <2>2. CASE UNCHANGED <<counter, current>>
    BY <2>2, QuietKeeps DEF Quiet
  <2>3. UNCHANGED <<blocked, jiffies>>
    BY <1>10 DEF Ret
  <2> QED
    BY <2>1, <2>2, <2>3, WithSlices
<1>11. CASE Tick
  <2> DEFINE left == [counter EXCEPT ![current] = Spend(@)]
  <2>1. /\ counter \in [Slot -> Nat] /\ current \in Slot
        /\ \A i \in Slot : counter[i] < 2 * Priority
    BY DEF SchedInv, TypeOK, CounterBound
  <2>2. left \in [Slot -> Nat] /\ \A i \in Slot : left[i] < 2 * Priority
    <3>1. \A c \in Nat : c < 2 * Priority => Spend(c) \in Nat /\ Spend(c) < 2 * Priority
      BY SchedAssumption DEF Spend
    <3> QED
      BY <2>1, <3>1
  <2>3. \A i \in Slot \ {current} : left[i] = counter[i]
    BY <2>1
  <2>4. /\ blocked' = blocked
        /\ \/ counter' = left /\ current' = current
           \/ Schedule(task', state, signal, left, alarm, jiffies')
    BY <1>11 DEF Tick
  <2> HIDE DEF left
  <2>5. CASE counter' = left /\ current' = current
    <3>1. Quiet
      BY <2>3, <2>5 DEF Quiet, Live
    <3> QED
      BY <3>1, QuietKeeps
  <2>6. CASE Schedule(task', state, signal, left, alarm, jiffies')
    <3>1. Dispatch(state, signal, left, alarm)
      BY <2>2, <2>3, <2>4, <2>6 DEF Dispatch
    <3> QED
      BY <3>1, DispatchKeeps
  <2> QED
    BY <2>4, <2>5, <2>6
<1>12. CASE Fork
  <2>1. /\ current' = current
        /\ counter' = [counter EXCEPT ![MinOf(EmptySlot)] = Priority]
        /\ EmptySlot # {}
    BY <1>12 DEF Fork
  <2>2. MinOf(EmptySlot) \in EmptySlot
    <3>1. EmptySlot \in SUBSET Nat
      BY SchedAssumption DEF EmptySlot, Slot
    <3> QED
      BY <2>1, <3>1, MinOfProps
  <2>3. counter \in [Slot -> Nat]
    BY DEF SchedInv, TypeOK
  <2>4. \A i \in Live : i \in Slot /\ i # MinOf(EmptySlot)
    BY <2>2 DEF EmptySlot, Live
  <2>5. Quiet
    BY <2>1, <2>3, <2>4 DEF Quiet
  <2> QED
    BY <2>5, QuietKeeps
<1>13. ASSUME UNCHANGED <<counter, current>> PROVE HandOver /\ SlicesKept
  BY <1>13, QuietKeeps DEF Quiet
<1>14. CASE ForkFails \/ DeviceSleepReturn \/ DeliverSignal
  BY <1>13, <1>14 DEF ForkFails, DeviceSleepReturn, DeliverSignal, taskFields
<1>15. CASE UNCHANGED vars
  BY <1>13, <1>15 DEF vars, taskFields
<1>16. ASSUME NEW s \in AlarmSeconds, Alarm(s) PROVE HandOver /\ SlicesKept
  BY <1>13, <1>16 DEF Alarm
<1>17. ASSUME NEW m \in Masks, SetMask(m) PROVE HandOver /\ SlicesKept
  BY <1>13, <1>17 DEF SetMask
<1>18. ASSUME NEW q \in 1..MaxPid, NEW s \in KillSignals, Kill(q, s) PROVE HandOver /\ SlicesKept
  BY <1>13, <1>18 DEF Kill
<1>19. ASSUME NEW i \in UserSlot, DeviceWake(i) PROVE HandOver /\ SlicesKept
  BY <1>13, <1>19 DEF DeviceWake
<1>20. CASE UserStep
  BY <1>20, <1>1, <1>2, <1>3, <1>4, <1>7, <1>12, <1>14, <1>16, <1>17, <1>18 DEF UserStep
<1>21. CASE KernelStep
  BY <1>21, <1>3, <1>8, <1>9, <1>10, <1>14 DEF KernelStep
<1> QED
  BY <1>11, <1>15, <1>19, <1>20, <1>21 DEF Next

\* The safety behind SignalEndsSleep, AlarmEndsSleep and NoStarvation
\* (schedule(), sched.c:87-136): whatever step hands the processor over, no
\* sleeper is left with a signal that ends its sleep, no alarm that is due is
\* left, and the new task has time and the most of all that are runnable.
THEOREM NobodyPassedOver == Spec => [][HandOver]_vars
  BY SchedCorrect, HandOverStep, PTL DEF Spec

\* And a task that waits for the processor never loses time (sched.c:129): the
\* halving of its slice takes away no more than the priority adds, since
\* CounterBound keeps every slice below twice the priority.
THEOREM WaitersLoseNoTime == Spec => [][SlicesKept]_vars
  BY SchedCorrect, HandOverStep, PTL DEF Spec
=============================================================================
