-------------------------- MODULE WaitQueue_proofs --------------------------
(***************************************************************************)
(* Theorems about WaitQueue, for any set of tasks: what holds however the  *)
(* object is used, and that a calm queue loses nobody.                     *)
(***************************************************************************)
EXTENDS WaitQueue, TLAPS

USE WaitQueueAssumption

-----------------------------------------------------------------------------
(***************************************************************************)
(* Any use of the object                                                   *)
(***************************************************************************)

LockInv == TypeOK /\ OneOwner /\ HeadAwake

\* A wake-up makes one task runnable and leaves the others as they are.
LEMMA ReadyProps ==
    ASSUME TypeOK, NEW t \in Task \cup {NULL}
    PROVE  /\ Ready(t) \in [Task -> {"RUNNING", "UNINTERRUPTIBLE", "ZOMBIE"}]
           /\ \A u \in Task : Ready(t)[u] = IF u = t THEN "RUNNING" ELSE state[u]
BY DEF Ready, TypeOK

\* The loop around sleep_on(), entered with a head that is no sleeper unless
\* the object is locked.
LEMMA LoopInv ==
    ASSUME LockInv,
           NEW t \in Task, NEW what \in {"wait", "lock"},
           NEW head \in Task \cup {NULL},
           NEW st \in [Task -> {"RUNNING", "UNINTERRUPTIBLE", "ZOMBIE"}],
           ~lock /\ head # NULL => st[head] # Asleep,
           Loop(t, what, head, st)
    PROVE  LockInv'
<1>1. TypeOK /\ OneOwner
  BY DEF LockInv
<1>2. CASE lock
  <2>1. /\ wait' = t /\ tmp' = [tmp EXCEPT ![t] = head]
        /\ state' = [st EXCEPT ![t] = Asleep]
        /\ call' = [call EXCEPT ![t] = what] /\ UNCHANGED <<lock, owners>>
    BY <1>2 DEF Loop, SleepOn
  <2> QED
    BY <1>1, <1>2, <2>1 DEF LockInv, TypeOK, OneOwner, HeadAwake, Asleep
<1>3. CASE ~lock
  <2>1. Leave(t, what) /\ wait' = head /\ state' = st /\ UNCHANGED tmp
    BY <1>3 DEF Loop
  <2>2. TypeOK' /\ OneOwner'
    BY <1>1, <1>3, <2>1 DEF Leave, TypeOK, OneOwner
  <2>3. HeadAwake'
    BY <1>3, <2>1 DEF HeadAwake
  <2> QED
    BY <2>2, <2>3 DEF LockInv
<1>4. QED
  BY <1>2, <1>3

\* Every step keeps LockInv.
LEMMA LockNext == LockInv /\ [Next]_vars => LockInv'
<1> SUFFICES ASSUME LockInv, [Next]_vars PROVE LockInv'
  OBVIOUS
<1>1. TypeOK /\ OneOwner /\ HeadAwake
  BY DEF LockInv
<1>2. ASSUME NEW t \in Task, NEW what \in {"wait", "lock"}, Call(t, what)
      PROVE  LockInv'
  BY <1>1, <1>2, LoopInv DEF Call, TypeOK, HeadAwake
<1>3. ASSUME NEW t \in Task, Resume(t)
      PROVE  LockInv'
  <2>1. tmp[t] \in Task \cup {NULL} /\ call[t] \in {"wait", "lock"}
    BY <1>1, <1>3 DEF Resume, TypeOK
  <2>2. Ready(tmp[t]) \in [Task -> {"RUNNING", "UNINTERRUPTIBLE", "ZOMBIE"}]
    BY <1>1, <2>1, ReadyProps
  <2>3. tmp[t] # NULL => Ready(tmp[t])[tmp[t]] # Asleep
    BY <1>1, <2>1, ReadyProps DEF Asleep
  <2>4. Loop(t, call[t], tmp[t], Ready(tmp[t]))
    BY <1>3 DEF Resume
  <2> QED
    BY <2>1, <2>2, <2>3, <2>4, LoopInv
<1>4. ASSUME NEW t \in Task, Unlock(t)
      PROVE  LockInv'
  <2>1. owners' = {} /\ ~lock' /\ wait' = NULL
    BY <1>1, <1>4 DEF Unlock, OneOwner
  <2>2. state' \in [Task -> {"RUNNING", "UNINTERRUPTIBLE", "ZOMBIE"}]
    BY <1>1, <1>4, ReadyProps DEF Unlock, TypeOK
  <2> QED
    BY <1>1, <1>4, <2>1, <2>2 DEF Unlock, LockInv, TypeOK, OneOwner, HeadAwake
<1>5. ASSUME NEW t \in Task, Exit(t)
      PROVE  LockInv'
  BY <1>1, <1>5 DEF Exit, LockInv, TypeOK, OneOwner, HeadAwake, Asleep
<1>6. CASE UNCHANGED vars
  BY <1>1, <1>6 DEF vars, LockInv, TypeOK, OneOwner, HeadAwake
<1>7. QED
  BY <1>2, <1>3, <1>4, <1>5, <1>6 DEF Next, Step

\* LockInv is inductive.
THEOREM LockCorrect == Spec => []LockInv
<1>1. Init => LockInv
  BY DEF Init, LockInv, TypeOK, OneOwner, HeadAwake
<1>2. QED
  BY <1>1, LockNext, PTL DEF Spec

\* The variables keep their types.
THEOREM TypeCorrect == Spec => []TypeOK
<1>1. LockInv => TypeOK
  BY DEF LockInv
<1>2. QED
  BY <1>1, LockCorrect, PTL

\* The loop in lock_buffer(), lock_inode() and lock_super() gives the object
\* to one task at a time, however many are woken together.
THEOREM LockIsExclusive == Spec => []OneOwner
<1>1. LockInv => OneOwner
  BY DEF LockInv
<1>2. QED
  BY <1>1, LockCorrect, PTL

\* An unlocking wakes the head of the queue.
THEOREM HeadIsWoken == Spec => []HeadAwake
<1>1. LockInv => HeadAwake
  BY DEF LockInv
<1>2. QED
  BY <1>1, LockCorrect, PTL

-----------------------------------------------------------------------------
(***************************************************************************)
(* A calm queue                                                            *)
(***************************************************************************)

\* The queue is what its inventor meant it to be: the tasks inside it form a
\* chain of pointers in which nobody occurs twice, and all but a first few
\* that an unlocking has set in motion are asleep.
Chain ==
    /\ \A t \in Task : state[t] = Asleep => t \in Inside
    /\ lock => \A t \in Inside : state[t] = Asleep
    /\ wait # NULL => wait \in Inside
    /\ \A t \in Inside : tmp[t] # NULL => state[tmp[t]] = Asleep
    /\ lock /\ wait # NULL => \A t \in Inside : tmp[t] # wait
    /\ \A t, u \in Inside : tmp[t] # NULL /\ tmp[t] = tmp[u] => t = u

CalmInv == LockInv /\ SleepersFound /\ Chain

\* The steps of a calm queue keep the chain and wake nobody outside it.
LEMMA CalmCall ==
    ASSUME CalmInv, Calm, NEW t \in Task, NEW what \in {"wait", "lock"}, Call(t, what)
    PROVE  /\ SleepersFound' /\ Chain'
           /\ \A u \in Task : state'[u] = "RUNNING" => state[u] = "RUNNING" \/ u \in Inside
<1>1. /\ TypeOK /\ OneOwner /\ HeadAwake /\ SleepersFound /\ Chain
      /\ state[t] = "RUNNING" /\ t \notin Inside /\ t # NULL
  BY DEF CalmInv, LockInv, Call, Inside
<1>2. CASE lock
  <2>1. /\ wait' = t /\ tmp' = [tmp EXCEPT ![t] = wait]
        /\ state' = [state EXCEPT ![t] = Asleep]
        /\ call' = [call EXCEPT ![t] = what] /\ lock' = lock
    BY <1>2 DEF Call, Loop, SleepOn
  <2>2. Inside' = Inside \cup {t}
    BY <1>1, <2>1 DEF Inside, TypeOK
  <2>3. /\ tmp'[t] = wait /\ state'[t] = Asleep
        /\ \A u \in Task : u # t => tmp'[u] = tmp[u] /\ state'[u] = state[u]
    BY <1>1, <2>1 DEF TypeOK
  <2>4. wait # t /\ \A u \in Inside : tmp[u] # t
    BY <1>1 DEF Chain, Asleep
  <2>5. Inside \subseteq Task
    BY DEF Inside
  <2>6. SleepersFound'
    <3> SUFFICES ASSUME NEW s \in Task, state'[s] = Asleep, s # t
                 PROVE  \E u \in Inside' \ {s} : tmp'[u] = s
      BY <2>1 DEF SleepersFound
    <3>1. s = wait \/ \E u \in Inside \ {s} : tmp[u] = s
      BY <1>1, <2>3 DEF SleepersFound
    <3> QED
      BY <1>1, <2>2, <2>3, <2>5, <3>1
  <2>7. wait # NULL => state[wait] = Asleep /\ wait \in Task
    BY <1>1, <1>2, <2>5 DEF Chain
  <2>8. Chain'
    <3>1. \A u \in Task : state'[u] = Asleep => u \in Inside'
      BY <1>1, <2>2, <2>3 DEF Chain
    <3>2. \A u \in Inside' : state'[u] = Asleep
      BY <1>1, <1>2, <2>2, <2>3, <2>5 DEF Chain
    <3>3. wait' \in Inside'
      BY <2>1, <2>2
    <3>4. \A u \in Inside' : tmp'[u] # NULL => state'[tmp'[u]] = Asleep
      BY <1>1, <2>2, <2>3, <2>4, <2>5, <2>7 DEF Chain, TypeOK
    <3>5. \A u \in Inside' : tmp'[u] # wait'
      BY <1>1, <2>1, <2>2, <2>3, <2>4, <2>5
    <3>6. \A u, v \in Inside' : tmp'[u] # NULL /\ tmp'[u] = tmp'[v] => u = v
      BY <1>1, <1>2, <2>2, <2>3, <2>5 DEF Chain
    <3> QED
      BY <3>1, <3>2, <3>3, <3>4, <3>5, <3>6 DEF Chain
  <2> QED
    BY <2>3, <2>6, <2>8 DEF Asleep
<1>3. CASE ~lock
  <2>1. /\ wait' = wait /\ tmp' = tmp /\ state' = state /\ Leave(t, what)
    BY <1>3 DEF Call, Loop
  <2>2. call' = call
    BY <1>1, <2>1 DEF Leave, Inside, TypeOK
  <2>3. Inside' = Inside
    BY <2>2 DEF Inside
  <2>4. lock' => Inside = {}
    BY <1>1, <1>3, <2>1 DEF Leave, Calm, OneOwner
  <2> QED
    BY <1>1, <2>1, <2>3, <2>4 DEF SleepersFound, Chain
<1>4. QED
  BY <1>2, <1>3

LEMMA CalmResume ==
    ASSUME CalmInv, Calm, NEW t \in Task, Resume(t)
    PROVE  /\ SleepersFound' /\ Chain'
           /\ \A u \in Task : state'[u] = "RUNNING" => state[u] = "RUNNING" \/ u \in Inside
<1>1. /\ TypeOK /\ OneOwner /\ HeadAwake /\ SleepersFound /\ Chain
      /\ state[t] = "RUNNING" /\ t \in Inside /\ tmp[t] \in Task \cup {NULL}
      /\ Inside \subseteq Task
  BY DEF CalmInv, LockInv, Resume, Inside, TypeOK
<1>2. ~lock
  BY <1>1 DEF Chain, Asleep
<1>3. /\ wait' = tmp[t] /\ tmp' = tmp /\ state' = Ready(tmp[t]) /\ Leave(t, call[t])
  BY <1>2 DEF Resume, Loop
<1>4. call' = [call EXCEPT ![t] = "none"]
  BY <1>3 DEF Leave
<1>5. Inside' = Inside \ {t}
  BY <1>1, <1>4 DEF Inside, TypeOK
<1>6. lock' => Inside' = {}
  BY <1>1, <1>2, <1>3 DEF Leave, Calm, OneOwner
<1>7. \A u \in Task : state'[u] = IF u = tmp[t] THEN "RUNNING" ELSE state[u]
  BY <1>1, <1>3, ReadyProps
<1>8. tmp[t] # NULL => tmp[t] \in Inside \ {t}
  BY <1>1 DEF Chain, Asleep
<1>9. SleepersFound'
  <2> SUFFICES ASSUME NEW s \in Task, state'[s] = Asleep
               PROVE  \E u \in Inside' \ {s} : tmp'[u] = s
    BY DEF SleepersFound
  <2>1. s # tmp[t] /\ state[s] = Asleep
    BY <1>7 DEF Asleep
  <2>2. s # wait
    BY <1>1, <1>2, <2>1 DEF HeadAwake
  <2>3. PICK u \in Inside \ {s} : tmp[u] = s
    BY <1>1, <2>1, <2>2 DEF SleepersFound
  <2> QED
    BY <1>3, <1>5, <2>1, <2>3
<1>10. Chain'
  <2>1. \A u \in Task : state'[u] = Asleep => u \in Inside'
    BY <1>1, <1>5, <1>7 DEF Chain, Asleep
  <2>2. lock' => \A u \in Inside' : state'[u] = Asleep
    BY <1>6
  <2>3. wait' # NULL => wait' \in Inside'
    BY <1>3, <1>5, <1>8
  <2>4. \A u \in Inside' : tmp'[u] # NULL => state'[tmp'[u]] = Asleep
    <3> SUFFICES ASSUME NEW u \in Inside', tmp[u] # NULL
                 PROVE  state'[tmp[u]] = Asleep
      BY <1>3
    <3>1. u \in Inside /\ u # t /\ tmp[u] \in Task /\ state[tmp[u]] = Asleep
      BY <1>1, <1>5 DEF Chain, TypeOK
    <3>2. tmp[u] # tmp[t]
      BY <1>1, <3>1 DEF Chain
    <3> QED
      BY <1>7, <3>1, <3>2
  <2>5. lock' /\ wait' # NULL => \A u \in Inside' : tmp'[u] # wait'
    BY <1>6
  <2>6. \A u, v \in Inside' : tmp'[u] # NULL /\ tmp'[u] = tmp'[v] => u = v
    BY <1>1, <1>3, <1>5 DEF Chain
  <2> QED
    BY <2>1, <2>2, <2>3, <2>4, <2>5, <2>6 DEF Chain
<1>11. QED
  BY <1>7, <1>8, <1>9, <1>10

LEMMA CalmUnlock ==
    ASSUME CalmInv, NEW t \in Task, Unlock(t)
    PROVE  /\ SleepersFound' /\ Chain'
           /\ \A u \in Task : state'[u] = "RUNNING" => state[u] = "RUNNING" \/ u \in Inside
<1>1. /\ TypeOK /\ OneOwner /\ SleepersFound /\ Chain /\ wait \in Task \cup {NULL}
      /\ Inside \subseteq Task
  BY DEF CalmInv, LockInv, Inside, TypeOK
<1>2. lock /\ ~lock' /\ wait' = NULL /\ state' = Ready(wait) /\ UNCHANGED <<tmp, call>>
  BY <1>1 DEF Unlock, OneOwner
<1>3. Inside' = Inside
  BY <1>2 DEF Inside
<1>4. \A u \in Task : state'[u] = IF u = wait THEN "RUNNING" ELSE state[u]
  BY <1>1, <1>2, ReadyProps
<1>5. SleepersFound'
  <2> SUFFICES ASSUME NEW s \in Task, state'[s] = Asleep
               PROVE  \E u \in Inside' \ {s} : tmp'[u] = s
    BY DEF SleepersFound
  <2>1. s # wait /\ state[s] = Asleep
    BY <1>4 DEF Asleep
  <2> QED
    BY <1>1, <1>2, <1>3, <2>1 DEF SleepersFound
<1>6. Chain'
  <2>1. \A u \in Inside : tmp[u] # NULL => state'[tmp[u]] = Asleep
    <3> SUFFICES ASSUME NEW u \in Inside, tmp[u] # NULL
                 PROVE  state'[tmp[u]] = Asleep
      OBVIOUS
    <3>1. tmp[u] \in Task /\ state[tmp[u]] = Asleep
      BY <1>1 DEF Chain, TypeOK
    <3>2. tmp[u] # wait
      BY <1>1, <1>2, <3>1 DEF Chain
    <3> QED
      BY <1>4, <3>1, <3>2
  <2> QED
    BY <1>1, <1>2, <1>3, <1>4, <2>1 DEF Chain, Asleep
<1>7. QED
  BY <1>1, <1>4, <1>5, <1>6 DEF Chain

\* Every step of a calm queue.
LEMMA CalmNext ==
    ASSUME CalmInv, [Next]_vars, Calm \/ UNCHANGED vars
    PROVE  /\ CalmInv'
           /\ \A u \in Task : state'[u] = "RUNNING" => state[u] = "RUNNING" \/ u \in Inside
<1>1. LockInv'
  BY LockNext DEF CalmInv
<1>2. ASSUME Calm, NEW t \in Task, NEW what \in {"wait", "lock"}, Call(t, what)
      PROVE  /\ SleepersFound' /\ Chain'
             /\ \A u \in Task : state'[u] = "RUNNING" => state[u] = "RUNNING" \/ u \in Inside
  BY <1>2, CalmCall
<1>3. ASSUME Calm, NEW t \in Task, Resume(t)
      PROVE  /\ SleepersFound' /\ Chain'
             /\ \A u \in Task : state'[u] = "RUNNING" => state[u] = "RUNNING" \/ u \in Inside
  BY <1>3, CalmResume
<1>4. ASSUME NEW t \in Task, Unlock(t)
      PROVE  /\ SleepersFound' /\ Chain'
             /\ \A u \in Task : state'[u] = "RUNNING" => state[u] = "RUNNING" \/ u \in Inside
  BY <1>4, CalmUnlock
<1>5. ASSUME NEW t \in Task, Exit(t)
      PROVE  /\ SleepersFound' /\ Chain'
             /\ \A u \in Task : state'[u] = "RUNNING" => state[u] = "RUNNING" \/ u \in Inside
  <2>1. /\ TypeOK /\ SleepersFound /\ Chain /\ state[t] = "RUNNING" /\ t \notin Inside
        /\ Inside \subseteq Task
    BY <1>5 DEF CalmInv, LockInv, Exit, Inside
  <2>2. state' = [state EXCEPT ![t] = "ZOMBIE"] /\ UNCHANGED <<lock, wait, tmp, call>>
    BY <1>5 DEF Exit
  <2>3. Inside' = Inside
    BY <2>2 DEF Inside
  <2>4. /\ \A u \in Task : state'[u] = Asleep <=> state[u] = Asleep
        /\ \A u \in Task : state'[u] = "RUNNING" => state[u] = "RUNNING"
    BY <2>1, <2>2 DEF TypeOK, Asleep
  <2>5. \A u \in Inside : tmp[u] # NULL => tmp[u] \in Task
    BY <2>1 DEF TypeOK
  <2>6. SleepersFound'
    BY <2>1, <2>2, <2>3, <2>4 DEF SleepersFound
  <2>7. Chain'
    BY <2>1, <2>2, <2>3, <2>4, <2>5 DEF Chain
  <2> QED
    BY <2>4, <2>6, <2>7
<1>6. CASE UNCHANGED vars
  <2>1. Inside' = Inside
    BY <1>6 DEF vars, Inside
  <2> QED
    BY <1>1, <1>6, <2>1 DEF vars, CalmInv, SleepersFound, Chain
<1>7. QED
  BY <1>1, <1>2, <1>3, <1>4, <1>5, <1>6 DEF Next, Step, CalmInv

\* As long as the queue is calm it is a chain.
THEOREM CalmCorrect == Spec => [](calm => CalmInv)
<1>1. Init => CalmInv
  BY DEF Init, CalmInv, LockInv, TypeOK, OneOwner, HeadAwake, SleepersFound, Chain,
         Inside, Asleep
<1>2. (calm => CalmInv) /\ [Next]_vars => (calm' => CalmInv')
  <2> SUFFICES ASSUME calm => CalmInv, [Next]_vars, calm' PROVE CalmInv'
    OBVIOUS
  <2>1. CASE UNCHANGED vars
    BY <2>1, CalmNext DEF vars
  <2>2. CASE Next
    <3>1. calm /\ Calm
      BY <2>2 DEF Next, Observe
    <3> QED
      BY <2>2, <3>1, CalmNext
  <2> QED
    BY <2>1, <2>2
<1>3. QED
  BY <1>1, <1>2, PTL DEF Spec

\* A calm queue always leads to every sleeper in it: sleep_on() threads its
\* list through the stacks of the sleepers and breaks it nowhere.
THEOREM CalmLosesNobody == Spec => []NoLostSleeper
<1>1. (calm => CalmInv) => NoLostSleeper
  BY DEF CalmInv, NoLostSleeper
<1>2. QED
  BY <1>1, CalmCorrect, PTL

\* And wake_up() and sleep_on() never make a task runnable that does not
\* sleep there.
THEOREM CalmWakesOnlySleepers == Spec => OnlySleepersWoken
<1>1. (calm => CalmInv) /\ [Next]_vars =>
          [calm' => \A t \in Task : state'[t] = "RUNNING" =>
                                        state[t] = "RUNNING" \/ t \in Inside]_vars
  <2> SUFFICES ASSUME calm => CalmInv, Next, calm'
               PROVE  \A t \in Task : state'[t] = "RUNNING" =>
                                        state[t] = "RUNNING" \/ t \in Inside
    OBVIOUS
  <2>1. calm /\ Calm
    BY DEF Next, Observe
  <2> QED
    BY <2>1, CalmNext
<1>2. QED
  BY <1>1, CalmCorrect, PTL DEF Spec, OnlySleepersWoken
=============================================================================
