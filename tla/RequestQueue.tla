---------------------------- MODULE RequestQueue ----------------------------
(***************************************************************************)
(* Requests of the block device: kernel/blk_drv/ll_rw_blk.c, blk.h and     *)
(* hd.c, with the waits of bread() in fs/buffer.c.                         *)
(*                                                                         *)
(* A task that wants a block locks its buffer, looks for a free entry of   *)
(* request[] and puts it in the queue of the disk; the disk's interrupt    *)
(* moves two sectors, ends the request and starts the next one.  The queue *)
(* that the next pointers form is a sequence here, CURRENT its head.       *)
(*                                                                         *)
(* The kernel is not preemptive: cpu is the task that runs kernel code,    *)
(* and no other task takes a step until it sleeps or returns.  Interrupts  *)
(* come between any two of its steps; lock_buffer() and wait_on_buffer()   *)
(* run from cli() to their sleep or sti(), and from the end of the sleep   *)
(* on, as one step.  make_request() sleeps with interrupts on.             *)
(*                                                                         *)
(* Nobody calls for READA and WRITEA.  WRITE is called for, but hd.c does  *)
(* not start it ("TODO"): a write at the head of the queue stays there.    *)
(***************************************************************************)
EXTENDS Integers, FiniteSets, Sequences

CONSTANTS
    Task,           \* the tasks that read and write blocks
    Block,          \* block numbers on one device, each with a buffer
    NR_REQUEST,     \* entries of request[] (32)
    MAX_ERRORS,     \* errors after which a read is given up (7)
    nr_sects,       \* the size of the disk in sectors, two to a block
    Changed,        \* bound: the blocks that programs change
    NULL            \* a null pointer

WaitForRequest == 0     \* the queue wait_for_request; those of buffers have
                        \* the number of the block
WaitQueues == Block \cup {WaitForRequest}

ASSUME RequestAssumption ==
    /\ NULL \notin Task /\ NULL \notin Nat
    /\ NULL \notin [cmd : {"READ", "WRITE"}, buf : Block]
    /\ NULL \notin [cmd : {"READ", "WRITE"}, buf : Block, errors : Nat, left : {1, 2}]
    /\ Block \subseteq Nat \ {0}
    /\ NR_REQUEST \in Nat /\ NR_REQUEST >= 2
    /\ MAX_ERRORS \in Nat \ {0}
    /\ nr_sects \in Nat
    /\ Changed \subseteq Block

VARIABLES
    request,                \* the entries: [cmd, buf, errors, left] or NULL
    queue,                  \* the entries that are queued, CURRENT first
    do_hd,                  \* TRUE if an interrupt of read_intr() will come
    lock, dirt, uptodate,   \* b_lock, b_dirt, b_uptodate of each buffer
    wait,                   \* the head of each wait queue
    state, tmp,             \* of each task: its state, its tmp of sleep_on()
    pc, call,               \* of each task: its place, and the command and
                            \* buffer it is busy with, or NULL
    cpu                     \* the task in the kernel, or NULL

buffers == <<lock, dirt, uptodate>>
tasks == <<state, tmp, pc, call, cpu>>
vars == <<request, queue, do_hd, buffers, wait, tasks>>

Entry == 0..NR_REQUEST - 1
Places == {"idle", "lock_buffer", "search", "full", "doze", "wait_on_buffer"}

-----------------------------------------------------------------------------
(***************************************************************************)
(* Sleeping and waking (kernel/sched.c)                                    *)
(***************************************************************************)

\* wake_up() of the queues in S, with the heads w and the states st.
WakeUp(S, w, st) ==
    /\ state' = [t \in Task |-> IF \E q \in S : w[q] = t THEN "RUNNING" ELSE st[t]]
    /\ wait' = [q \in WaitQueues |-> IF q \in S THEN NULL ELSE w[q]]

\* sleep_on() with interrupts off; the task goes on at place.
SleepOn(t, q, place, w, st) ==
    /\ wait' = [w EXCEPT ![q] = t]
    /\ tmp' = [tmp EXCEPT ![t] = w[q]]
    /\ state' = [st EXCEPT ![t] = "UNINTERRUPTIBLE"]
    /\ pc' = [pc EXCEPT ![t] = place]
    /\ cpu' = NULL

\* The end of sleep_on(), when the task t that slept at place is dispatched:
\* the head it has kept is put back and the task it points to is woken.
Dispatched(t, place) == cpu = NULL /\ state[t] = "RUNNING" /\ pc[t] = place
HeadsPutBack(t, q) == [wait EXCEPT ![q] = tmp[t]]
NextWoken(t) == IF tmp[t] = NULL THEN state ELSE [state EXCEPT ![tmp[t]] = "RUNNING"]
Forget(t) == tmp' = [tmp EXCEPT ![t] = NULL]

-----------------------------------------------------------------------------
(***************************************************************************)
(* The queue of the disk                                                   *)
(***************************************************************************)

\* IN_ORDER: reads before writes, then by sector.  (The sector of CURRENT
\* grows while it is read, but no two requests are for the same block.)
InOrder(r, s) == \/ r.cmd = "READ" /\ s.cmd = "WRITE"
                 \/ r.cmd = s.cmd /\ r.buf < s.buf

\* The elevator of add_request(): r goes behind the first place of q where
\* it continues the sweep, or behind the last one.
MutFits(q, r) ==        \* the turn of the sweep is not looked for
    {i \in 1..Len(q) - 1 : /\ InOrder(request[q[i]], r)
                           /\ InOrder(r, request[q[i + 1]])}
Fits(q, r) ==
    {i \in 1..Len(q) - 1 : /\ \/ InOrder(request[q[i]], r)
                              \/ ~InOrder(request[q[i]], request[q[i + 1]])
                           /\ InOrder(r, request[q[i + 1]])}

Behind(q, r) == IF Fits(q, r) = {} THEN Len(q)
                ELSE CHOOSE i \in Fits(q, r) : \A j \in Fits(q, r) : i <= j

MutInserted(q, e, r) ==     \* next of the new entry is not set
    SubSeq(q, 1, Behind(q, r)) \o <<e>>
Inserted(q, e, r) == SubSeq(q, 1, Behind(q, r)) \o <<e>>
                     \o SubSeq(q, Behind(q, r) + 1, Len(q))

\* do_hd_request() refuses a request that ends beyond the disk.  It counts
\* two sectors from the next one, also when one of them has been read.
Refused(r) == 2 * r.buf + (2 - r.left) + 2 > nr_sects

\* end_request() for the entry e at the head of q, unless e is NULL, and for
\* those behind it that do_hd_request() refuses; then the next one is
\* started.  q and rq are the queue and the table before.
EndRequests(q, rq, e, good) ==
    LET rest    == IF e = NULL THEN q ELSE Tail(q)
        refused == {i \in 1..Len(rest) : \A j \in 1..i : Refused(rq[rest[j]])}
        bad     == {rest[i] : i \in refused}
        ended   == bad \cup ({e} \ {NULL})
        left    == SubSeq(rest, Cardinality(refused) + 1, Len(rest))
        ok      == IF good /\ e # NULL THEN {rq[e].buf} ELSE {}
        bufs    == {rq[x].buf : x \in ended}
    IN  /\ request' = [x \in Entry |-> IF x \in ended THEN NULL ELSE rq[x]]
        /\ queue' = left
        /\ do_hd' = (left # <<>> /\ rq[left[1]].cmd = "READ")
        /\ uptodate' = [b \in Block |-> IF b \in bufs THEN b \in ok ELSE uptodate[b]]
        /\ lock' = [b \in Block |-> lock[b] /\ b \notin bufs]
        /\ WakeUp(bufs \cup (IF ended = {} THEN {} ELSE {WaitForRequest}), wait, state)

-----------------------------------------------------------------------------
(***************************************************************************)
(* Tasks                                                                   *)
(***************************************************************************)

Leave(t) ==
    /\ pc' = [pc EXCEPT ![t] = "idle"]
    /\ call' = [call EXCEPT ![t] = NULL]
    /\ cpu' = NULL

\* The return from make_request() for c: bread() waits for the buffer.
Return(t, c) ==
    IF c.cmd = "READ"
    THEN /\ pc' = [pc EXCEPT ![t] = "wait_on_buffer"]
         /\ call' = [call EXCEPT ![t] = c]
         /\ cpu' = t
    ELSE Leave(t)

\* lock_buffer() from its test on, for the call c and with the heads w and
\* the states st; and its unlock_buffer() if there is nothing to do.
LockBuffer(t, c, w, st) ==
    LET done == IF c.cmd = "READ" THEN uptodate[c.buf] ELSE ~dirt[c.buf]
    IN  \/ /\ lock[c.buf]
           /\ SleepOn(t, c.buf, "lock_buffer", w, st)
           /\ call' = [call EXCEPT ![t] = c]
           /\ UNCHANGED lock
        \/ /\ ~lock[c.buf] /\ done
           /\ WakeUp({c.buf}, w, st)
           /\ Return(t, c)
           /\ Forget(t)
           /\ UNCHANGED lock
        \/ /\ ~lock[c.buf] /\ ~done
           /\ lock' = [lock EXCEPT ![c.buf] = TRUE]
           /\ pc' = [pc EXCEPT ![t] = "search"]
           /\ call' = [call EXCEPT ![t] = c]
           /\ cpu' = t
           /\ wait' = w /\ state' = st
           /\ Forget(t)

Enter(t, c) ==
    /\ Dispatched(t, "idle")
    /\ LockBuffer(t, c, wait, state)
    /\ UNCHANGED <<request, queue, do_hd, dirt, uptodate>>

\* bread() of a block whose data is not valid.
Bread(t, b) == ~uptodate[b] /\ Enter(t, [cmd |-> "READ", buf |-> b])

\* sync_dev(), when it has found the buffer dirty and unlocked.
Sync(t, b) == dirt[b] /\ ~lock[b] /\ Enter(t, [cmd |-> "WRITE", buf |-> b])

\* A sleeper in lock_buffer() goes on.
MutRelock(t) ==         \* `if (b_lock)' for `while (b_lock)'
    LET b == call[t].buf
    IN  /\ Dispatched(t, "lock_buffer")
        /\ lock' = [lock EXCEPT ![b] = TRUE]
        /\ pc' = [pc EXCEPT ![t] = "search"]
        /\ cpu' = t
        /\ wait' = HeadsPutBack(t, b) /\ state' = NextWoken(t)
        /\ Forget(t)
        /\ UNCHANGED <<request, queue, do_hd, dirt, uptodate, call>>
Relock(t) ==
    /\ Dispatched(t, "lock_buffer")
    /\ LockBuffer(t, call[t], HeadsPutBack(t, call[t].buf), NextWoken(t))
    /\ UNCHANGED <<request, queue, do_hd, dirt, uptodate>>

\* The free entries that make_request() looks at: writes have the lower two
\* thirds.  The search is from above.
FreeEntries(c) ==
    {e \in Entry : request[e] = NULL /\ (c = "WRITE" => e < (NR_REQUEST * 2) \div 3)}

\* A free entry is filled and add_request() queues it; on an idle disk the
\* request is started at once.
Search(t) ==
    LET free == FreeEntries(call[t].cmd)
        e    == CHOOSE x \in free : \A y \in free : y <= x
        r    == [cmd |-> call[t].cmd, buf |-> call[t].buf, errors |-> 0, left |-> 2]
        rq   == [request EXCEPT ![e] = r]
    IN  /\ cpu = t /\ pc[t] = "search"
        /\ \/ /\ free = {}
              /\ pc' = [pc EXCEPT ![t] = "full"]
              /\ UNCHANGED <<request, queue, do_hd, buffers, wait, state, call, cpu>>
           \/ /\ free # {} /\ queue = <<>>
              /\ dirt' = [dirt EXCEPT ![call[t].buf] = FALSE]
              /\ EndRequests(<<e>>, rq, NULL, FALSE)
              /\ Return(t, call[t])
           \/ /\ free # {} /\ queue # <<>>
              /\ dirt' = [dirt EXCEPT ![call[t].buf] = FALSE]
              /\ request' = rq
              /\ queue' = Inserted(queue, e, r)
              /\ Return(t, call[t])
              /\ UNCHANGED <<do_hd, lock, uptodate, wait, state>>
        /\ UNCHANGED tmp

\* sleep_on(&wait_for_request) with interrupts on, up to the new head, ...  (An
\* interrupt between reading the old head and setting the new one would wake the
\* old head, which this task wakes once more later; it is left out.)
Queue(t) ==
    /\ cpu = t /\ pc[t] = "full"
    /\ wait' = [wait EXCEPT ![WaitForRequest] = t]
    /\ tmp' = [tmp EXCEPT ![t] = wait[WaitForRequest]]
    /\ pc' = [pc EXCEPT ![t] = "doze"]
    /\ UNCHANGED <<request, queue, do_hd, buffers, state, call, cpu>>

\* ... and on to its schedule(), whatever has happened in between.
Doze(t) ==
    /\ cpu = t /\ pc[t] = "doze"
    /\ state' = [state EXCEPT ![t] = "UNINTERRUPTIBLE"]
    /\ pc' = [pc EXCEPT ![t] = "search"]
    /\ cpu' = NULL
    /\ UNCHANGED <<request, queue, do_hd, buffers, wait, tmp, call>>

\* The search is repeated after the sleep.
Repeat(t) ==
    /\ Dispatched(t, "search")
    /\ wait' = HeadsPutBack(t, WaitForRequest)
    /\ state' = NextWoken(t)
    /\ cpu' = t
    /\ Forget(t)
    /\ UNCHANGED <<request, queue, do_hd, buffers, pc, call>>

\* wait_on_buffer() of bread(), with the heads w and the states st.
WaitOnBuffer(t, w, st) ==
    /\ \/ /\ lock[call[t].buf]
          /\ SleepOn(t, call[t].buf, "wait_on_buffer", w, st)
          /\ UNCHANGED call
       \/ /\ ~lock[call[t].buf]
          /\ wait' = w /\ state' = st
          /\ Leave(t)
          /\ Forget(t)
    /\ UNCHANGED <<request, queue, do_hd, buffers>>

Wait(t) == /\ cpu = t /\ pc[t] = "wait_on_buffer"
           /\ WaitOnBuffer(t, wait, state)

WaitAgain(t) == /\ Dispatched(t, "wait_on_buffer")
                /\ WaitOnBuffer(t, HeadsPutBack(t, call[t].buf), NextWoken(t))

\* A user of the buffer changes its data.
Modify(b) ==
    /\ cpu = NULL /\ uptodate[b]
    /\ dirt' = [dirt EXCEPT ![b] = TRUE]
    /\ UNCHANGED <<request, queue, do_hd, lock, uptodate, wait, tasks>>

\* getblk() uses the buffer for another block, and one for this block again:
\* nobody has it, and it is clean and unlocked.
Reuse(b) ==
    /\ cpu = NULL /\ ~lock[b] /\ ~dirt[b]
    /\ \A t \in Task : pc[t] # "idle" => call[t].buf # b
    /\ uptodate' = [uptodate EXCEPT ![b] = FALSE]
    /\ UNCHANGED <<request, queue, do_hd, lock, dirt, wait, tasks>>

-----------------------------------------------------------------------------
(***************************************************************************)
(* read_intr(), the interrupt of the disk, with what win_result() says.    *)
(***************************************************************************)

TooMany(n) == n >= MAX_ERRORS

\* A sector has been read.
SectorRead ==
    LET e == queue[1]
    IN  /\ do_hd
        /\ \/ /\ request[e].left > 1
              /\ request' = [request EXCEPT ![e].errors = 0, ![e].left = @ - 1]
              /\ UNCHANGED <<queue, do_hd, lock, uptodate, wait, state>>
           \/ /\ request[e].left = 1
              /\ EndRequests(queue, request, e, TRUE)
        /\ UNCHANGED <<dirt, tmp, pc, call, cpu>>

\* bad_rw_inter(): the request is started again, or given up.
SectorFailed ==
    LET e  == queue[1]
        n  == request[e].errors + 1
    IN  /\ do_hd
        /\ \/ /\ TooMany(n)
              /\ EndRequests(queue, request, e, FALSE)
           \/ /\ ~TooMany(n)
              /\ EndRequests(queue, [request EXCEPT ![e].errors = n], NULL, FALSE)
        /\ UNCHANGED <<dirt, tmp, pc, call, cpu>>

-----------------------------------------------------------------------------
\* blk_dev_init(), hd_init() and buffer_init(), and no task in the kernel.
Init ==
    /\ request = [e \in Entry |-> NULL]
    /\ queue = <<>>
    /\ do_hd = FALSE
    /\ lock = [b \in Block |-> FALSE]
    /\ dirt = [b \in Block |-> FALSE]
    /\ uptodate = [b \in Block |-> FALSE]
    /\ wait = [q \in WaitQueues |-> NULL]
    /\ state = [t \in Task |-> "RUNNING"]
    /\ tmp = [t \in Task |-> NULL]
    /\ pc = [t \in Task |-> "idle"]
    /\ call = [t \in Task |-> NULL]
    /\ cpu = NULL

KernelStep(t) == Search(t) \/ Queue(t) \/ Doze(t) \/ Wait(t)
Awake(t) == Relock(t) \/ Repeat(t) \/ WaitAgain(t)

Next ==
    \/ \E t \in Task, b \in Block : Bread(t, b) \/ Sync(t, b)
    \/ \E t \in Task : KernelStep(t) \/ Awake(t)
    \/ \E b \in Changed : Modify(b)
    \/ \E b \in Block : Reuse(b)
    \/ SectorRead \/ SectorFailed

Spec == Init /\ [][Next]_vars
-----------------------------------------------------------------------------
\* Type correctness: a request never has MAX_ERRORS errors, nor no sector
\* left, while it is queued.
TypeOK ==
    /\ request \in [Entry -> {NULL} \cup
                       [cmd : {"READ", "WRITE"}, buf : Block,
                        errors : 0..MAX_ERRORS - 1, left : {1, 2}]]
    /\ queue \in Seq(Entry)
    /\ do_hd \in BOOLEAN
    /\ lock \in [Block -> BOOLEAN]
    /\ dirt \in [Block -> BOOLEAN]
    /\ uptodate \in [Block -> BOOLEAN]
    /\ wait \in [WaitQueues -> Task \cup {NULL}]
    /\ state \in [Task -> {"RUNNING", "UNINTERRUPTIBLE"}]
    /\ tmp \in [Task -> Task \cup {NULL}]
    /\ pc \in [Task -> Places]
    /\ call \in [Task -> {NULL} \cup [cmd : {"READ", "WRITE"}, buf : Block]]
    /\ cpu \in Task \cup {NULL}

\* The requests for the block b, and the tasks that have locked its buffer
\* and not yet made the request.
RequestsFor(b) == {e \in Entry : request[e] # NULL /\ request[e].buf = b}
Requesting(b) == {t \in Task : pc[t] \in {"search", "full", "doze"} /\ call[t].buf = b}

\* Every locked buffer has one request that will unlock it, or one task that
\* will make that request, and an unlocked one has neither: whatever sleeps
\* and interrupts come between lock_buffer() and end_request(), no block is
\* queued twice, and do_hd_request() never panics over an unlocked one.  (The
\* types are part of it: a queued request has a sector left and fewer than
\* MAX_ERRORS errors.)
LocksAccounted ==
    /\ TypeOK
    /\ \A b \in Block :
          Cardinality(RequestsFor(b)) + Cardinality(Requesting(b))
              = IF lock[b] THEN 1 ELSE 0

\* The entries in use are those in the queue, each once: no entry is lost
\* when CURRENT moves on, and the next pointers form no loop.
QueueMatchesTable ==
    /\ \A i, j \in 1..Len(queue) : queue[i] = queue[j] => i = j
    /\ {queue[i] : i \in 1..Len(queue)} = {e \in Entry : request[e] # NULL}

\* However requests are inserted, the queue is at most two ascending runs in
\* the elevator's order, IN_ORDER.  (That is not the order of the sectors alone:
\* reads sort before writes, so the arm itself may turn back more often.)
TwoSweeps ==
    \A i, j \in 1..Len(queue) - 1 :
        /\ ~InOrder(request[queue[i]], request[queue[i + 1]])
        /\ ~InOrder(request[queue[j]], request[queue[j + 1]])
        => i = j

(***************************************************************************)
(* Liveness.  The disk answers the commands that it is given, and a task   *)
(* that is running kernel code goes on.                                    *)
(***************************************************************************)

Fairness == /\ WF_vars(SectorRead \/ SectorFailed)
            /\ \A t \in Task : WF_vars(KernelStep(t)) /\ WF_vars(Awake(t))

FairSpec == Spec /\ Fairness

Writes == {e \in Entry : request[e] # NULL /\ request[e].cmd = "WRITE"}

\* ll_rw_blk.c:118-119 say that a task that finds no free entry sleeps to wait
\* for one and searches the table again.  (Not behind a write: those are never
\* done.)
SearchesAgain ==
    \A t \in Task : pc[t] = "search" /\ state[t] # "RUNNING"
                    ~> state[t] = "RUNNING" \/ Writes # {}
=============================================================================
