---------------------------- MODULE BufferCache ----------------------------
(***************************************************************************)
(* The buffer cache: fs/buffer.c, and free_block() of fs/bitmap.c as far as *)
(* it takes a block out of the cache.                                      *)
(*                                                                         *)
(* The kernel is not preemptive: cpu is the task that runs kernel code, and *)
(* no other task takes a step until it sleeps or returns; the disk ends    *)
(* requests between any two steps.  An action runs from one wait_on_buffer() *)
(* or sleep to the next.                                                   *)
(*                                                                         *)
(* A task that sleeps goes on at any later time, where the code looks again *)
(* at what it has waited for.  Whether it is woken at all is the subject of *)
(* WaitQueue; the table of requests, which may be full, of RequestQueue.   *)
(*                                                                         *)
(* There is one device.  find_buffer() walks the hash chain of the block,  *)
(* in which remove_from_queues() and insert_into_queues() keep the buffers *)
(* of its blocks; here it finds any buffer that has the block.             *)
(***************************************************************************)
EXTENDS Integers, FiniteSets

CONSTANTS
    Task,           \* the tasks that use blocks
    Block,          \* the blocks of the device
    Changed,        \* bound: those that are changed and freed
    NR_BUFFERS,     \* the number of buffers
    Value, Zero,    \* contents of a block, and what all blocks have at first
    NULL            \* no buffer, block or task

Buffer == 1..NR_BUFFERS

ASSUME CacheAssumption ==
    /\ NULL \notin Task /\ NULL \notin Block /\ NULL \notin Nat
    /\ NULL \notin {"use", "free"} \X Block
    /\ Changed \subseteq Block
    /\ NR_BUFFERS \in Nat \ {0, 1}
    /\ IsFiniteSet(Task)
    /\ Zero \in Value

VARIABLES
    free_list,      \* the buffers, in use or not, the one to take next first
    blocknr,        \* the block that a buffer has, or NULL
    b_count,        \* how many tasks use it
    b_dirt, b_uptodate,
    b_lock,         \* the request that has it locked, or "no"
    data,           \* the contents of a buffer
    disk,           \* the contents of the blocks on the disk
    pc, call,       \* of each task: its place, and the operation and block
    bh,             \* of each task: the buffer it has chosen or got, or NULL
    i,              \* of each task: the index of sync_dev()
    cpu             \* the task in the kernel, or NULL

buffers == <<free_list, blocknr, b_count, b_dirt, b_uptodate, b_lock, data>>
vars == <<buffers, disk, pc, call, bh, i, cpu>>

Places == {"idle", "getblk", "get_hash_table", "chosen", "ll_rw_block", "bread",
           "hold", "brelse", "sync_dev"}

-----------------------------------------------------------------------------
\* The task t is in the kernel at place, or is dispatched there.
At(t, place) == cpu \in {NULL, t} /\ pc[t] = place

Goto(t, place) == pc' = [pc EXCEPT ![t] = place] /\ cpu' = t

\* The task sleeps, to look again when it goes on.
Sleep == cpu' = NULL /\ UNCHANGED <<buffers, disk, pc, call, bh, i>>

Locked(x) == b_lock[x] # "no"

\* The task returns from the file system.
Return(t) ==
    /\ pc' = [pc EXCEPT ![t] = "idle"]
    /\ call' = [call EXCEPT ![t] = NULL]
    /\ bh' = [bh EXCEPT ![t] = NULL]
    /\ i' = [i EXCEPT ![t] = 0]
    /\ cpu' = NULL

\* Somebody calls bread(b), the last user of a file frees its block b
\* (truncate() from iput()), or sync_dev() is called.
Call(t, op, b) ==
    /\ cpu = NULL /\ pc[t] = "idle"
    /\ op = "free" => \A u \in Task : pc[u] # "idle" => call[u].block # b
    /\ op # "free" => \A u \in Task : pc[u] # "idle" => call[u] # [op |-> "free", block |-> b]
    /\ Goto(t, IF op = "sync" THEN "sync_dev" ELSE "getblk")
    /\ call' = [call EXCEPT ![t] = [op |-> op, block |-> b]]
    /\ UNCHANGED <<buffers, disk, bh, i>>

-----------------------------------------------------------------------------
(***************************************************************************)
(* getblk()                                                                *)
(***************************************************************************)

Cached(b) == {x \in Buffer : blocknr[x] = b}

Badness(x) == (IF b_dirt[x] THEN 2 ELSE 0) + (IF Locked(x) THEN 1 ELSE 0)

\* The unused buffer that the scan of the free list chooses: the first one of
\* the least badness.
Unused == {x \in Buffer : b_count[x] = 0}
Position(x) == CHOOSE n \in 1..NR_BUFFERS : free_list[n] = x
Chosen == CHOOSE x \in Unused : \A y \in Unused \ {x} :
              \/ Badness(x) < Badness(y)
              \/ Badness(x) = Badness(y) /\ Position(x) < Position(y)

\* get_hash_table() raises the count of the buffer it has found.
MutUse(x) == b_count        \* only the caller raises it, after the wait
Use(x) == [b_count EXCEPT ![x] = @ + 1]

\* From `repeat:' to the wait for the buffer found or chosen.
Getblk(t) ==
    LET b == call[t].block
    IN  /\ At(t, "getblk")
        /\ \/ \E x \in Cached(b) :
                 /\ b_count' = Use(x)
                 /\ bh' = [bh EXCEPT ![t] = x]
                 /\ Goto(t, "get_hash_table")
                 /\ UNCHANGED <<free_list, blocknr, b_dirt, b_uptodate, b_lock,
                                data, disk, call, i>>
           \/ /\ Cached(b) = {} /\ call[t].op = "free"
              /\ Return(t)
              /\ UNCHANGED <<buffers, disk>>
           \/ /\ Cached(b) = {} /\ call[t].op = "bread" /\ Unused = {}
              /\ Sleep
           \/ /\ Cached(b) = {} /\ call[t].op = "bread" /\ Unused # {}
              /\ bh' = [bh EXCEPT ![t] = Chosen]
              /\ Goto(t, "chosen")
              /\ UNCHANGED <<buffers, disk, call, i>>

\* bread() has got the buffer x: it is returned if its data is valid.
Got(t, x) ==
    IF b_uptodate[x]
    THEN pc' = [pc EXCEPT ![t] = "hold"] /\ cpu' = NULL
    ELSE Goto(t, "ll_rw_block")

\* wait_on_buffer() of get_hash_table(), and what follows in bread() or, where
\* the block leaves the cache, in free_block().
GetHashTable(t) ==
    LET x == bh[t]
    IN  /\ At(t, "get_hash_table")
        /\ \/ Locked(x) /\ Sleep
           \/ /\ ~Locked(x) /\ blocknr[x] = call[t].block /\ call[t].op = "bread"
              /\ Got(t, x)
              /\ UNCHANGED <<buffers, disk, call, bh, i>>
           \/ /\ ~Locked(x) /\ blocknr[x] = call[t].block /\ call[t].op = "free"
              /\ b_dirt' = [b_dirt EXCEPT ![x] = FALSE]
              /\ b_uptodate' = [b_uptodate EXCEPT ![x] = FALSE]
              /\ Goto(t, "brelse")
              /\ UNCHANGED <<free_list, blocknr, b_count, b_lock, data, disk, call, bh, i>>
           \/ /\ ~Locked(x) /\ blocknr[x] # call[t].block
              /\ b_count' = [b_count EXCEPT ![x] = @ - 1]
              /\ Goto(t, "getblk")
              /\ UNCHANGED <<free_list, blocknr, b_dirt, b_uptodate, b_lock, data, disk,
                             call, bh, i>>

\* Another task has put the block into the cache meanwhile.
MutOvertaken(b) == FALSE        \* the check after the sleep is left out
Overtaken(b) == Cached(b) # {}

\* remove_from_queues() and insert_into_queues(): the buffer x becomes the last
\* one of the free list.
ToBack(x) ==
    [n \in 1..NR_BUFFERS |-> IF n = NR_BUFFERS THEN x
                             ELSE free_list[IF n < Position(x) THEN n ELSE n + 1]]

\* The buffer that has been chosen is used again for the block of the call.
Take(t, x) ==
    /\ b_count' = [b_count EXCEPT ![x] = 1]
    /\ b_dirt' = [b_dirt EXCEPT ![x] = FALSE]
    /\ b_uptodate' = [b_uptodate EXCEPT ![x] = FALSE]
    /\ blocknr' = [blocknr EXCEPT ![x] = call[t].block]
    /\ free_list' = ToBack(x)
    /\ Goto(t, "ll_rw_block")
    /\ UNCHANGED <<b_lock, data, disk, call, bh, i>>

MutTaken(x) == FALSE            \* the count is not looked at after the sleep
Taken(x) == b_count[x] > 0

MutHasToSync(x) == FALSE        \* what has been changed is not written
HasToSync(x) == b_dirt[x]

\* wait_on_buffer() for the buffer that has been chosen, first and again after
\* each sync_dev(), and the checks that follow.
ChosenBuffer(t) ==
    LET x == bh[t]
    IN  /\ At(t, "chosen")
        /\ \/ Locked(x) /\ Sleep
           \/ /\ ~Locked(x)
              /\ Taken(x) \/ (~HasToSync(x) /\ Overtaken(call[t].block))
              /\ bh' = [bh EXCEPT ![t] = NULL]
              /\ Goto(t, "getblk")
              /\ UNCHANGED <<buffers, disk, call, i>>
           \/ /\ ~Locked(x) /\ ~Taken(x) /\ HasToSync(x)
              /\ Goto(t, "sync_dev")
              /\ UNCHANGED <<buffers, disk, call, bh, i>>
           \/ /\ ~Locked(x) /\ ~Taken(x) /\ ~HasToSync(x)
              /\ ~Overtaken(call[t].block)
              /\ Take(t, x)

-----------------------------------------------------------------------------
(***************************************************************************)
(* sync_dev()                                                              *)
(***************************************************************************)

Last == 2 * NR_BUFFERS - 1

\* One buffer of one of the two loops over all of them.  sync_inodes(), which
\* comes in between, calls bread() and changes blocks: the task gives up the
\* processor there to others that do.
SyncDev(t) ==
    LET x    == (i[t] % NR_BUFFERS) + 1
        next == /\ i' = [i EXCEPT ![t] = IF @ = Last THEN 0 ELSE @ + 1]
                /\ IF i[t] = Last /\ call[t].op = "sync"
                   THEN /\ pc' = [pc EXCEPT ![t] = "idle"]
                        /\ call' = [call EXCEPT ![t] = NULL]
                        /\ cpu' = NULL
                   ELSE /\ pc' = [pc EXCEPT ![t] = IF i[t] = Last THEN "chosen" ELSE @]
                        /\ cpu' = IF i[t] = NR_BUFFERS - 1 THEN NULL ELSE t
                        /\ UNCHANGED call
                /\ UNCHANGED bh
    IN  /\ At(t, "sync_dev")
        /\ \/ blocknr[x] # NULL /\ Locked(x) /\ Sleep
           \/ /\ blocknr[x] # NULL /\ ~Locked(x) /\ b_dirt[x]
              /\ b_lock' = [b_lock EXCEPT ![x] = "WRITE"]
              /\ b_dirt' = [b_dirt EXCEPT ![x] = FALSE]
              /\ next
              /\ UNCHANGED <<free_list, blocknr, b_count, b_uptodate, data, disk>>
           \/ /\ blocknr[x] = NULL \/ (~Locked(x) /\ ~b_dirt[x])
              /\ next
              /\ UNCHANGED <<buffers, disk>>

-----------------------------------------------------------------------------
(***************************************************************************)
(* bread() and brelse()                                                    *)
(***************************************************************************)

\* lock_buffer() of ll_rw_block(READ): the block is requested, unless it has
\* been read meanwhile.
LlRwBlock(t) ==
    LET x == bh[t]
    IN  /\ At(t, "ll_rw_block")
        /\ \/ Locked(x) /\ Sleep
           \/ /\ ~Locked(x)
              /\ b_lock' = [b_lock EXCEPT ![x] = IF b_uptodate[x] THEN "no" ELSE "READ"]
              /\ b_dirt' = [b_dirt EXCEPT ![x] = b_uptodate[x] /\ @]
              /\ Goto(t, "bread")
              /\ UNCHANGED <<free_list, blocknr, b_count, b_uptodate, data, disk, call, bh, i>>

\* wait_on_buffer() of bread(); if the data is not valid then, the buffer is
\* given back.
Bread(t) ==
    LET x == bh[t]
    IN  /\ At(t, "bread")
        /\ \/ Locked(x) /\ Sleep
           \/ /\ ~Locked(x) /\ b_uptodate[x]
              /\ pc' = [pc EXCEPT ![t] = "hold"] /\ cpu' = NULL
              /\ UNCHANGED <<buffers, disk, call, bh, i>>
           \/ /\ ~Locked(x) /\ ~b_uptodate[x]
              /\ Goto(t, "brelse")
              /\ UNCHANGED <<buffers, disk, call, bh, i>>

\* The task changes the block, as write_inode(), bmap() and open_namei() do.
Change(t, v) ==
    /\ cpu = NULL /\ pc[t] = "hold" /\ call[t].block \in Changed
    /\ data' = [data EXCEPT ![bh[t]] = v]
    /\ b_dirt' = [b_dirt EXCEPT ![bh[t]] = TRUE]
    /\ UNCHANGED <<free_list, blocknr, b_count, b_uptodate, b_lock, disk,
                   pc, call, bh, i, cpu>>

\* The task has done with the block and calls brelse().
Finish(t) ==
    /\ cpu = NULL /\ pc[t] = "hold"
    /\ Goto(t, "brelse")
    /\ UNCHANGED <<buffers, disk, call, bh, i>>

Brelse(t) ==
    LET x == bh[t]
    IN  /\ At(t, "brelse")
        /\ \/ Locked(x) /\ Sleep
           \/ /\ ~Locked(x)
              /\ b_count' = [b_count EXCEPT ![x] = @ - 1]
              /\ Return(t)
              /\ UNCHANGED <<free_list, blocknr, b_dirt, b_uptodate, b_lock, data, disk>>

-----------------------------------------------------------------------------
(***************************************************************************)
(* end_request().  hd.c does not start writes yet ("TODO"); here they may  *)
(* end, so that the code behind a write is reached, or never end.          *)
(***************************************************************************)

EndRead(x, good) ==
    /\ b_lock[x] = "READ"
    /\ b_lock' = [b_lock EXCEPT ![x] = "no"]
    /\ b_uptodate' = [b_uptodate EXCEPT ![x] = good]
    /\ data' = [data EXCEPT ![x] = IF good THEN disk[blocknr[x]] ELSE @]
    /\ UNCHANGED <<free_list, blocknr, b_count, b_dirt, disk, pc, call, bh, i, cpu>>

EndWrite(x) ==
    /\ b_lock[x] = "WRITE"
    /\ b_lock' = [b_lock EXCEPT ![x] = "no"]
    /\ b_uptodate' = [b_uptodate EXCEPT ![x] = TRUE]
    /\ disk' = [disk EXCEPT ![blocknr[x]] = data[x]]
    /\ UNCHANGED <<free_list, blocknr, b_count, b_dirt, data, pc, call, bh, i, cpu>>

-----------------------------------------------------------------------------
\* buffer_init()
Init ==
    /\ free_list = [n \in 1..NR_BUFFERS |-> n]
    /\ blocknr = [x \in Buffer |-> NULL]
    /\ b_count = [x \in Buffer |-> 0]
    /\ b_dirt = [x \in Buffer |-> FALSE]
    /\ b_uptodate = [x \in Buffer |-> FALSE]
    /\ b_lock = [x \in Buffer |-> "no"]
    /\ data = [x \in Buffer |-> Zero]
    /\ disk = [b \in Block |-> Zero]
    /\ pc = [t \in Task |-> "idle"]
    /\ call = [t \in Task |-> NULL]
    /\ bh = [t \in Task |-> NULL]
    /\ i = [t \in Task |-> 0]
    /\ cpu = NULL

Step(t) ==
    \/ \E b \in Block : Call(t, "bread", b)
    \/ \E b \in Changed : Call(t, "free", b)
    \/ Call(t, "sync", NULL)
    \/ Getblk(t) \/ GetHashTable(t) \/ ChosenBuffer(t) \/ SyncDev(t)
    \/ LlRwBlock(t) \/ Bread(t) \/ Finish(t) \/ Brelse(t)
    \/ \E v \in Value : Change(t, v)

Next ==
    \/ \E t \in Task : Step(t)
    \/ \E x \in Buffer : EndWrite(x) \/ \E good \in BOOLEAN : EndRead(x, good)

Spec == Init /\ [][Next]_vars

-----------------------------------------------------------------------------
\* Type correctness; no buffer is released more often than it was taken.
TypeOK ==
    /\ free_list \in [1..NR_BUFFERS -> Buffer]
    /\ blocknr \in [Buffer -> Block \cup {NULL}]
    /\ b_count \in [Buffer -> Nat]
    /\ b_dirt \in [Buffer -> BOOLEAN]
    /\ b_uptodate \in [Buffer -> BOOLEAN]
    /\ b_lock \in [Buffer -> {"no", "READ", "WRITE"}]
    /\ data \in [Buffer -> Value]
    /\ disk \in [Block -> Value]
    /\ pc \in [Task -> Places]
    /\ call \in [Task -> {NULL} \cup
                   [op : {"bread", "free", "sync"}, block : Block \cup {NULL}]]
    /\ bh \in [Task -> Buffer \cup {NULL}]
    /\ i \in [Task -> 0..2 * NR_BUFFERS - 1]
    /\ cpu \in Task \cup {NULL}

\* No block is ever in two buffers, whatever tasks have slept between the
\* search for it and the taking of a buffer (buffer.c:240).
OneBufferPerBlock ==
    \A x, y \in Buffer : blocknr[x] # NULL /\ blocknr[x] = blocknr[y] => x = y

\* The count of a buffer is the number of tasks that have found or taken it
\* and not yet released it: brelse() never panics, no buffer is lost to the
\* cache, and none that somebody is about to get is given away.  (The types
\* are part of it.)
Users(x) == {t \in Task : bh[t] = x /\ pc[t] \notin {"chosen", "sync_dev"}}
CountsAccounted ==
    /\ TypeOK
    /\ \A x \in Buffer : b_count[x] = Cardinality(Users(x))

\* A task that has got its block by bread() has that block and valid data,
\* until it calls brelse(), whatever others read, fail to read, sync and free.
HoldersHaveData ==
    \A t \in Task : pc[t] = "hold" =>
        blocknr[bh[t]] = call[t].block /\ b_uptodate[bh[t]]

Valid(b) == {x \in Cached(b) : b_uptodate[x]}

\* What is found in the block b, and what a task does with a block.
MemAt(b) == IF Valid(b) = {} THEN disk[b] ELSE data[CHOOSE x \in Valid(b) : TRUE]
RoleOf(t) == IF pc[t] = "hold" THEN <<"use", call[t].block>>
             ELSE IF pc[t] # "idle" /\ call[t].op = "free" THEN <<"free", call[t].block>>
             ELSE NULL

Mem == [b \in Block |-> MemAt(b)]
Role == [t \in Task |-> RoleOf(t)]
Store == INSTANCE BlockStore WITH None <- NULL, mem <- Mem, role <- Role

\* What is written to a block is found there by all later readers, though its
\* buffer may be written back, taken for another block and read again.
ImplementsBlockStore == Store!StoreSpec
=============================================================================
