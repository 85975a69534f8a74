----------------------------- MODULE InodeTable -----------------------------
(***************************************************************************)
(* The inode table of fs/inode.c: iget(), iput(), read_inode(),            *)
(* write_inode() and sync_inodes().                                        *)
(*                                                                         *)
(* The kernel is not preemptive: cpu is the task that runs kernel code, and *)
(* no other takes a step until it sleeps or returns.  Tasks sleep for the  *)
(* lock of an inode and, with an inode locked, in bread() and brelse().  A *)
(* sleeper goes on at any later time and looks again at what it waits for, *)
(* which is the subject of WaitQueue; the blocks that hold the inodes keep *)
(* what is written to them, which is that of BufferCache.                  *)
(*                                                                         *)
(* There is one device, so an inode is known by its number; number 0 is an *)
(* inode without a device.  The inodes are files and directories that have *)
(* links: nothing in the kernel makes an inode a pipe, mounts a device on  *)
(* one or takes its last link, so those paths of iget() and iput() are not *)
(* here, nor is sync_dev() for the inode of a disk.                        *)
(***************************************************************************)
EXTENDS Integers, FiniteSets

CONSTANTS
    Task,           \* the tasks that use files
    Num, ROOT_INO,  \* the inode numbers, and that of the root
    Value, Zero,    \* the contents of an inode, and what all have at first
    NR_INODE,       \* the size of the table
    NULL            \* no task or inode

Inode == 0..NR_INODE - 1

Places == {"user", "find", "iput", "write", "written", "iget", "scan", "wait",
           "read", "got", "failed", "sync", "deadlock"}

ASSUME InodeAssumption ==
    /\ IsFiniteSet(Task) /\ NULL \notin Task
    /\ NULL \notin Nat /\ NULL \notin Places
    /\ Num \subseteq Nat \ {0} /\ ROOT_INO \in Num
    /\ Zero \in Value
    /\ NR_INODE \in Nat \ {0, 1}

VARIABLES
    i_num, i_count, i_dirt, i_lock,     \* the inodes
    data,           \* the contents of an inode
    last_inode,     \* where get_empty_inode() goes on
    disk,           \* the contents in the blocks of the device
    pc, goal,       \* of each task: its place, and the place after iput()
    ino, num,       \* the inode it works on, the number it looks for
    empty,          \* the free inode of its iget(), or NULL
    idx,            \* the index of its sync_inodes()
    cpu,            \* the task in the kernel, or NULL
    panicked

table == <<i_num, i_count, i_dirt, i_lock, data, last_inode, disk>>
locals == <<goal, ino, num, empty, idx>>
inodeVars == <<table, pc, locals, cpu, panicked>>

-----------------------------------------------------------------------------
\* The task t is in the kernel at place, or is dispatched there.
At(t, place) == cpu \in {NULL, t} /\ pc[t] = place /\ ~panicked

\* The task goes on at place: without sleeping, or after a sleep.
Goto(t, place) == pc' = [pc EXCEPT ![t] = place] /\ cpu' = t
SleepTo(t, place) == pc' = [pc EXCEPT ![t] = place] /\ cpu' = NULL

\* The task sleeps for a lock, to look again when it goes on.
Sleep == cpu' = NULL /\ UNCHANGED <<table, pc, locals, panicked>>

Return(t) ==
    /\ SleepTo(t, "user")
    /\ goal' = [goal EXCEPT ![t] = NULL]
    /\ ino' = [ino EXCEPT ![t] = NULL]
    /\ num' = [num EXCEPT ![t] = 0]
    /\ empty' = [empty EXCEPT ![t] = NULL]
    /\ idx' = [idx EXCEPT ![t] = 0]

Lock(x) == i_lock' = [i_lock EXCEPT ![x] = TRUE]
MutUnlock(x) == UNCHANGED i_lock    \* unlock_inode() is left out
Unlock(x) == i_lock' = [i_lock EXCEPT ![x] = FALSE]
Raise(x) == i_count' = [i_count EXCEPT ![x] = @ + 1]

Panic == panicked' = TRUE /\ UNCHANGED <<table, pc, locals, cpu>>

-----------------------------------------------------------------------------
(***************************************************************************)
(* iput()                                                                  *)
(***************************************************************************)
MutLastChanged(x) == FALSE      \* a changed inode is not written back
LastChanged(x) == i_count[x] = 1 /\ i_dirt[x]

\* wait_on_inode(), and the tests from `repeat:' on.  The panic on a count that
\* is 0 already is left out: nobody puts back an inode that he has not counted
\* (InodeCountsRight), as long as `sane' is TRUE.
Iput(t) ==
    LET x == ino[t]
    IN  /\ At(t, "iput")
        /\ \/ i_lock[x] /\ Sleep
           \/ /\ ~i_lock[x] /\ LastChanged(x)
              /\ Lock(x)
              /\ SleepTo(t, "write")
              /\ UNCHANGED <<i_num, i_count, i_dirt, data, last_inode, disk, locals, panicked>>
           \/ /\ ~i_lock[x] /\ ~LastChanged(x)
              /\ i_count' = [i_count EXCEPT ![x] = @ - 1]
              /\ ino' = [ino EXCEPT ![t] = NULL]
              /\ goal' = [goal EXCEPT ![t] = NULL]
              /\ IF goal[t] = "user" THEN SleepTo(t, "user") ELSE Goto(t, goal[t])
              /\ UNCHANGED <<i_num, i_dirt, i_lock, data, last_inode, disk, num, empty,
                             idx, panicked>>

\* write_inode(), when bread() returns with the block; the inode is locked.
WriteInode(t) ==
    LET x == ino[t]
    IN  /\ At(t, "write")
        /\ disk' = [disk EXCEPT ![i_num[x]] = data[x]]
        /\ i_dirt' = [i_dirt EXCEPT ![x] = FALSE]
        /\ SleepTo(t, "written")
        /\ UNCHANGED <<i_num, i_count, i_lock, data, last_inode, locals, panicked>>

\* The rest of it after brelse(), which may sleep: back to iput(), which looks
\* at everything again, or to the next inode of sync_inodes().
Written(t) ==
    /\ At(t, "written")
    /\ Unlock(ino[t])
    /\ IF goal[t] = "sync"
       THEN Goto(t, "sync") /\ goal' = [goal EXCEPT ![t] = NULL]
                            /\ ino' = [ino EXCEPT ![t] = NULL]
       ELSE Goto(t, "iput") /\ UNCHANGED <<goal, ino>>
    /\ UNCHANGED <<i_num, i_count, i_dirt, data, last_inode, disk, num, empty, idx, panicked>>

-----------------------------------------------------------------------------
(***************************************************************************)
(* iget()                                                                  *)
(***************************************************************************)

\* get_empty_inode(): the next free inode behind the last one, emptied.  It
\* looks for one that is neither changed nor locked, and free ones never are
\* (FreeInodesClean, as long as `sane' is TRUE), so the wait and the write-back
\* that follow are left out, and it does not sleep.  If there is none it reads the
\* count of inode 0, finds 0 in the page directory there, and panics.
Free == {x \in Inode : i_count[x] = 0}
Distance(x) == (x - last_inode - 1) % NR_INODE
NextFree == CHOOSE x \in Free : \A y \in Free : Distance(x) <= Distance(y)

GetEmptyInode(t) ==
    /\ At(t, "iget")
    /\ \/ Free = {} /\ Panic
       \/ /\ Free # {}
          /\ last_inode' = NextFree
          /\ Raise(NextFree)
          /\ i_num' = [i_num EXCEPT ![NextFree] = 0]
          /\ data' = [data EXCEPT ![NextFree] = Zero]
          /\ empty' = [empty EXCEPT ![t] = NextFree]
          /\ Goto(t, "scan")
          /\ UNCHANGED <<i_dirt, i_lock, disk, goal, ino, num, idx, panicked>>

\* The inode x is the one wanted; the free one is put back.
Found(t, x) ==
    /\ i_count' = [i_count EXCEPT ![x] = @ + 1, ![empty[t]] = @ - 1]
    /\ ino' = [ino EXCEPT ![t] = x]
    /\ num' = [num EXCEPT ![t] = 0]
    /\ empty' = [empty EXCEPT ![t] = NULL]
    /\ Goto(t, "got")
    /\ UNCHANGED <<i_num, i_dirt, i_lock, data, last_inode, disk, goal, idx, panicked>>

\* The scan of the table.  If the inode is not there, the free one gets the
\* number and is locked by read_inode(), before any sleep.
MutHaving(n) == {x \in Inode : i_num[x] = n /\ i_count[x] > 0}     \* free ones are passed over
Having(n) == {x \in Inode : i_num[x] = n}

Scan(t) ==
    /\ At(t, "scan")
    /\ \/ \E x \in Having(num[t]) :
             /\ ~i_lock[x]
             /\ Found(t, x)
       \/ \E x \in Having(num[t]) :
             /\ i_lock[x]
             /\ ino' = [ino EXCEPT ![t] = x]
             /\ SleepTo(t, "wait")
             /\ UNCHANGED <<table, goal, num, empty, idx, panicked>>
       \/ /\ Having(num[t]) = {}
          /\ i_num' = [i_num EXCEPT ![empty[t]] = num[t]]
          /\ Lock(empty[t])
          /\ ino' = [ino EXCEPT ![t] = empty[t]]
          /\ empty' = [empty EXCEPT ![t] = NULL]
          /\ num' = [num EXCEPT ![t] = 0]
          /\ SleepTo(t, "read")
          /\ UNCHANGED <<i_count, i_dirt, data, last_inode, disk, goal, idx, panicked>>

\* wait_on_inode() of iget(), and the look at what the inode is now.
MutStill(x, n) == TRUE          \* the inode is not looked at again
Still(x, n) == i_num[x] = n

WaitOnInode(t) ==
    LET x == ino[t]
    IN  /\ At(t, "wait")
        /\ \/ i_lock[x] /\ Sleep
           \/ ~i_lock[x] /\ Still(x, num[t]) /\ Found(t, x)
           \/ /\ ~i_lock[x] /\ ~Still(x, num[t])
              /\ ino' = [ino EXCEPT ![t] = NULL]
              /\ Goto(t, "scan")
              /\ UNCHANGED <<table, goal, num, empty, idx, panicked>>

\* read_inode(), when bread() returns: it has read the block, or failed.  The
\* lock is kept through brelse(), which may sleep once more.
ReadInode(t) ==
    LET x == ino[t]
    IN  /\ At(t, "read")
        /\ \/ /\ data' = [data EXCEPT ![x] = disk[i_num[x]]]
              /\ Unlock(x)
              /\ Goto(t, "got")
              /\ UNCHANGED <<i_num, i_count, i_dirt, last_inode, disk, locals, panicked>>
           \/ Panic

-----------------------------------------------------------------------------
(***************************************************************************)
(* sync_inodes(), called by sync_dev() when the buffer cache has only      *)
(* changed buffers to give away: here in a call that reads a file.  Where a *)
(* search reads a directory it does the same to the table.                 *)
(***************************************************************************)
SyncInodes(t) ==
    LET x == idx[t]
    IN  /\ At(t, "sync")
        /\ \/ /\ x = NR_INODE
              /\ Return(t)
              /\ UNCHANGED <<table, panicked>>
           \/ x # NR_INODE /\ i_lock[x] /\ Sleep
           \/ /\ x # NR_INODE /\ ~i_lock[x] /\ i_dirt[x]
              /\ Lock(x)
              /\ idx' = [idx EXCEPT ![t] = x + 1]
              /\ ino' = [ino EXCEPT ![t] = x]
              /\ goal' = [goal EXCEPT ![t] = "sync"]
              /\ SleepTo(t, "write")
              /\ UNCHANGED <<i_num, i_count, i_dirt, data, last_inode, disk, num, empty, panicked>>
           \/ /\ x # NR_INODE /\ ~i_lock[x] /\ ~i_dirt[x]
              /\ idx' = [idx EXCEPT ![t] = x + 1]
              /\ Goto(t, "sync")
              /\ UNCHANGED <<table, goal, ino, num, empty, panicked>>

Sync(t) ==
    /\ cpu = NULL /\ At(t, "user")
    /\ Goto(t, "sync")
    /\ UNCHANGED <<table, locals, panicked>>

\* When that happens to the bread() of read_inode() or write_inode(), the task
\* waits for the inode that it has locked itself.
SyncUnderLock(t) ==
    /\ At(t, "read") \/ At(t, "write")
    /\ SleepTo(t, "deadlock")
    /\ UNCHANGED <<table, locals, panicked>>

InodeStep(t) ==
    \/ Iput(t) \/ WriteInode(t) \/ Written(t)
    \/ GetEmptyInode(t) \/ Scan(t) \/ WaitOnInode(t) \/ ReadInode(t)
    \/ SyncInodes(t)

\* After mount_root() of the task first: the root has been read into the first
\* inode that get_empty_inode() gave; the super block refers to it twice, the
\* task twice.
RootInode == 1

InodeInit ==
    /\ i_num = [x \in Inode |-> IF x = RootInode THEN ROOT_INO ELSE 0]
    /\ i_count = [x \in Inode |-> IF x = RootInode THEN 4 ELSE 0]
    /\ i_dirt = [x \in Inode |-> FALSE]
    /\ i_lock = [x \in Inode |-> FALSE]
    /\ data = [x \in Inode |-> Zero]
    /\ last_inode = RootInode
    /\ disk = [n \in Num |-> Zero]
    /\ pc = [t \in Task |-> "user"]
    /\ goal = [t \in Task |-> NULL]
    /\ ino = [t \in Task |-> NULL]
    /\ num = [t \in Task |-> 0]
    /\ empty = [t \in Task |-> NULL]
    /\ idx = [t \in Task |-> 0]
    /\ cpu = NULL
    /\ panicked = FALSE
=============================================================================
