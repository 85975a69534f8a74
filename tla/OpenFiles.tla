----------------------------- MODULE OpenFiles -----------------------------
(***************************************************************************)
(* Open files over the inode table: open() with the search of its path     *)
(* (fs/open.c, fs/namei.c), close(), dup() (fs/fcntl.c), and what fork()   *)
(* does with files.                                                        *)
(*                                                                         *)
(* A path is what the search meets: a directory after the other, whose     *)
(* entries are any inodes, up to an end with a slash or a plain name.      *)
(* O_CREAT is not used: new_inode() and add_entry() are not finished.      *)
(***************************************************************************)
EXTENDS InodeTable

CONSTANTS
    NR_OPEN, NR_FILE,   \* the descriptors of a task, the size of file_table[]
    first,              \* the task that mounts the root
    Changed             \* bound: the inodes that are changed

Fd == 0..NR_OPEN - 1
File == 0..NR_FILE - 1

ASSUME FilesAssumption ==
    /\ NR_OPEN \in Nat \ {0} /\ NR_FILE \in Nat \ {0}
    /\ first \in Task
    /\ Changed \subseteq Num

VARIABLES
    filp,               \* filp[t][d]: the file of the descriptor d of t, or NULL
    f_count, f_inode,   \* the files; the inode is not kept when nobody has the file open
    fd,                 \* fd[t]: the descriptor that t is opening, or NULL
    live,               \* the tasks that have been created
    sane                \* FALSE once open() has used an inode it was not given
                        \* (a history variable)

fileVars == <<filp, f_count, f_inode, fd, live, sane>>
vars == <<inodeVars, fileVars>>

-----------------------------------------------------------------------------
FreeFds(t) == {d \in Fd : filp[t][d] = NULL}
FreeFiles == {f \in File : f_count[f] = 0}
Least(S) == CHOOSE n \in S : \A m \in S : n <= m

User(t) == cpu = NULL /\ At(t, "user") /\ t \in live

(***************************************************************************)
(* open()                                                                  *)
(***************************************************************************)

\* The descriptor and the file are taken first.  A path of slashes only ends
\* in the root directory; else the search for its first name begins there, or
\* in the working directory, which nothing changes.
Open(t) ==
    LET d == Least(FreeFds(t))
        f == Least(FreeFiles)
    IN  /\ User(t)
        /\ FreeFds(t) # {} /\ FreeFiles # {}
        /\ filp' = [filp EXCEPT ![t][d] = f]
        /\ f_count' = [f_count EXCEPT ![f] = @ + 1]
        /\ Raise(RootInode)
        /\ \/ /\ f_inode' = [f_inode EXCEPT ![f] = RootInode]
              /\ UNCHANGED <<pc, ino, fd, cpu>>
           \/ /\ ino' = [ino EXCEPT ![t] = RootInode]
              /\ fd' = [fd EXCEPT ![t] = d]
              /\ SleepTo(t, "find")
              /\ UNCHANGED f_inode
        /\ UNCHANGED <<i_num, i_dirt, i_lock, data, last_inode, disk, goal, num, empty,
                       idx, panicked, live, sane>>

\* find_entry() has read the directory's blocks: the entry is there, with any
\* inode, or not, or O_EXCL forbids to open it.  The directory is put back.
FindEntry(t) ==
    /\ At(t, "find")
    /\ \/ goal' = [goal EXCEPT ![t] = "failed"] /\ UNCHANGED num
       \/ /\ goal' = [goal EXCEPT ![t] = "iget"]
          /\ \E n \in Num : num' = [num EXCEPT ![t] = n]
    /\ Goto(t, "iput")
    /\ UNCHANGED <<table, ino, empty, idx, panicked, fileVars>>

\* iget() has returned an inode.
\*   It is refused: no directory, no permission.
\*   It is a directory in which the next name is searched.
\*   It is a directory, and the path ends with a slash.
\*   The path ends with its name: open_namei() returns without the inode
\*   (namei.c:344) and sys_open() takes what is on its stack: any pointer, of
\*   which the model has those to inodes of the table.
Got(t) ==
    LET f == filp[t][fd[t]]
    IN  /\ At(t, "got")
        /\ \/ /\ goal' = [goal EXCEPT ![t] = "failed"]
              /\ Goto(t, "iput")
              /\ UNCHANGED <<ino, num, empty, idx, f_count, f_inode, fd, sane>>
           \/ /\ SleepTo(t, "find")
              /\ UNCHANGED <<goal, ino, num, empty, idx, f_count, f_inode, fd, sane>>
           \/ /\ \/ f_inode' = [f_inode EXCEPT ![f] = ino[t]] /\ UNCHANGED sane
                 \/ /\ \E x \in Inode : f_inode' = [f_inode EXCEPT ![f] = x]
                    /\ sane' = FALSE
              /\ f_count' = [f_count EXCEPT ![f] = 1]
              /\ fd' = [fd EXCEPT ![t] = NULL]
              /\ Return(t)
        /\ UNCHANGED <<table, panicked, filp, live>>

\* open() gives back the descriptor and the file.
MutFailed(t) ==                 \* the file is not given back
    /\ At(t, "failed")
    /\ filp' = [filp EXCEPT ![t][fd[t]] = NULL]
    /\ fd' = [fd EXCEPT ![t] = NULL]
    /\ Return(t)
    /\ UNCHANGED <<table, panicked, f_count, f_inode, live, sane>>
Failed(t) ==
    /\ At(t, "failed")
    /\ filp' = [filp EXCEPT ![t][fd[t]] = NULL]
    /\ f_count' = [f_count EXCEPT ![filp[t][fd[t]]] = 0]
    /\ fd' = [fd EXCEPT ![t] = NULL]
    /\ Return(t)
    /\ UNCHANGED <<table, panicked, f_inode, live, sane>>

-----------------------------------------------------------------------------
(***************************************************************************)
(* close(), dup() and fork().  do_exit() closes nothing yet ("TODO"): a task *)
(* that has exited is one that makes no more calls.                        *)
(***************************************************************************)
Close(t, d) ==
    LET f == filp[t][d]
    IN  /\ User(t) /\ f # NULL
        /\ filp' = [filp EXCEPT ![t][d] = NULL]
        /\ f_count' = [f_count EXCEPT ![f] = @ - 1]
        /\ IF f_count[f] = 1
           THEN /\ f_inode' = [f_inode EXCEPT ![f] = NULL]
                /\ ino' = [ino EXCEPT ![t] = f_inode[f]]
                /\ goal' = [goal EXCEPT ![t] = "user"]
                /\ Goto(t, "iput")
           ELSE UNCHANGED <<f_inode, ino, goal, pc, cpu>>
        /\ UNCHANGED <<table, num, empty, idx, panicked, fd, live, sane>>

MutDup(t, d) ==                 \* the file is not counted again
    /\ User(t)
    /\ filp[t][d] # NULL /\ FreeFds(t) # {}
    /\ filp' = [filp EXCEPT ![t][Least(FreeFds(t))] = filp[t][d]]
    /\ UNCHANGED <<inodeVars, f_count, f_inode, fd, live, sane>>
Dup(t, d) ==
    /\ User(t)
    /\ filp[t][d] # NULL /\ FreeFds(t) # {}
    /\ filp' = [filp EXCEPT ![t][Least(FreeFds(t))] = filp[t][d]]
    /\ f_count' = [f_count EXCEPT ![filp[t][d]] = @ + 1]
    /\ UNCHANGED <<inodeVars, f_inode, fd, live, sane>>

\* copy_process(): the child shares the files, and has the root and the working
\* directory, which are the root inode.
Refs(t, f) == Cardinality({d \in Fd : filp[t][d] = f})

MutForked(t) == [i_count EXCEPT ![RootInode] = @ + 1]   \* the working directory is forgotten
Forked(t) == [i_count EXCEPT ![RootInode] = @ + 2]

Fork(t, u) ==
    /\ User(t) /\ u \notin live
    /\ live' = live \cup {u}
    /\ filp' = [filp EXCEPT ![u] = filp[t]]
    /\ f_count' = [f \in File |-> f_count[f] + Refs(t, f)]
    /\ i_count' = Forked(t)
    /\ UNCHANGED <<i_num, i_dirt, i_lock, data, last_inode, disk, pc, locals, cpu,
                   panicked, f_inode, fd, sane>>

\* The contents of an open file's inode change, as they do when _bmap() adds a
\* block to it; nobody asks for that yet.  Bound: they never become Zero again.
Change(t, d, v) ==
    /\ User(t) /\ filp[t][d] # NULL
    /\ LET x == f_inode[filp[t][d]]
       IN  /\ i_num[x] \in Changed
           /\ data' = [data EXCEPT ![x] = v]
           /\ i_dirt' = [i_dirt EXCEPT ![x] = TRUE]
    /\ UNCHANGED <<i_num, i_count, i_lock, last_inode, disk, pc, locals, cpu, panicked,
                   fileVars>>

-----------------------------------------------------------------------------
Init ==
    /\ InodeInit
    /\ filp = [t \in Task |-> [d \in Fd |-> NULL]]
    /\ f_count = [f \in File |-> 0]
    /\ f_inode = [f \in File |-> NULL]
    /\ fd = [t \in Task |-> NULL]
    /\ live = {first}
    /\ sane = TRUE

\* Kernel code: what a task does once it has entered the kernel.
KernelStep(t) ==
    \/ InodeStep(t) /\ UNCHANGED fileVars
    \/ FindEntry(t)
    \/ Got(t)
    \/ Failed(t)

Call(t) ==
    \/ Open(t)
    \/ \E d \in Fd : Close(t, d) \/ Dup(t, d)
    \/ \E d \in Fd, v \in Value \ {Zero} : Change(t, d, v)
    \/ \E u \in Task : Fork(t, u)
    \/ t \in live /\ Sync(t) /\ UNCHANGED fileVars

Next == \E t \in Task :
    \/ Call(t)
    \/ KernelStep(t)
    \/ SyncUnderLock(t) /\ UNCHANGED fileVars

Spec == Init /\ [][Next]_vars

-----------------------------------------------------------------------------
\* Type correctness; no count goes below 0.
TypeOK ==
    /\ i_num \in [Inode -> Num \cup {0}]
    /\ i_count \in [Inode -> Nat]
    /\ i_dirt \in [Inode -> BOOLEAN] /\ i_lock \in [Inode -> BOOLEAN]
    /\ data \in [Inode -> Value] /\ disk \in [Num -> Value]
    /\ last_inode \in Inode
    /\ pc \in [Task -> Places]
    /\ goal \in [Task -> {NULL, "user", "iget", "failed", "sync"}]
    /\ ino \in [Task -> Inode \cup {NULL}] /\ empty \in [Task -> Inode \cup {NULL}]
    /\ num \in [Task -> Num \cup {0}]
    /\ idx \in [Task -> 0..NR_INODE]
    /\ cpu \in Task \cup {NULL}
    /\ panicked \in BOOLEAN
    /\ filp \in [Task -> [Fd -> File \cup {NULL}]]
    /\ f_count \in [File -> Nat]
    /\ f_inode \in [File -> Inode \cup {NULL}]
    /\ fd \in [Task -> Fd \cup {NULL}]
    /\ live \subseteq Task
    /\ sane \in BOOLEAN

\* No inode is twice in the table, however long iget() has slept between the
\* search for it and the taking of an empty inode (inode.c:267, 320).
OneInodePerNumber ==
    \A x, y \in Inode : i_num[x] # 0 /\ i_num[x] = i_num[y] => x = y

\* An inode nobody refers to is neither changed nor locked, so that
\* get_empty_inode(), which looks at the count before it would sleep and not
\* after (inode.c:245), never sleeps.
FreeInodesClean == \A x \in Free : ~i_dirt[x] /\ ~i_lock[x]

\* A file is counted once for each descriptor, whatever was shared by dup() and
\* fork(), failed to open or was closed meanwhile.  (The types are part of it.)
FileCountsRight ==
    /\ TypeOK
    /\ \A f \in File : f_count[f] = Cardinality({e \in Task \X Fd : filp[e[1]][e[2]] = f})

\* An inode is counted once for each open file, each task that has it as root
\* or working directory, the super block, and each call that is using it.
Opening == {filp[t][fd[t]] : t \in {u \in Task : fd[u] # NULL}}
Users(x) == {t \in Task : \/ empty[t] = x
                          \/ ino[t] = x /\ pc[t] # "wait" /\ goal[t] # "sync"}
InodeCountsRight ==
    sane => \A x \in Inode :
        i_count[x] =
            Cardinality({f \in File : f_count[f] > 0 /\ f \notin Opening /\ f_inode[f] = x})
            + Cardinality(Users(x))
            + (IF x = RootInode THEN 2 + 2 * Cardinality(live) ELSE 0)

\* What programs see: descriptors and inodes, no counts and no table.  A changed
\* inode is found changed by whoever opens it later, a descriptor keeps its
\* inode while others open and close theirs.
Opened(f) == f_count[f] > 0 /\ f \notin Opening
Reading(t) == pc[t] \in {"read", "deadlock"} /\ goal[t] = NULL
Loaded(n) == {x \in Inode : i_num[x] = n /\ \A t \in Task : Reading(t) => ino[t] # x}

Descriptors == [t \in Task |-> [d \in Fd |-> IF d = fd[t] THEN NULL ELSE filp[t][d]]]
Files == [f \in File |-> IF Opened(f) THEN i_num[f_inode[f]] ELSE NULL]
Contents == [n \in Num |-> IF Loaded(n) = {} THEN disk[n]
                           ELSE data[CHOOSE x \in Loaded(n) : TRUE]]

Store == INSTANCE FileStore WITH
    None <- NULL, fd <- Descriptors, inode <- Files, value <- Contents

ImplementsFileStore ==
    /\ Store!StoreInit([n \in Num |-> Zero])
    /\ [][sane' => Store!StoreNext]_(Store!storeVars)

(***************************************************************************)
(* Liveness: the disk answers, and a task that is ready is dispatched in   *)
(* the end, whatever others do (Sched's NoStarvation).                     *)
(***************************************************************************)
FairSpec == Spec /\ \A t \in Task : SF_vars(KernelStep(t))

\* The lock of an inode is undone, unless the buffer cache has no clean buffer
\* left for the task that holds it (SyncUnderLock).  The queues of the inodes
\* rest on this (WaitQueue).
LocksUndone ==
    \A x \in Inode : i_lock[x] ~> ~i_lock[x] \/ panicked \/ \E t \in Task : pc[t] = "deadlock"
=============================================================================
