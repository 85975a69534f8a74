-------------------------- MODULE OpenFiles_proofs --------------------------
(***************************************************************************)
(* Theorems about OpenFiles, for any number of tasks, inodes and files.     *)
(***************************************************************************)
EXTENDS OpenFiles, FiniteSetTheorems, FunctionTheorems, TLAPS

-----------------------------------------------------------------------------
(***************************************************************************)
(* Numbers.  Only iget() gives an inode a number, in the stretch without   *)
(* sleep in which its scan has found the number nowhere.                   *)
(***************************************************************************)
NumberInv ==
    /\ i_num \in [Inode -> Num \cup {0}] /\ last_inode \in Inode
    /\ pc \in [Task -> Places \cup {NULL}] /\ num \in [Task -> Num \cup {0}]
    /\ goal \in [Task -> {NULL, "user", "iget", "failed", "sync"}]
    /\ empty \in [Task -> Inode \cup {NULL}]
    /\ \A t \in Task : pc[t] \in {"scan", "wait"} => empty[t] \in Inode
    /\ OneInodePerNumber

LEMMA NumberKept ==
    ASSUME NumberInv, UNCHANGED <<i_num, last_inode>>, NEW t \in Task,
           \/ pc' = pc
           \/ \E p \in (Places \cup {NULL}) \ {"scan", "wait"} : pc' = [pc EXCEPT ![t] = p],
           \/ num' = num
           \/ \E n \in Num \cup {0} : num' = [num EXCEPT ![t] = n],
           \/ goal' = goal
           \/ \E g \in {NULL, "user", "iget", "failed", "sync"} : goal' = [goal EXCEPT ![t] = g],
           \/ empty' = empty
           \/ pc'[t] \notin {"scan", "wait"} /\ empty' = [empty EXCEPT ![t] = NULL]
    PROVE  NumberInv'
<1>1. pc' \in [Task -> Places \cup {NULL}]
  BY DEF NumberInv
<1>2. num' \in [Task -> Num \cup {0}]
  BY DEF NumberInv
<1>3. goal' \in [Task -> {NULL, "user", "iget", "failed", "sync"}]
  BY DEF NumberInv
<1>4. empty' \in [Task -> Inode \cup {NULL}]
  BY DEF NumberInv
<1>5. \A u \in Task : pc'[u] \in {"scan", "wait"} => empty'[u] \in Inode
  BY DEF NumberInv
<1>6. OneInodePerNumber' /\ i_num' \in [Inode -> Num \cup {0}] /\ last_inode' \in Inode
  BY DEF NumberInv, OneInodePerNumber
<1> QED
  BY <1>1, <1>2, <1>3, <1>4, <1>5, <1>6 DEF NumberInv

\* A natural number that is the least of a set, by well-foundedness.
LEMMA LeastOf ==
    ASSUME NEW S \in SUBSET Nat, S # {}
    PROVE  \E m \in S : \A n \in S : m <= n
<1> DEFINE R == OpToRel(<, Nat)
<1>1. \E m \in S : \A n \in S : ~ (<<n, m>> \in R)
  <2>1. IsWellFoundedOn(R, Nat)
    BY NatLessThanWellFounded
  <2> HIDE DEF R
  <2> QED
    BY <2>1, WFMin
<1>2. PICK m \in S : \A n \in S : ~ (<<n, m>> \in R)
  BY <1>1
<1>3. \A n \in S : m <= n
  <2> TAKE n \in S
  <2>1. m \in Nat /\ n \in Nat
    OBVIOUS
  <2>2. ~ (n < m)
    BY <1>2, <2>1 DEF OpToRel
  <2> QED
    BY <2>1, <2>2
<1> QED
  BY <1>3

LEMMA LeastProps ==
    ASSUME NEW S \in SUBSET Nat, S # {}
    PROVE  Least(S) \in S
  BY LeastOf DEF Least

LEMMA NextFreeProps ==
    ASSUME last_inode \in Inode, Free # {}
    PROVE  NextFree \in Free
<1> DEFINE D == {Distance(x) : x \in Free}
<1>0. NR_INODE \in Nat /\ NR_INODE > 0
  BY InodeAssumption
<1>1. ASSUME NEW x \in Free PROVE Distance(x) \in Nat
  <2>1. x - last_inode - 1 \in Int
    BY <1>0 DEF Inode, Free
  <2> QED
    BY <1>0, <2>1 DEF Distance
<1>2. D \in SUBSET Nat /\ D # {}
  BY <1>1
<1>3. PICK m \in D : \A n \in D : m <= n
  BY <1>2, LeastOf
<1> QED
  BY <1>3 DEF NextFree

\* get_empty_inode() gives the inode no number yet.
LEMMA NumberTake ==
    ASSUME NumberInv, NEW t \in Task, NEW x \in Inode,
           empty' = [empty EXCEPT ![t] = x], i_num' = [i_num EXCEPT ![x] = 0],
           pc' = [pc EXCEPT ![t] = "scan"], last_inode' = x, UNCHANGED <<goal, num>>
    PROVE  NumberInv'
<1>1. i_num' \in [Inode -> Num \cup {0}] /\ OneInodePerNumber' /\ last_inode' \in Inode
  BY DEF NumberInv, OneInodePerNumber
<1>2. pc' \in [Task -> Places \cup {NULL}] /\ empty' \in [Task -> Inode \cup {NULL}]
  BY DEF NumberInv, Places
<1>3. \A u \in Task : pc'[u] \in {"scan", "wait"} => empty'[u] \in Inode
  BY DEF NumberInv
<1> QED
  BY <1>1, <1>2, <1>3 DEF NumberInv

LEMMA FoundKept ==
    ASSUME NumberInv, NEW t \in Task, NEW x, Found(t, x)
    PROVE  NumberInv'
<1>1. /\ UNCHANGED <<i_num, last_inode, goal>>
      /\ pc' = [pc EXCEPT ![t] = "got"] /\ num' = [num EXCEPT ![t] = 0]
      /\ empty' = [empty EXCEPT ![t] = NULL]
  BY DEF Found, Goto
<1>2. "got" \in (Places \cup {NULL}) \ {"scan", "wait"} /\ pc'[t] \notin {"scan", "wait"}
  BY <1>1 DEF NumberInv, Places
<1> QED
  BY <1>1, <1>2, NumberKept

LEMMA NumberInode == NumberInv /\ (\E t \in Task : InodeStep(t)) => NumberInv'
<1> SUFFICES ASSUME NumberInv, NEW t \in Task, InodeStep(t) PROVE NumberInv'
  OBVIOUS
<1>0. pc[t] \in Places \cup {NULL} /\ num[t] \in Num \cup {0} /\ empty[t] \in Inode \cup {NULL}
      /\ goal[t] \in {NULL, "user", "iget", "failed", "sync"}
  BY DEF NumberInv
<1>1. CASE Iput(t)
  <2>1. CASE UNCHANGED <<table, pc, locals, panicked>>
    BY <2>1, NumberKept DEF table, locals
  <2>2. CASE ~UNCHANGED <<table, pc, locals, panicked>>
    <3>1. UNCHANGED <<i_num, last_inode, num, empty>>
      BY <1>1, <2>2 DEF Iput, Sleep, locals
    <3>2. /\ \E p \in (Places \cup {NULL}) \ {"scan", "wait"} : pc' = [pc EXCEPT ![t] = p]
          /\ goal' = goal \/ goal' = [goal EXCEPT ![t] = NULL]
      <4>1. goal[t] \in (Places \cup {NULL}) \ {"scan", "wait"}
        BY <1>0, InodeAssumption DEF Places
      <4>2. \/ pc' = [pc EXCEPT ![t] = "write"] /\ goal' = goal
            \/ pc' = [pc EXCEPT ![t] = "user"] /\ goal' = [goal EXCEPT ![t] = NULL]
            \/ pc' = [pc EXCEPT ![t] = goal[t]] /\ goal' = [goal EXCEPT ![t] = NULL]
        BY <1>1, <2>2 DEF Iput, Sleep, SleepTo, Goto, locals
      <4> QED
        BY <4>1, <4>2 DEF Places
    <3> QED
      BY <3>1, <3>2, NumberKept
  <2> QED
    BY <2>1, <2>2
<1>2. CASE WriteInode(t)
  BY <1>2, NumberKept DEF WriteInode, SleepTo, locals, Places
<1>3. CASE Written(t)
  <2>1. /\ \E p \in (Places \cup {NULL}) \ {"scan", "wait"} : pc' = [pc EXCEPT ![t] = p]
        /\ goal' = goal \/ goal' = [goal EXCEPT ![t] = NULL]
        /\ UNCHANGED <<i_num, last_inode, num, empty>>
    BY <1>3 DEF Written, Goto, Places
  <2> QED
    BY <2>1, NumberKept
<1>4. CASE ReadInode(t)
  <2>1. /\ pc' = pc \/ \E p \in (Places \cup {NULL}) \ {"scan", "wait"} : pc' = [pc EXCEPT ![t] = p]
        /\ UNCHANGED <<i_num, last_inode, goal, num, empty>>
    BY <1>4 DEF ReadInode, Goto, Panic, table, locals, Places
  <2> QED
    BY <2>1, NumberKept
<1>5. CASE SyncInodes(t)
  <2>1. UNCHANGED <<i_num, last_inode>>
    BY <1>5 DEF SyncInodes, Sleep, table
  <2>2. pc' = pc \/ \E p \in (Places \cup {NULL}) \ {"scan", "wait"} : pc' = [pc EXCEPT ![t] = p]
    BY <1>5 DEF SyncInodes, Sleep, Return, Goto, SleepTo, Places
  <2>3. /\ num' = num \/ num' = [num EXCEPT ![t] = 0]
        /\ goal' = goal \/ \E g \in {NULL, "user", "iget", "failed", "sync"} : goal' = [goal EXCEPT ![t] = g]
    BY <1>5 DEF SyncInodes, Sleep, Return, locals
  <2>4. \/ empty' = empty
        \/ pc'[t] \notin {"scan", "wait"} /\ empty' = [empty EXCEPT ![t] = NULL]
    <3>1. CASE Return(t)
      BY <3>1 DEF Return, SleepTo, NumberInv
    <3>2. CASE ~Return(t)
      BY <1>5, <3>2 DEF SyncInodes, Sleep, locals
    <3> QED
      BY <3>1, <3>2
  <2> QED
    BY <2>1, <2>2, <2>3, <2>4, NumberKept
<1>6. CASE GetEmptyInode(t)
  <2>1. CASE Panic
    BY <2>1, NumberKept DEF Panic, table, locals
  <2>2. CASE ~Panic
    <3>1. Free # {} /\ empty' = [empty EXCEPT ![t] = NextFree]
          /\ i_num' = [i_num EXCEPT ![NextFree] = 0] /\ pc' = [pc EXCEPT ![t] = "scan"]
          /\ last_inode' = NextFree
          /\ UNCHANGED <<goal, num>>
      BY <1>6, <2>2 DEF GetEmptyInode, Goto
    <3>2. NextFree \in Inode
      BY <3>1, NextFreeProps DEF Free, NumberInv
    <3> QED
      BY <3>1, <3>2, NumberTake
  <2> QED
    BY <2>1, <2>2
<1>7. CASE Scan(t)
  <2>1. CASE /\ Having(num[t]) = {}
             /\ i_num' = [i_num EXCEPT ![empty[t]] = num[t]]
             /\ empty' = [empty EXCEPT ![t] = NULL] /\ num' = [num EXCEPT ![t] = 0]
             /\ SleepTo(t, "read") /\ UNCHANGED <<goal, last_inode>>
    <3>1. /\ Having(num[t]) = {}
          /\ i_num' = [i_num EXCEPT ![empty[t]] = num[t]]
          /\ empty' = [empty EXCEPT ![t] = NULL] /\ num' = [num EXCEPT ![t] = 0]
          /\ pc' = [pc EXCEPT ![t] = "read"] /\ UNCHANGED <<goal, last_inode>>
      BY <2>1 DEF SleepTo
    <3>2. empty[t] \in Inode
      BY <1>7 DEF Scan, At, NumberInv
    <3>3. OneInodePerNumber' /\ i_num' \in [Inode -> Num \cup {0}] /\ last_inode' \in Inode
      BY <3>1, <3>2, <1>0 DEF Having, NumberInv, OneInodePerNumber
    <3>4. pc' \in [Task -> Places \cup {NULL}] /\ num' \in [Task -> Num \cup {0}]
      BY <3>1 DEF NumberInv, Places
    <3>5. /\ empty' \in [Task -> Inode \cup {NULL}]
          /\ \A u \in Task : pc'[u] \in {"scan", "wait"} => empty'[u] \in Inode
      BY <3>1 DEF NumberInv
    <3> QED
      BY <3>1, <3>3, <3>4, <3>5 DEF NumberInv
  <2>2. CASE \E x \in Inode : Found(t, x)
    BY <2>2, FoundKept
  <2>3. CASE \E x \in Inode : /\ SleepTo(t, "wait")
                              /\ UNCHANGED <<table, goal, num, empty, idx, panicked>>
    <3>1. UNCHANGED <<i_num, last_inode, goal, num, empty>> /\ pc' = [pc EXCEPT ![t] = "wait"]
      BY <2>3 DEF SleepTo, table
    <3>2. pc[t] = "scan"
      BY <1>7 DEF Scan, At
    <3>3. pc' \in [Task -> Places \cup {NULL}]
      BY <3>1 DEF NumberInv, Places
    <3>4. \A u \in Task : pc'[u] \in {"scan", "wait"} => empty'[u] \in Inode
      BY <3>1, <3>2 DEF NumberInv
    <3> QED
      BY <3>1, <3>3, <3>4 DEF NumberInv, OneInodePerNumber
  <2> QED
    BY <1>7, <2>1, <2>2, <2>3 DEF Scan, Having
<1>8. CASE WaitOnInode(t)
  <2>1. CASE \E x : Found(t, x)
    BY <2>1, FoundKept
  <2>2. CASE Sleep
    BY <2>2, NumberKept DEF Sleep, table, locals
  <2>3. CASE /\ Goto(t, "scan")
             /\ UNCHANGED <<table, goal, num, empty, idx, panicked>>
    <3>1. UNCHANGED <<i_num, last_inode, goal, num, empty>> /\ pc' = [pc EXCEPT ![t] = "scan"]
      BY <2>3 DEF Goto, table
    <3>2. pc[t] = "wait"
      BY <1>8 DEF WaitOnInode, At
    <3>3. pc' \in [Task -> Places \cup {NULL}]
      BY <3>1 DEF NumberInv, Places
    <3>4. \A u \in Task : pc'[u] \in {"scan", "wait"} => empty'[u] \in Inode
      BY <3>1, <3>2 DEF NumberInv
    <3> QED
      BY <3>1, <3>3, <3>4 DEF NumberInv, OneInodePerNumber
  <2> QED
    BY <1>8, <2>1, <2>2, <2>3 DEF WaitOnInode
<1> QED
  BY <1>1, <1>2, <1>3, <1>4, <1>5, <1>6, <1>7, <1>8 DEF InodeStep

\* Where the place of t becomes one of those at which it has no empty inode.
Elsewhere(t) ==
    \/ pc' = pc
    \/ \E p \in (Places \cup {NULL}) \ {"scan", "wait"} : pc' = [pc EXCEPT ![t] = p]

LEMMA ReturnKept ==
    ASSUME NumberInv, NEW t \in Task, Return(t), UNCHANGED table
    PROVE  NumberInv'
<1>1. /\ UNCHANGED <<i_num, last_inode>> /\ pc' = [pc EXCEPT ![t] = "user"]
      /\ goal' = [goal EXCEPT ![t] = NULL] /\ num' = [num EXCEPT ![t] = 0]
      /\ empty' = [empty EXCEPT ![t] = NULL]
  BY DEF Return, SleepTo, table
<1>2. "user" \in (Places \cup {NULL}) \ {"scan", "wait"} /\ pc'[t] \notin {"scan", "wait"}
  BY <1>1 DEF NumberInv, Places
<1> QED
  BY <1>1, <1>2, NumberKept

LEMMA NumberNext == NumberInv /\ [Next]_vars => NumberInv'
<1> SUFFICES ASSUME NumberInv, [Next]_vars PROVE NumberInv'
  OBVIOUS
<1>1. CASE UNCHANGED inodeVars
  BY <1>1 DEF inodeVars, table, locals, NumberInv, OneInodePerNumber
<1>2. ASSUME NEW t \in Task, Call(t) PROVE NumberInv'
  <2>1. ASSUME Open(t) PROVE NumberInv'
    <3>1. UNCHANGED <<i_num, last_inode, goal, num, empty>> /\ Elsewhere(t)
      BY <2>1 DEF Open, SleepTo, Elsewhere, Places
    <3> QED
      BY <3>1, NumberKept DEF Elsewhere
  <2>2. ASSUME NEW d \in Fd, Close(t, d) PROVE NumberInv'
    <3>1. /\ UNCHANGED <<i_num, last_inode, num, empty>> /\ Elsewhere(t)
          /\ goal' = goal \/ goal' = [goal EXCEPT ![t] = "user"]
      BY <2>2 DEF Close, Goto, Elsewhere, Places, table
    <3> QED
      BY <3>1, NumberKept DEF Elsewhere
  <2>3. ASSUME NEW d \in Fd, Dup(t, d) PROVE NumberInv'
    BY <1>1, <2>3 DEF Dup
  <2>4. ASSUME NEW d \in Fd, NEW v, Change(t, d, v) PROVE NumberInv'
    BY <2>4 DEF Change, locals, NumberInv, OneInodePerNumber
  <2>5. ASSUME NEW u \in Task, Fork(t, u) PROVE NumberInv'
    BY <2>5 DEF Fork, locals, NumberInv, OneInodePerNumber
  <2>6. ASSUME Sync(t) PROVE NumberInv'
    <3>1. UNCHANGED <<i_num, last_inode, goal, num, empty>> /\ Elsewhere(t)
      BY <2>6 DEF Sync, Goto, Elsewhere, Places, table, locals
    <3> QED
      BY <3>1, NumberKept DEF Elsewhere
  <2> QED
    BY <1>2, <2>1, <2>2, <2>3, <2>4, <2>5, <2>6 DEF Call
<1>3. ASSUME NEW t \in Task, KernelStep(t) PROVE NumberInv'
  <2>1. ASSUME FindEntry(t) PROVE NumberInv'
    <3>1. /\ UNCHANGED <<i_num, last_inode, empty>> /\ Elsewhere(t)
          /\ \E g \in {NULL, "user", "iget", "failed", "sync"} : goal' = [goal EXCEPT ![t] = g]
          /\ num' = num \/ \E n \in Num \cup {0} : num' = [num EXCEPT ![t] = n]
      BY <2>1 DEF FindEntry, Goto, Elsewhere, Places, table
    <3> QED
      BY <3>1, NumberKept DEF Elsewhere
  <2>2. ASSUME Got(t) PROVE NumberInv'
    <3>1. CASE Return(t)
      BY <2>2, <3>1, ReturnKept DEF Got
    <3>2. CASE ~Return(t)
      <4>1. /\ UNCHANGED <<i_num, last_inode, num, empty>> /\ Elsewhere(t)
            /\ goal' = goal \/ goal' = [goal EXCEPT ![t] = "failed"]
        BY <2>2, <3>2 DEF Got, Goto, SleepTo, Elsewhere, Places, table
      <4> QED
        BY <4>1, NumberKept DEF Elsewhere
    <3> QED
      BY <3>1, <3>2
  <2>3. ASSUME Failed(t) PROVE NumberInv'
    BY <2>3, ReturnKept DEF Failed
  <2> QED
    BY <1>3, <2>1, <2>2, <2>3, NumberInode DEF KernelStep
<1>4. ASSUME NEW t \in Task, SyncUnderLock(t) PROVE NumberInv'
  <2>1. UNCHANGED <<i_num, last_inode, goal, num, empty>> /\ Elsewhere(t)
    BY <1>4 DEF SyncUnderLock, SleepTo, Elsewhere, Places, table, locals
  <2> QED
    BY <2>1, NumberKept DEF Elsewhere
<1> QED
  BY <1>1, <1>2, <1>3, <1>4 DEF Next, vars

LEMMA NumbersInit == Init => NumberInv
<1>1. NR_INODE \in Nat /\ NR_INODE > 1 /\ ROOT_INO \in Num
  BY InodeAssumption
<1> QED
  BY <1>1 DEF Init, InodeInit, NumberInv, OneInodePerNumber, Inode, RootInode, Places

\* No inode is ever twice in the table: iget() sleeps for a locked inode, but
\* not between the scan that finds the number nowhere and the taking of it.
THEOREM NumbersAreUnique == Spec => []OneInodePerNumber
<1>1. NumberInv => OneInodePerNumber
  BY DEF NumberInv
<1> QED
  BY <1>1, NumbersInit, NumberNext, PTL DEF Spec

-----------------------------------------------------------------------------
(***************************************************************************)
(* The inductive invariant behind the counts and FileStore, as long as     *)
(* open() uses the inodes it was given.                                    *)
(***************************************************************************)
InodeTypes ==
    /\ i_num \in [Inode -> Num \cup {0}]
    /\ i_count \in [Inode -> Nat]
    /\ i_dirt \in [Inode -> BOOLEAN] /\ i_lock \in [Inode -> BOOLEAN]
    /\ data \in [Inode -> Value] /\ disk \in [Num -> Value]
    /\ last_inode \in Inode
LocalTypes ==
    /\ pc \in [Task -> Places]
    /\ goal \in [Task -> {NULL, "user", "iget", "failed", "sync"}]
    /\ ino \in [Task -> Inode \cup {NULL}] /\ empty \in [Task -> Inode \cup {NULL}]
    /\ num \in [Task -> Num \cup {0}]
    /\ idx \in [Task -> 0..NR_INODE]
    /\ cpu \in Task \cup {NULL}
    /\ panicked \in BOOLEAN
FileTypes ==
    /\ filp \in [Task -> [Fd -> File \cup {NULL}]]
    /\ f_count \in [File -> Nat]
    /\ f_inode \in [File -> Inode \cup {NULL}]
    /\ fd \in [Task -> Fd \cup {NULL}]
    /\ live \subseteq Task
    /\ sane \in BOOLEAN
LEMMA TypeParts == TypeOK <=> InodeTypes /\ LocalTypes /\ FileTypes
  BY DEF TypeOK, InodeTypes, LocalTypes, FileTypes

\* How often a file is in the descriptors, and an inode in the files and tasks.
Pairs(f) == Cardinality({e \in Task \X Fd : filp[e[1]][e[2]] = f})
CountOf(S, g, x) == Cardinality({s \in S : g[s] = x})
Uses(t, x) == \/ empty[t] = x
              \/ ino[t] = x /\ pc[t] # "wait" /\ goal[t] # "sync"
UsersOf(x) == Cardinality({t \in Task : Uses(t, x)})
RootRefs(x) == IF x = RootInode THEN 2 + 2 * Cardinality(live) ELSE 0
Total(x) == CountOf(File, f_inode, x) + UsersOf(x) + RootRefs(x)

\* What a task has at its place.
Opens == {"find", "iget", "scan", "wait", "read", "got", "failed"}
Works == {"find", "iput", "write", "written", "wait", "read", "got", "deadlock"}
Holding(t) == pc[t] \in {"read", "write", "written", "deadlock"}
PlaceOK(t) ==
    /\ ino[t] # NULL <=> pc[t] \in Works
    /\ empty[t] # NULL <=> pc[t] \in {"scan", "wait"}
    /\ goal[t] # NULL => pc[t] \in {"iput", "write", "written", "deadlock"}
    /\ pc[t] \in {"iput", "write", "written"} => goal[t] # NULL
    /\ pc[t] = "iput" => goal[t] # "sync"
    /\ num[t] # 0 <=> pc[t] \in {"iget", "scan", "wait"} \/ goal[t] = "iget"
    /\ fd[t] # NULL <=> \/ pc[t] \in Opens \/ goal[t] \in {"iget", "failed"}
                        \/ Reading(t)
    /\ t \notin live => pc[t] = "user"

\* The inodes that it has: one that it will put back keeps its number, one that
\* it has locked is locked by nobody else, one that it reads and an empty one
\* are used by nobody else.
HasOK(t) ==
    /\ pc[t] \in Works \ {"wait"} => i_num[ino[t]] # 0
    /\ Holding(t) => i_lock[ino[t]]
    /\ Reading(t) => i_count[ino[t]] = 1 /\ ~i_dirt[ino[t]]
    /\ empty[t] # NULL => /\ i_num[empty[t]] = 0 /\ i_count[empty[t]] = 1
                          /\ ~i_dirt[empty[t]] /\ ~i_lock[empty[t]]
OneHolder(t, u) == Holding(t) /\ Holding(u) /\ ino[t] = ino[u] => t = u

\* An inode in the table that is not changed is what the disk has.
InodeOK(x) ==
    /\ i_count[x] = 0 => ~i_dirt[x] /\ ~i_lock[x]
    /\ i_dirt[x] => i_num[x] # 0
    /\ i_num[x] # 0 /\ ~i_dirt[x] /\ (\A t \in Task : Reading(t) => ino[t] # x)
       => data[x] = disk[i_num[x]]

\* A file has an inode when its open() has succeeded; until then it is in one
\* descriptor.
FileOK(f) == f_inode[f] # NULL <=> Opened(f)
OpeningOK(t) ==
    /\ fd[t] # NULL => filp[t][fd[t]] # NULL /\ f_count[filp[t][fd[t]]] = 1
    /\ t \notin live => \A d \in Fd : filp[t][d] = NULL
FileInv ==
    /\ \A f \in File : f_count[f] = Pairs(f) /\ FileOK(f)
    /\ \A t \in Task : OpeningOK(t)

NumbersKept ==
    /\ \A f \in File : f_inode[f] # NULL => i_num[f_inode[f]] # 0
    /\ i_num[RootInode] = ROOT_INO
    /\ OneInodePerNumber

FilesInv ==
    /\ TypeOK /\ FileInv /\ NumbersKept
    /\ \A x \in Inode : i_count[x] = Total(x) /\ InodeOK(x)
    /\ \A t \in Task : PlaceOK(t) /\ HasOK(t)
    /\ \A t, u \in Task : OneHolder(t, u)

-----------------------------------------------------------------------------
LEMMA Finite ==
    /\ IsFiniteSet(Task) /\ IsFiniteSet(Fd) /\ IsFiniteSet(File)
    /\ IsFiniteSet(Task \X Fd)
<1>1. NR_OPEN - 1 \in Int /\ NR_FILE - 1 \in Int
  BY FilesAssumption
<1>2. IsFiniteSet(Task) /\ IsFiniteSet(Fd) /\ IsFiniteSet(File)
  BY <1>1, FS_Interval, InodeAssumption DEF Fd, File
<1> QED
  BY <1>2, FS_Product

\* No inode, file or descriptor is NULL, and the root is one.
LEMMA NullNoItem ==
    /\ NULL \notin Inode /\ NULL \notin File /\ NULL \notin Fd /\ NULL \notin Num
    /\ RootInode \in Inode /\ ROOT_INO \in Num /\ 0 \notin Num
    /\ Inode \subseteq Nat /\ File \subseteq Nat /\ Fd \subseteq Nat
<1>1. NR_INODE \in Nat /\ NR_INODE > 1 /\ NULL \notin Nat /\ Num \subseteq Nat \ {0}
      /\ ROOT_INO \in Num
  BY InodeAssumption
<1>2. Inode \subseteq Nat /\ File \subseteq Nat /\ Fd \subseteq Nat
  BY <1>1, FilesAssumption DEF Inode, File, Fd
<1>3. RootInode \in Inode
  BY <1>1 DEF RootInode, Inode
<1> QED
  BY <1>1, <1>2, <1>3

Ones(P) == IF P THEN 1 ELSE 0
LEMMA OnesNat == \A P : Ones(P) \in Nat
  BY DEF Ones
Is(g, s, x) == g[s] = x

\* How a count changes with one of the things counted.
LEMMA CountStep ==
    ASSUME NEW S, IsFiniteSet(S), NEW g, NEW h, NEW c \in S, NEW x,
           \A s \in S \ {c} : h[s] = g[s]
    PROVE  /\ CountOf(S, g, x) \in Nat /\ CountOf(S, h, x) \in Nat
           /\ CountOf(S, h, x) = CountOf(S, g, x) + Ones(Is(h, c, x)) - Ones(Is(g, c, x))
<1> DEFINE G == {s \in S : g[s] = x}
           H == {s \in S : h[s] = x}
<1>1. IsFiniteSet(G) /\ IsFiniteSet(H)
  BY FS_Subset
<1>2. Cardinality(G) \in Nat /\ Cardinality(H) \in Nat
  BY <1>1, FS_CardinalityType
<1>3. G \ {c} = H \ {c}
  OBVIOUS
<1>4. /\ Cardinality(G \ {c}) = IF c \in G THEN Cardinality(G) - 1 ELSE Cardinality(G)
      /\ Cardinality(H \ {c}) = IF c \in H THEN Cardinality(H) - 1 ELSE Cardinality(H)
  BY <1>1, FS_RemoveElement
<1>5. Cardinality(G \ {c}) = Cardinality(H \ {c})
  BY <1>3
<1>6. (c \in G) = Is(g, c, x) /\ (c \in H) = Is(h, c, x)
  BY DEF Is
<1> HIDE DEF G, H
<1>7. Cardinality(H) = Cardinality(G) + Ones(c \in H) - Ones(c \in G)
  BY <1>2, <1>4, <1>5 DEF Ones
<1> QED
  BY <1>2, <1>6, <1>7 DEF CountOf, G, H

\* What a task does to what it has.
OnlyMoves(t) ==
    \A u \in Task \ {t} :
        UNCHANGED <<pc[u], goal[u], ino[u], num[u], empty[u], idx[u]>>

LEMMA UsersStep ==
    ASSUME NEW t \in Task, OnlyMoves(t), NEW x \in Inode
    PROVE  /\ UsersOf(x) \in Nat /\ UsersOf(x)' \in Nat
           /\ UsersOf(x)' = UsersOf(x) + Ones(Uses(t, x)') - Ones(Uses(t, x))
<1> DEFINE G == {u \in Task : Uses(u, x)}
           H == {u \in Task : Uses(u, x)'}
<1>1. IsFiniteSet(G) /\ IsFiniteSet(H)
  BY Finite, FS_Subset
<1>2. Cardinality(G) \in Nat /\ Cardinality(H) \in Nat
  BY <1>1, FS_CardinalityType
<1>3. G \ {t} = H \ {t}
  BY DEF OnlyMoves, Uses
<1>4. /\ Cardinality(G \ {t}) = IF t \in G THEN Cardinality(G) - 1 ELSE Cardinality(G)
      /\ Cardinality(H \ {t}) = IF t \in H THEN Cardinality(H) - 1 ELSE Cardinality(H)
  BY <1>1, FS_RemoveElement
<1>5. Cardinality(G \ {t}) = Cardinality(H \ {t})
  BY <1>3
<1>6. (t \in G) <=> Uses(t, x)
  OBVIOUS
<1>7. (t \in H) <=> Uses(t, x)'
  OBVIOUS
<1>8. UsersOf(x) = Cardinality(G) /\ UsersOf(x)' = Cardinality(H)
  BY DEF UsersOf
<1> HIDE DEF G, H, Uses
<1>9. Cardinality(H) = Cardinality(G) + Ones(Uses(t, x)') - Ones(Uses(t, x))
  BY <1>2, <1>4, <1>5, <1>6, <1>7 DEF Ones
<1> QED
  BY <1>2, <1>8, <1>9

LEMMA TotalTypes ==
    ASSUME FileTypes, NEW x \in Inode
    PROVE  /\ CountOf(File, f_inode, x) \in Nat /\ UsersOf(x) \in Nat
           /\ RootRefs(x) \in Nat /\ Total(x) \in Nat
           /\ x = RootInode => RootRefs(x) > 1
<1>1. CountOf(File, f_inode, x) \in Nat
  BY Finite, FS_Subset, FS_CardinalityType DEF CountOf
<1>2. UsersOf(x) \in Nat
  BY Finite, FS_Subset, FS_CardinalityType DEF UsersOf
<1>3. Cardinality(live) \in Nat
  BY Finite, FS_Subset, FS_CardinalityType DEF FileTypes
<1>4. RootRefs(x) \in Nat /\ (x = RootInode => RootRefs(x) > 1)
  BY <1>3 DEF RootRefs
<1> QED
  BY <1>1, <1>2, <1>4 DEF Total

\* Who uses an inode is counted, and two are counted twice.
LEMMA UserCounts ==
    ASSUME FilesInv, NEW t \in Task, NEW x \in Inode, Uses(t, x)
    PROVE  /\ i_count[x] > 0
           /\ \A u \in Task \ {t} : Uses(u, x) => i_count[x] > 1
           /\ \A f \in File : f_inode[f] = x => i_count[x] > 1
<1> DEFINE G == {u \in Task : Uses(u, x)}
           H == {f \in File : f_inode[f] = x}
<1>1. IsFiniteSet(G) /\ t \in G /\ IsFiniteSet(H)
  BY Finite, FS_Subset
<1>2. /\ UsersOf(x) = Cardinality(G) /\ CountOf(File, f_inode, x) = Cardinality(H)
      /\ UsersOf(x) \in Nat /\ CountOf(File, f_inode, x) \in Nat /\ RootRefs(x) \in Nat
      /\ i_count[x] = CountOf(File, f_inode, x) + UsersOf(x) + RootRefs(x)
  BY TotalTypes, TypeParts DEF UsersOf, CountOf, Total, FilesInv
<1>3. Cardinality(G) # 0
  BY <1>1, FS_EmptySet
<1>4. ASSUME NEW u \in Task \ {t}, Uses(u, x) PROVE Cardinality(G) > 1
  <2>1. u \in G \ {t} /\ IsFiniteSet(G \ {t})
    BY <1>1, <1>4, FS_Subset
  <2>2. Cardinality(G \ {t}) # 0
    BY <2>1, FS_EmptySet
  <2>3. Cardinality(G \ {t}) = Cardinality(G) - 1
    BY <1>1, FS_RemoveElement
  <2> QED
    BY <1>2, <1>3, <2>2, <2>3
<1>5. ASSUME NEW f \in File, f_inode[f] = x PROVE Cardinality(H) # 0
  BY <1>1, <1>5, FS_EmptySet
<1> HIDE DEF G, H
<1> QED
  BY <1>2, <1>3, <1>4, <1>5

\* What an open file or the super block refers to is counted.
LEMMA RefCounts ==
    ASSUME FilesInv, NEW x \in Inode
    PROVE  /\ \A f \in File : f_inode[f] = x => i_count[x] > 0
           /\ x = RootInode => i_count[x] > 1
<1> DEFINE H == {f \in File : f_inode[f] = x}
<1>1. IsFiniteSet(H)
  BY Finite, FS_Subset
<1>2. /\ CountOf(File, f_inode, x) = Cardinality(H)
      /\ UsersOf(x) \in Nat /\ CountOf(File, f_inode, x) \in Nat /\ RootRefs(x) \in Nat
      /\ i_count[x] = CountOf(File, f_inode, x) + UsersOf(x) + RootRefs(x)
      /\ x = RootInode => RootRefs(x) > 1
  BY TotalTypes, TypeParts DEF CountOf, Total, FilesInv
<1>3. ASSUME NEW f \in File, f_inode[f] = x PROVE Cardinality(H) # 0
  BY <1>1, <1>3, FS_EmptySet
<1> HIDE DEF H
<1> QED
  BY <1>2, <1>3

-----------------------------------------------------------------------------
\* An inode that a step of t may change: one nobody has, the one t took in
\* iget(), the one t has locked, or one with a number and without lock.
Touches(t, x) ==
    \/ i_count[x] = 0
    \/ x = empty[t]
    \/ Holding(t) /\ x = ino[t]
    \/ i_num[x] # 0 /\ ~i_lock[x]

\* What it does to the inodes.
InodesMove(t) ==
    \A x \in Inode :
        /\ i_num'[x] # i_num[x] => i_count[x] = 0 \/ x = empty[t]
        /\ i_lock'[x] # i_lock[x] => Touches(t, x)
        /\ i_count'[x] # i_count[x] => Touches(t, x) \/ i_count[x] > 1
        /\ i_count'[x] # i_count[x] => ~(Holding(t) /\ x = ino[t])
        /\ i_dirt'[x] => i_dirt[x] \/ \E f \in File : f_inode[f] = x

\* The facts about one task that its places give.
LEMMA PlaceFacts ==
    ASSUME FilesInv, NEW t \in Task
    PROVE  /\ pc[t] \in Works <=> ino[t] \in Inode
           /\ pc[t] \in {"scan", "wait"} <=> empty[t] \in Inode
           /\ Holding(t) => ino[t] \in Inode
           /\ pc[t] \in Works \ {"wait"} => \/ Uses(t, ino[t])
                                            \/ goal[t] = "sync" /\ Holding(t)
           /\ Reading(t) => Holding(t) /\ Uses(t, ino[t])
           /\ empty[t] \in Inode => Uses(t, empty[t])
<1>1. PlaceOK(t) /\ LocalTypes
  BY TypeParts DEF FilesInv
<1>2. /\ ino[t] \in Inode \cup {NULL} /\ empty[t] \in Inode \cup {NULL} /\ NULL \notin Inode
      /\ goal[t] # NULL \/ goal[t] # "sync"
  BY <1>1, NullNoItem, InodeAssumption DEF LocalTypes, Places
<1>3. /\ pc[t] \in Works <=> ino[t] \in Inode
      /\ pc[t] \in {"scan", "wait"} <=> empty[t] \in Inode
  BY <1>1, <1>2 DEF PlaceOK
<1>4. Holding(t) => pc[t] \in Works
  BY DEF Holding, Works
<1>5. pc[t] \in Works \ {"wait"} => \/ Uses(t, ino[t])
                                    \/ goal[t] = "sync" /\ Holding(t)
  BY <1>1, InodeAssumption DEF PlaceOK, Uses, Holding, Works, Places
<1>6. Reading(t) => Holding(t) /\ Uses(t, ino[t])
  BY <1>2 DEF Reading, Holding, Uses
<1> QED
  BY <1>3, <1>4, <1>5, <1>6 DEF Uses

\* The others keep what they have.
LEMMA OthersKeep ==
    ASSUME FilesInv, NEW t \in Task, NEW u \in Task \ {t}, OnlyMoves(t), InodesMove(t),
           live \subseteq live', fd'[u] = fd[u]
    PROVE  PlaceOK(u)' /\ HasOK(u)'
<1>0. /\ UNCHANGED <<pc[u], goal[u], ino[u], num[u], empty[u]>>
      /\ (Reading(u)' <=> Reading(u)) /\ (Holding(u)' <=> Holding(u))
  BY DEF OnlyMoves, Reading, Holding
<1>1. /\ PlaceOK(u) /\ HasOK(u) /\ PlaceOK(t) /\ HasOK(t) /\ OneHolder(t, u)
      /\ \A x \in Inode : InodeOK(x) /\ i_count[x] \in Nat
      /\ i_dirt \in [Inode -> BOOLEAN] /\ i_lock \in [Inode -> BOOLEAN]
  BY TypeParts DEF FilesInv, InodeTypes
<1>2. PlaceOK(u)'
  BY <1>0, <1>1 DEF PlaceOK
<1>3. ASSUME pc[u] \in Works \ {"wait"} PROVE i_num'[ino[u]] # 0
  <2>1. ino[u] \in Inode /\ i_num[ino[u]] # 0
    BY <1>1, <1>3, PlaceFacts DEF HasOK
  <2>2. i_count[ino[u]] # 0
    <3>1. CASE Uses(u, ino[u])
      BY <2>1, <3>1, UserCounts
    <3>2. CASE Holding(u)
      BY <1>1, <2>1, <3>2 DEF HasOK, InodeOK
    <3> QED
      BY <1>3, <3>1, <3>2, PlaceFacts
  <2>3. ino[u] # empty[t]
    BY <1>1, <2>1, NullNoItem DEF HasOK
  <2> QED
    BY <2>1, <2>2, <2>3 DEF InodesMove
<1>4. ASSUME Holding(u) PROVE i_lock'[ino[u]] /\ ~Touches(t, ino[u])
  <2>1. ino[u] \in Inode /\ i_lock[ino[u]]
    BY <1>1, <1>4, PlaceFacts DEF HasOK
  <2>2. i_count[ino[u]] # 0
    BY <1>1, <2>1 DEF InodeOK
  <2>3. ino[u] # empty[t]
    BY <1>1, <2>1, NullNoItem DEF HasOK
  <2>4. ~(Holding(t) /\ ino[u] = ino[t])
    BY <1>1, <1>4 DEF OneHolder
  <2>5. ~Touches(t, ino[u])
    BY <2>1, <2>2, <2>3, <2>4 DEF Touches
  <2> QED
    BY <2>1, <2>5 DEF InodesMove
<1>5. ASSUME Reading(u) PROVE i_count'[ino[u]] = 1 /\ ~i_dirt'[ino[u]]
  <2>1. ino[u] \in Inode /\ i_count[ino[u]] = 1 /\ ~i_dirt[ino[u]] /\ Holding(u)
    BY <1>1, <1>5, PlaceFacts DEF HasOK
  <2>2. ~ \E f \in File : f_inode[f] = ino[u]
    BY <1>5, <2>1, PlaceFacts, UserCounts
  <2> QED
    BY <1>4, <2>1, <2>2 DEF InodesMove
<1>6. ASSUME empty[u] # NULL
      PROVE  /\ i_num'[empty[u]] = 0 /\ i_count'[empty[u]] = 1
             /\ ~i_dirt'[empty[u]] /\ ~i_lock'[empty[u]]
  <2>1. /\ empty[u] \in Inode /\ i_num[empty[u]] = 0 /\ i_count[empty[u]] = 1
        /\ ~i_dirt[empty[u]] /\ ~i_lock[empty[u]]
    BY <1>1, <1>6, PlaceFacts DEF HasOK, PlaceOK
  <2>2. empty[u] # empty[t]
    <3>1. Uses(u, empty[u])
      BY <2>1, PlaceFacts
    <3>2. empty[t] = empty[u] => Uses(t, empty[u])
      BY DEF Uses
    <3> QED
      BY <2>1, <3>1, <3>2, UserCounts
  <2>3. ~(Holding(t) /\ empty[u] = ino[t])
    BY <1>1, <2>1 DEF HasOK
  <2>4. ~Touches(t, empty[u])
    BY <2>1, <2>2, <2>3 DEF Touches
  <2>5. i_lock'[empty[u]] = i_lock[empty[u]] /\ i_count'[empty[u]] = i_count[empty[u]]
    BY <2>1, <2>4 DEF InodesMove
  <2>6. ~ \E f \in File : f_inode[f] = empty[u]
    BY <2>1, PlaceFacts, UserCounts
  <2>7. i_num'[empty[u]] = i_num[empty[u]] /\ ~i_dirt'[empty[u]]
    BY <2>1, <2>2, <2>6 DEF InodesMove
  <2> QED
    BY <2>1, <2>5, <2>7
<1>7. HasOK(u)'
  BY <1>0, <1>3, <1>4, <1>5, <1>6 DEF HasOK
<1> QED
  BY <1>2, <1>7

\* An inode in the files keeps its number, and so does the root.
LEMMA NumbersMove ==
    ASSUME FilesInv, NEW t \in Task, InodesMove(t), f_inode' = f_inode, OneInodePerNumber'
    PROVE  NumbersKept'
<1>1. ASSUME NEW f \in File, f_inode[f] # NULL PROVE i_num'[f_inode[f]] # 0
  <2>1. f_inode[f] \in Inode /\ i_num[f_inode[f]] # 0
    BY <1>1, TypeParts DEF FilesInv, FileTypes, NumbersKept
  <2>2. i_count[f_inode[f]] > 0
    BY <2>1, RefCounts
  <2>3. HasOK(t) /\ NULL \notin Inode
    BY NullNoItem DEF FilesInv
  <2>4. f_inode[f] # empty[t]
    BY <2>1, <2>3 DEF HasOK
  <2> QED
    BY <2>1, <2>2, <2>4 DEF InodesMove
<1>2. i_num'[RootInode] = ROOT_INO
  <2>1. i_num[RootInode] = ROOT_INO /\ ROOT_INO # 0 /\ RootInode \in Inode
    BY NullNoItem DEF FilesInv, NumbersKept
  <2>2. i_count[RootInode] > 1 /\ RootInode # empty[t]
    BY <2>1, RefCounts, NullNoItem DEF FilesInv, HasOK
  <2> QED
    BY <2>1, <2>2 DEF InodesMove
<1> QED
  BY <1>1, <1>2 DEF NumbersKept

\* A step of the inode table: only t moves, and counts an inode as it begins or
\* ends to use it.
LEMMA MoveInv ==
    ASSUME FilesInv, NEW t \in Task, UNCHANGED fileVars, OnlyMoves(t), InodesMove(t),
           InodeTypes', LocalTypes', OneInodePerNumber', PlaceOK(t)', HasOK(t)',
           Holding(t)' => \/ Holding(t) /\ ino'[t] = ino[t]
                          \/ ~i_lock[ino'[t]],
           \A x \in Inode : /\ i_count'[x] = i_count[x] + Ones(Uses(t, x)') - Ones(Uses(t, x))
                            /\ InodeOK(x)'
    PROVE  FilesInv'
<1>1. TypeOK'
  <2>1. FileTypes'
    BY TypeParts DEF FilesInv, FileTypes, fileVars
  <2> QED
    BY <2>1, TypeParts DEF TypeOK, InodeTypes, LocalTypes, FileTypes
<1>2. FileInv'
  <2>1. UNCHANGED <<filp, f_count, f_inode, fd, live>> /\ FileInv
    BY DEF FilesInv, fileVars
  <2>2. ASSUME NEW f \in File PROVE Pairs(f)' = Pairs(f) /\ Opening' = Opening
    BY <2>1 DEF Pairs, Opening
  <2>3. ASSUME NEW f \in File PROVE f_count'[f] = Pairs(f)' /\ FileOK(f)'
    <3>1. f_count[f] = Pairs(f) /\ FileOK(f)
      BY <2>1 DEF FileInv
    <3> QED
      BY <2>1, <2>2, <3>1 DEF FileOK, Opened
  <2>4. ASSUME NEW u \in Task PROVE OpeningOK(u)'
    BY <2>1 DEF FileInv, OpeningOK
  <2> QED
    BY <2>3, <2>4 DEF FileInv
<1>3. NumbersKept'
  BY NumbersMove DEF fileVars
<1>4. ASSUME NEW x \in Inode PROVE i_count'[x] = Total(x)'
  <2>1. /\ CountOf(File, f_inode, x) \in Nat /\ RootRefs(x) \in Nat
        /\ i_count[x] = Total(x)
    BY TotalTypes, TypeParts DEF FilesInv
  <2>2. CountOf(File, f_inode, x)' = CountOf(File, f_inode, x) /\ RootRefs(x)' = RootRefs(x)
    BY DEF CountOf, RootRefs, fileVars
  <2>3. /\ UsersOf(x) \in Nat /\ UsersOf(x)' \in Nat
        /\ UsersOf(x)' = UsersOf(x) + Ones(Uses(t, x)') - Ones(Uses(t, x))
    BY UsersStep
  <2>4. Ones(Uses(t, x)) \in Nat /\ Ones(Uses(t, x)') \in Nat
    BY OnesNat
  <2>5. i_count'[x] = i_count[x] + Ones(Uses(t, x)') - Ones(Uses(t, x))
    OBVIOUS
  <2> HIDE DEF CountOf, RootRefs, UsersOf, Ones
  <2> QED
    BY <2>1, <2>2, <2>3, <2>4, <2>5 DEF Total
<1>5. ASSUME NEW u \in Task PROVE PlaceOK(u)' /\ HasOK(u)'
  BY OthersKeep DEF fileVars
<1>6. ASSUME NEW u \in Task, NEW w \in Task PROVE OneHolder(u, w)'
  <2>1. ASSUME NEW v \in Task \ {t}
        PROVE  UNCHANGED <<ino[v], pc[v]>> /\ (Holding(v)' <=> Holding(v))
    BY DEF OnlyMoves, Holding
  <2>2. ASSUME NEW v \in Task, Holding(v) PROVE i_lock[ino[v]]
    BY <2>2 DEF FilesInv, HasOK
  <2>3. OneHolder(u, w) /\ OneHolder(w, u)
    BY DEF FilesInv
  <2> QED
    BY <2>1, <2>2, <2>3 DEF OneHolder
<1> QED
  BY <1>1, <1>2, <1>3, <1>4, <1>5, <1>6 DEF FilesInv

-----------------------------------------------------------------------------
(***************************************************************************)
(* The steps of the inode table.                                           *)
(***************************************************************************)
Goals == {NULL, "user", "iget", "failed", "sync"}
Moves(t) ==
    /\ \/ pc' = pc
       \/ \E p \in Places : pc' = [pc EXCEPT ![t] = p]
    /\ \/ goal' = goal
       \/ \E g \in Goals : goal' = [goal EXCEPT ![t] = g]
    /\ \/ ino' = ino
       \/ \E x \in Inode \cup {NULL} : ino' = [ino EXCEPT ![t] = x]
    /\ \/ empty' = empty
       \/ \E x \in Inode \cup {NULL} : empty' = [empty EXCEPT ![t] = x]
    /\ \/ num' = num
       \/ \E n \in Num \cup {0} : num' = [num EXCEPT ![t] = n]
    /\ \/ idx' = idx
       \/ \E n \in 0..NR_INODE : idx' = [idx EXCEPT ![t] = n]
    /\ cpu' \in Task \cup {NULL}
    /\ panicked' \in BOOLEAN

LEMMA LocalMove ==
    ASSUME LocalTypes, NEW t \in Task, Moves(t)
    PROVE  LocalTypes' /\ OnlyMoves(t)
<1>1. pc' \in [Task -> Places] /\ \A u \in Task \ {t} : pc'[u] = pc[u]
  BY DEF LocalTypes, Moves
<1>2. goal' \in [Task -> Goals] /\ \A u \in Task \ {t} : goal'[u] = goal[u]
  BY DEF LocalTypes, Moves, Goals
<1>3. ino' \in [Task -> Inode \cup {NULL}] /\ \A u \in Task \ {t} : ino'[u] = ino[u]
  BY DEF LocalTypes, Moves
<1>4. empty' \in [Task -> Inode \cup {NULL}] /\ \A u \in Task \ {t} : empty'[u] = empty[u]
  BY DEF LocalTypes, Moves
<1>5. num' \in [Task -> Num \cup {0}] /\ \A u \in Task \ {t} : num'[u] = num[u]
  BY DEF LocalTypes, Moves
<1>6. idx' \in [Task -> 0..NR_INODE] /\ \A u \in Task \ {t} : idx'[u] = idx[u]
  BY DEF LocalTypes, Moves
<1>7. cpu' \in Task \cup {NULL} /\ panicked' \in BOOLEAN
  BY DEF Moves
<1> QED
  BY <1>1, <1>2, <1>3, <1>4, <1>5, <1>6, <1>7 DEF LocalTypes, OnlyMoves, Goals

\* What the invariant says of a task, with the types.
LEMMA TaskFacts ==
    ASSUME FilesInv, NEW t \in Task
    PROVE  /\ PlaceOK(t) /\ HasOK(t) /\ InodeTypes /\ LocalTypes
           /\ pc[t] \in Places /\ goal[t] \in Goals /\ num[t] \in Num \cup {0}
           /\ ino[t] \in Inode \cup {NULL} /\ empty[t] \in Inode \cup {NULL}
           /\ idx[t] \in 0..NR_INODE
           /\ NULL \notin Inode /\ NULL \notin Goals \ {NULL} /\ NULL \notin Places
           /\ 0 \notin Num
<1>1. PlaceOK(t) /\ HasOK(t) /\ InodeTypes /\ LocalTypes
  BY TypeParts DEF FilesInv
<1>2. NULL \notin Goals \ {NULL}
  BY DEF Goals
<1> QED
  BY <1>1, <1>2, NullNoItem, InodeAssumption DEF LocalTypes, Goals

LEMMA GoalsNotNull ==
    NULL # "user" /\ NULL # "iget" /\ NULL # "failed" /\ NULL # "sync"
  BY InodeAssumption DEF Places

LEMMA InodeKeep ==
    ASSUME FilesInv, NEW t \in Task, OnlyMoves(t), NEW x \in Inode,
           UNCHANGED <<i_num[x], i_dirt[x], data[x], disk>>,
           i_count'[x] = 0 => ~i_dirt[x] /\ ~i_lock'[x],
           Reading(t) /\ ino[t] = x => Reading(t)' /\ ino'[t] = x
    PROVE  InodeOK(x)'
<1>1. InodeOK(x)
  BY DEF FilesInv
<1>2. \A u \in Task \ {t} : (Reading(u)' <=> Reading(u)) /\ ino'[u] = ino[u]
  BY DEF OnlyMoves, Reading
<1>3. \A u \in Task : Reading(u) /\ ino[u] = x => Reading(u)' /\ ino'[u] = x
  BY <1>2
<1> HIDE DEF Reading
<1> QED
  BY <1>1, <1>3 DEF InodeOK

\* Nothing changes but who runs.
LEMMA StillInv ==
    ASSUME FilesInv, UNCHANGED <<table, pc, locals, fileVars>>,
           cpu' \in Task \cup {NULL}, panicked' \in BOOLEAN
    PROVE  FilesInv'
<1> DEFINE t == first
<1>0. t \in Task
  BY FilesAssumption
<1> HIDE DEF t
<1>1. /\ UNCHANGED <<i_num, i_count, i_dirt, i_lock, data, last_inode, disk>>
      /\ UNCHANGED <<pc, goal, ino, num, empty, idx>> /\ UNCHANGED fileVars
  BY DEF table, locals
<1>2. InodeTypes' /\ LocalTypes' /\ OneInodePerNumber'
  BY <1>1, TypeParts DEF FilesInv, InodeTypes, LocalTypes, OneInodePerNumber, NumbersKept
<1>3. OnlyMoves(t) /\ InodesMove(t)
  BY <1>1 DEF OnlyMoves, InodesMove
<1>4. /\ (Reading(t)' <=> Reading(t))
      /\ (Holding(t)' <=> Holding(t))
  BY <1>1 DEF Reading, Holding
<1>5. PlaceOK(t)' /\ HasOK(t)'
  <2>1. PlaceOK(t) /\ HasOK(t)
    BY <1>0 DEF FilesInv
  <2>2. UNCHANGED live
    BY <1>1 DEF fileVars
  <2>3. UNCHANGED fd
    BY <1>1 DEF fileVars
  <2> QED
    BY <1>1, <1>4, <2>1, <2>2, <2>3 DEF PlaceOK, HasOK
<1>6. ASSUME NEW x \in Inode
      PROVE  /\ i_count'[x] = i_count[x] + Ones(Uses(t, x)') - Ones(Uses(t, x))
             /\ InodeOK(x)'
  <2>1. i_count[x] \in Nat /\ InodeOK(x)
    BY TypeParts DEF FilesInv, InodeTypes
  <2>2. (Uses(t, x)' <=> Uses(t, x))
    BY <1>1 DEF Uses
  <2>3. InodeOK(x)'
    BY <1>0, <1>1, <1>3, <1>4, <2>1, InodeKeep DEF InodeOK
  <2> HIDE DEF Uses
  <2> QED
    BY <1>1, <2>1, <2>2, <2>3 DEF Ones
<1> QED
  BY <1>0, <1>1, <1>2, <1>3, <1>4, <1>5, <1>6, MoveInv

\* iput() locks a changed inode, to write it.
LEMMA IputLock ==
    ASSUME FilesInv, NEW t \in Task, OneInodePerNumber',
           pc[t] = "iput", ~i_lock[ino[t]], LastChanged(ino[t]),
           Lock(ino[t]), SleepTo(t, "write"), UNCHANGED fileVars,
           UNCHANGED <<i_num, i_count, i_dirt, data, last_inode, disk, locals, panicked>>
    PROVE  FilesInv'
<1> DEFINE x == ino[t]
<1>1. /\ PlaceOK(t) /\ HasOK(t) /\ InodeTypes /\ LocalTypes
      /\ x \in Inode /\ i_num[x] # 0 /\ i_count[x] # 0 /\ goal[t] # NULL
  BY TaskFacts, PlaceFacts DEF HasOK, PlaceOK, Works, LastChanged
<1> HIDE DEF x
<1>2. /\ i_lock' = [i_lock EXCEPT ![x] = TRUE] /\ pc' = [pc EXCEPT ![t] = "write"]
      /\ UNCHANGED <<goal, ino, num, empty, idx, panicked>> /\ cpu' = NULL
      /\ UNCHANGED <<i_num, i_count, i_dirt, data, last_inode, disk, live, fd>>
      /\ ~i_lock[x]
  BY DEF Lock, SleepTo, locals, fileVars, x
<1>3. Moves(t)
  BY <1>1, <1>2 DEF Moves, LocalTypes, Places
<1>4. LocalTypes' /\ OnlyMoves(t)
  BY <1>1, <1>3, LocalMove
<1>5. InodeTypes'
  BY <1>1, <1>2 DEF InodeTypes
<1>6. pc'[t] = "write"
  BY <1>1, <1>2 DEF LocalTypes
<1>7. PlaceOK(t)'
  BY <1>1, <1>2, <1>6 DEF PlaceOK, Works, Opens, Reading
<1>8. i_lock'[x] /\ \A y \in Inode \ {x} : i_lock'[y] = i_lock[y]
  BY <1>1, <1>2 DEF InodeTypes
<1>9. HasOK(t)'
  BY <1>1, <1>2, <1>6, <1>8 DEF HasOK, Holding, Reading, PlaceOK, x
<1>10. InodesMove(t)
  BY <1>1, <1>2, <1>8 DEF InodesMove, Touches
<1>11. \A y \in Inode : Uses(t, y)' <=> Uses(t, y)
  BY <1>2, <1>6 DEF Uses
<1>12. ~Reading(t) /\ ino'[t] = x
  BY <1>1, <1>2 DEF Reading, x
<1>13. ASSUME NEW y \in Inode
       PROVE  /\ i_count'[y] = i_count[y] + Ones(Uses(t, y)') - Ones(Uses(t, y))
              /\ InodeOK(y)'
  <2>1. i_count[y] \in Nat /\ InodeOK(y)
    BY <1>1 DEF FilesInv, InodeTypes
  <2>2. InodeOK(y)'
    BY <1>1, <1>2, <1>4, <1>8, <1>12, <2>1, InodeKeep DEF InodeOK
  <2>3. Uses(t, y)' <=> Uses(t, y)
    BY <1>11
  <2> HIDE DEF Uses
  <2> QED
    BY <1>2, <2>1, <2>2, <2>3 DEF Ones
<1> QED
  BY <1>2, <1>4, <1>5, <1>7, <1>9, <1>10, <1>12, <1>13, MoveInv DEF x

\* iput() lowers the count.
LEMMA IputLower ==
    ASSUME FilesInv, NEW t \in Task, OneInodePerNumber', UNCHANGED fileVars,
           pc[t] = "iput", ~i_lock[ino[t]], ~LastChanged(ino[t]),
           i_count' = [i_count EXCEPT ![ino[t]] = @ - 1],
           ino' = [ino EXCEPT ![t] = NULL], goal' = [goal EXCEPT ![t] = NULL],
           IF goal[t] = "user" THEN SleepTo(t, "user") ELSE Goto(t, goal[t]),
           UNCHANGED <<i_num, i_dirt, i_lock, data, last_inode, disk, num, empty, idx, panicked>>
    PROVE  FilesInv'
<1>0. PICK x \in Inode : x = ino[t]
  BY PlaceFacts DEF Works
<1>1. /\ PlaceOK(t) /\ HasOK(t) /\ InodeTypes /\ LocalTypes
      /\ i_num[x] # 0 /\ goal[t] \in {"user", "iget", "failed"}
      /\ empty[t] = NULL /\ NULL \notin Inode
      /\ \A y \in Inode : i_count[y] \in Nat
  BY <1>0, TaskFacts DEF HasOK, PlaceOK, Works, Goals, InodeTypes
<1>2. /\ i_count' = [i_count EXCEPT ![x] = @ - 1]
      /\ pc' = [pc EXCEPT ![t] = goal[t]] /\ cpu' \in {t, NULL}
      /\ UNCHANGED <<i_num, i_dirt, i_lock, data, last_inode, disk, live, fd>>
      /\ ~i_lock[x] /\ (i_count[x] = 1 => ~i_dirt[x])
  BY <1>0, <1>1 DEF SleepTo, Goto, fileVars, LastChanged
<1>3. Moves(t)
  BY <1>1, <1>2 DEF Moves, LocalTypes, Places, Goals
<1>4. LocalTypes' /\ OnlyMoves(t)
  BY <1>1, <1>3, LocalMove
<1>6. pc'[t] = goal[t] /\ goal'[t] = NULL /\ ino'[t] = NULL /\ empty'[t] = NULL
      /\ num'[t] = num[t]
  BY <1>1, <1>2 DEF LocalTypes
<1>7. PlaceOK(t)'
  BY <1>1, <1>2, <1>6, GoalsNotNull DEF PlaceOK, Works, Opens, Reading
<1>8. i_count'[x] = i_count[x] - 1 /\ \A y \in Inode \ {x} : i_count'[y] = i_count[y]
  BY <1>1, <1>2 DEF InodeTypes
<1>9. HasOK(t)'
  BY <1>1, <1>6 DEF HasOK, Holding, Reading, Works
<1>10. InodesMove(t)
  BY <1>1, <1>2, <1>8 DEF InodesMove, Touches, Holding
<1>11. Uses(t, x) /\ ~Uses(t, x)' /\ \A y \in Inode \ {x} : ~Uses(t, y) /\ ~Uses(t, y)'
  BY <1>0, <1>1, <1>6, GoalsNotNull DEF Uses
<1>12. i_count[x] > 0
  BY <1>1, <1>11, UserCounts
<1>5. InodeTypes'
  BY <1>1, <1>2, <1>12 DEF InodeTypes
<1>13. ~Reading(t) /\ ~Holding(t)'
  BY <1>1, <1>6 DEF Reading, Holding
<1>14. ASSUME NEW y \in Inode
       PROVE  i_count'[y] = i_count[y] + Ones(Uses(t, y)') - Ones(Uses(t, y))
  BY <1>1, <1>8, <1>11 DEF Ones
<1>15. ASSUME NEW y \in Inode PROVE InodeOK(y)'
  <2>1. InodeOK(y)
    BY DEF FilesInv
  <2> QED
    BY <1>1, <1>2, <1>4, <1>8, <1>12, <1>13, <2>1, InodeKeep DEF InodeOK
<1> QED
  BY <1>4, <1>5, <1>7, <1>9, <1>10, <1>13, <1>14, <1>15, MoveInv

LEMMA IputStep ==
    ASSUME FilesInv, NEW t \in Task, OneInodePerNumber', UNCHANGED fileVars, Iput(t)
    PROVE  FilesInv'
<1>1. pc[t] = "iput"
  BY DEF Iput, At
<1>2. CASE Sleep
  <2>1. cpu' \in Task \cup {NULL} /\ panicked' \in BOOLEAN
    BY <1>2, TaskFacts DEF Sleep, LocalTypes
  <2> QED
    BY <1>2, <2>1, StillInv DEF Sleep
<1>3. CASE ~Sleep
  BY <1>1, <1>3, IputLock, IputLower DEF Iput
<1> QED
  BY <1>2, <1>3

LEMMA WriteStep ==
    ASSUME FilesInv, NEW t \in Task, OneInodePerNumber', UNCHANGED fileVars, WriteInode(t)
    PROVE  FilesInv'
<1>0. PICK x \in Inode : x = ino[t]
  BY PlaceFacts DEF Works, WriteInode, At
<1>1. /\ PlaceOK(t) /\ HasOK(t) /\ InodeTypes /\ LocalTypes
      /\ i_num[x] # 0 /\ i_num[x] \in Num /\ i_lock[x] /\ goal[t] # NULL
      /\ pc[t] = "write" /\ \A y \in Inode : i_count[y] \in Nat
  BY <1>0, TaskFacts DEF HasOK, PlaceOK, Works, InodeTypes, WriteInode, At, Holding
<1>2. /\ disk' = [disk EXCEPT ![i_num[x]] = data[x]]
      /\ i_dirt' = [i_dirt EXCEPT ![x] = FALSE]
      /\ pc' = [pc EXCEPT ![t] = "written"] /\ cpu' = NULL
      /\ UNCHANGED <<goal, ino, num, empty, idx, panicked, live, fd>>
      /\ UNCHANGED <<i_num, i_count, i_lock, data, last_inode>>
  BY <1>0 DEF WriteInode, SleepTo, locals, fileVars
<1>3. Moves(t)
  BY <1>1, <1>2 DEF Moves, LocalTypes, Places
<1>4. LocalTypes' /\ OnlyMoves(t)
  BY <1>1, <1>3, LocalMove
<1>5. InodeTypes'
  BY <1>1, <1>2 DEF InodeTypes
<1>6. pc'[t] = "written"
  BY <1>1, <1>2 DEF LocalTypes
<1>7. PlaceOK(t)'
  BY <1>1, <1>2, <1>6 DEF PlaceOK, Works, Opens, Reading
<1>8. /\ ~i_dirt'[x] /\ \A y \in Inode \ {x} : i_dirt'[y] = i_dirt[y]
      /\ disk'[i_num[x]] = data[x]
      /\ \A n \in Num : n # i_num[x] => disk'[n] = disk[n]
  BY <1>1, <1>2 DEF InodeTypes
<1>9. HasOK(t)'
  BY <1>0, <1>1, <1>2, <1>6 DEF HasOK, Holding, Reading, PlaceOK
<1>10. InodesMove(t)
  BY <1>1, <1>2, <1>8 DEF InodesMove
<1>11. \A y \in Inode : Uses(t, y)' <=> Uses(t, y)
  BY <1>1, <1>2, <1>6 DEF Uses
<1>12. \A u \in Task : (Reading(u)' <=> Reading(u)) /\ ino'[u] = ino[u]
  BY <1>1, <1>2, <1>4, <1>6 DEF Reading, OnlyMoves
<1>13. ASSUME NEW y \in Inode
       PROVE  i_count'[y] = i_count[y] + Ones(Uses(t, y)') - Ones(Uses(t, y))
  <2>1. Uses(t, y)' <=> Uses(t, y)
    BY <1>11
  <2> HIDE DEF Uses
  <2> QED
    BY <1>1, <1>2, <2>1 DEF Ones
<1>14. ASSUME NEW y \in Inode PROVE InodeOK(y)'
  <2>1. InodeOK(y) /\ i_num[y] \in Num \cup {0} /\ InodeOK(x)
    BY <1>1 DEF FilesInv, InodeTypes
  <2>2. i_num[y] # 0 /\ y # x => i_num[y] # i_num[x]
    BY DEF FilesInv, NumbersKept, OneInodePerNumber
  <2>3. CASE y = x
    BY <1>1, <1>2, <1>8, <2>1, <2>3 DEF InodeOK
  <2>4. CASE y # x
    BY <1>1, <1>2, <1>8, <1>12, <2>1, <2>2, <2>4 DEF InodeOK
  <2> QED
    BY <2>3, <2>4
<1>15. Holding(t) /\ ino'[t] = ino[t]
  BY <1>1, <1>2 DEF Holding
<1> QED
  BY <1>4, <1>5, <1>7, <1>9, <1>10, <1>13, <1>14, <1>15, MoveInv

LEMMA WrittenStep ==
    ASSUME FilesInv, NEW t \in Task, OneInodePerNumber', UNCHANGED fileVars, Written(t)
    PROVE  FilesInv'
<1>0. PICK x \in Inode : x = ino[t]
  BY PlaceFacts DEF Works, Written, At
<1>1. /\ PlaceOK(t) /\ HasOK(t) /\ InodeTypes /\ LocalTypes
      /\ i_num[x] # 0 /\ i_lock[x] /\ goal[t] # NULL /\ empty[t] = NULL
      /\ pc[t] = "written" /\ \A y \in Inode : i_count[y] \in Nat
  BY <1>0, TaskFacts DEF HasOK, PlaceOK, Works, InodeTypes, Written, At, Holding
<1>2. /\ i_lock' = [i_lock EXCEPT ![x] = FALSE] /\ cpu' = t
      /\ \/ /\ goal[t] = "sync" /\ pc' = [pc EXCEPT ![t] = "sync"]
            /\ goal' = [goal EXCEPT ![t] = NULL] /\ ino' = [ino EXCEPT ![t] = NULL]
         \/ /\ goal[t] # "sync" /\ pc' = [pc EXCEPT ![t] = "iput"]
            /\ UNCHANGED <<goal, ino>>
      /\ UNCHANGED <<num, empty, idx, panicked, live, fd>>
      /\ UNCHANGED <<i_num, i_count, i_dirt, data, last_inode, disk>>
  BY <1>0 DEF Written, Goto, Unlock, fileVars
<1>3. Moves(t)
  BY <1>1, <1>2 DEF Moves, LocalTypes, Places, Goals
<1>4. LocalTypes' /\ OnlyMoves(t)
  BY <1>1, <1>3, LocalMove
<1>5. InodeTypes'
  BY <1>1, <1>2 DEF InodeTypes
<1>6. \/ goal[t] = "sync" /\ pc'[t] = "sync" /\ goal'[t] = NULL /\ ino'[t] = NULL
      \/ goal[t] # "sync" /\ pc'[t] = "iput" /\ goal'[t] = goal[t] /\ ino'[t] = x
  BY <1>0, <1>1, <1>2 DEF LocalTypes
<1>7. PlaceOK(t)'
  BY <1>0, <1>1, <1>2, <1>6, GoalsNotNull, NullNoItem DEF PlaceOK, Works, Opens, Reading
<1>8. ~i_lock'[x] /\ \A y \in Inode \ {x} : i_lock'[y] = i_lock[y]
  BY <1>1, <1>2 DEF InodeTypes
<1>9. HasOK(t)'
  BY <1>0, <1>1, <1>2, <1>6 DEF HasOK, Holding, Reading, PlaceOK, Works
<1>10. InodesMove(t)
  BY <1>0, <1>1, <1>2, <1>8 DEF InodesMove, Touches, Holding
<1>11. \A y \in Inode : Uses(t, y)' <=> Uses(t, y)
  BY <1>0, <1>1, <1>2, <1>6, NullNoItem DEF Uses
<1>12. ~Reading(t) /\ ~Holding(t)'
  BY <1>1, <1>6 DEF Reading, Holding
<1>13. ASSUME NEW y \in Inode
       PROVE  i_count'[y] = i_count[y] + Ones(Uses(t, y)') - Ones(Uses(t, y))
  <2>1. Uses(t, y)' <=> Uses(t, y)
    BY <1>11
  <2> HIDE DEF Uses
  <2> QED
    BY <1>1, <1>2, <2>1 DEF Ones
<1>14. ASSUME NEW y \in Inode PROVE InodeOK(y)'
  <2>1. InodeOK(y)
    BY DEF FilesInv
  <2> QED
    BY <1>1, <1>2, <1>4, <1>8, <1>12, <2>1, InodeKeep DEF InodeOK
<1> QED
  BY <1>4, <1>5, <1>7, <1>9, <1>10, <1>12, <1>13, <1>14, MoveInv

\* read_inode() has read the block, and unlocks.
LEMMA ReadDone ==
    ASSUME FilesInv, NEW t \in Task, OneInodePerNumber', UNCHANGED fileVars,
           pc[t] = "read", data' = [data EXCEPT ![ino[t]] = disk[i_num[ino[t]]]],
           Unlock(ino[t]), Goto(t, "got"),
           UNCHANGED <<i_num, i_count, i_dirt, last_inode, disk, locals, panicked>>
    PROVE  FilesInv'
<1>0. PICK x \in Inode : x = ino[t]
  BY PlaceFacts DEF Works
<1>1. /\ PlaceOK(t) /\ HasOK(t) /\ InodeTypes /\ LocalTypes
      /\ i_num[x] # 0 /\ i_num[x] \in Num /\ i_lock[x] /\ goal[t] = NULL /\ empty[t] = NULL
      /\ i_count[x] = 1 /\ ~i_dirt[x]
      /\ \A y \in Inode : i_count[y] \in Nat
  BY <1>0, TaskFacts DEF HasOK, PlaceOK, Works, InodeTypes, Holding, Reading
<1>2. /\ data' = [data EXCEPT ![x] = disk[i_num[x]]]
      /\ i_lock' = [i_lock EXCEPT ![x] = FALSE]
      /\ pc' = [pc EXCEPT ![t] = "got"] /\ cpu' = t
      /\ UNCHANGED <<goal, ino, num, empty, idx, panicked, live, fd>>
      /\ UNCHANGED <<i_num, i_count, i_dirt, last_inode, disk>>
  BY <1>0 DEF Goto, Unlock, locals, fileVars
<1>3. Moves(t)
  BY <1>1, <1>2 DEF Moves, LocalTypes, Places
<1>4. LocalTypes' /\ OnlyMoves(t)
  BY <1>1, <1>3, LocalMove
<1>5. InodeTypes'
  BY <1>1, <1>2 DEF InodeTypes
<1>6. pc'[t] = "got"
  BY <1>1, <1>2 DEF LocalTypes
<1>7. PlaceOK(t)'
  BY <1>1, <1>2, <1>6 DEF PlaceOK, Works, Opens, Reading
<1>8. /\ ~i_lock'[x] /\ \A y \in Inode \ {x} : i_lock'[y] = i_lock[y] /\ data'[y] = data[y]
      /\ data'[x] = disk[i_num[x]]
  BY <1>1, <1>2 DEF InodeTypes
<1>9. HasOK(t)'
  BY <1>0, <1>1, <1>2, <1>6 DEF HasOK, Holding, Reading, PlaceOK
<1>10. InodesMove(t)
  BY <1>0, <1>1, <1>2, <1>8 DEF InodesMove, Touches, Holding
<1>11. \A y \in Inode : Uses(t, y)' <=> Uses(t, y)
  BY <1>1, <1>2, <1>6 DEF Uses
<1>12. ~Holding(t)'
  BY <1>6 DEF Holding
<1>13. ASSUME NEW y \in Inode
       PROVE  i_count'[y] = i_count[y] + Ones(Uses(t, y)') - Ones(Uses(t, y))
  <2>1. Uses(t, y)' <=> Uses(t, y)
    BY <1>11
  <2> HIDE DEF Uses
  <2> QED
    BY <1>1, <1>2, <2>1 DEF Ones
<1>14. ASSUME NEW y \in Inode PROVE InodeOK(y)'
  <2>1. InodeOK(y)
    BY DEF FilesInv
  <2>2. CASE y = x
    BY <1>1, <1>2, <1>8, <2>2 DEF InodeOK
  <2>3. CASE y # x
    <3>1. ~(ino[t] = y)
      BY <1>0, <2>3
    <3> QED
      BY <1>1, <1>2, <1>4, <1>8, <2>1, <2>3, <3>1, InodeKeep DEF InodeOK
  <2> QED
    BY <2>2, <2>3
<1> QED
  BY <1>4, <1>5, <1>7, <1>9, <1>10, <1>12, <1>13, <1>14, MoveInv

LEMMA ReadStep ==
    ASSUME FilesInv, NEW t \in Task, OneInodePerNumber', UNCHANGED fileVars, ReadInode(t)
    PROVE  FilesInv'
<1>1. pc[t] = "read"
  BY DEF ReadInode, At
<1>2. CASE Panic
  <2>1. cpu' \in Task \cup {NULL} /\ panicked' \in BOOLEAN
    BY <1>2, TaskFacts DEF Panic, LocalTypes
  <2> QED
    BY <1>2, <2>1, StillInv DEF Panic
<1>3. CASE ~Panic
  BY <1>1, <1>3, ReadDone DEF ReadInode
<1> QED
  BY <1>2, <1>3

\* The steps that do nothing to the inodes.
LEMMA PlaceStep ==
    ASSUME FilesInv, NEW t \in Task, UNCHANGED <<table, fileVars>>, Moves(t),
           PlaceOK(t)', HasOK(t)', Holding(t)' => Holding(t) /\ ino'[t] = ino[t],
           \A x \in Inode : Uses(t, x)' <=> Uses(t, x),
           Reading(t) => Reading(t)' /\ ino'[t] = ino[t]
    PROVE  FilesInv'
<1>1. /\ UNCHANGED <<i_num, i_count, i_dirt, i_lock, data, last_inode, disk>>
      /\ UNCHANGED fileVars
  BY DEF table
<1>2. LocalTypes' /\ OnlyMoves(t)
  BY TaskFacts, LocalMove
<1>3. InodeTypes' /\ OneInodePerNumber'
  BY <1>1, TaskFacts DEF FilesInv, InodeTypes, NumbersKept, OneInodePerNumber
<1>4. InodesMove(t)
  BY <1>1 DEF InodesMove
<1>5. ASSUME NEW x \in Inode
      PROVE  /\ i_count'[x] = i_count[x] + Ones(Uses(t, x)') - Ones(Uses(t, x))
             /\ InodeOK(x)'
  <2>1. i_count[x] \in Nat /\ InodeOK(x)
    BY TaskFacts DEF FilesInv, InodeTypes
  <2>2. Uses(t, x)' <=> Uses(t, x)
    OBVIOUS
  <2>3. InodeOK(x)'
    BY <1>1, <1>2, <2>1, InodeKeep DEF InodeOK
  <2> HIDE DEF Uses
  <2> QED
    BY <1>1, <2>1, <2>2, <2>3 DEF Ones
<1> QED
  BY <1>1, <1>2, <1>3, <1>4, <1>5, MoveInv

LEMMA ReturnMoves ==
    ASSUME LocalTypes, NEW t \in Task, Return(t), UNCHANGED panicked
    PROVE  /\ Moves(t)
           /\ pc'[t] = "user" /\ goal'[t] = NULL /\ ino'[t] = NULL /\ num'[t] = 0
           /\ empty'[t] = NULL
<1>0. 0 \in 0..NR_INODE
  BY InodeAssumption
<1>1. /\ pc' = [pc EXCEPT ![t] = "user"] /\ cpu' = NULL
      /\ goal' = [goal EXCEPT ![t] = NULL] /\ ino' = [ino EXCEPT ![t] = NULL]
      /\ num' = [num EXCEPT ![t] = 0] /\ empty' = [empty EXCEPT ![t] = NULL]
      /\ idx' = [idx EXCEPT ![t] = 0]
  BY DEF Return, SleepTo
<1>2. Moves(t)
  BY <1>0, <1>1 DEF Moves, LocalTypes, Places, Goals
<1> QED
  BY <1>1, <1>2 DEF LocalTypes

\* sync_inodes() locks a changed inode, to write it.
LEMMA SyncLock ==
    ASSUME FilesInv, NEW t \in Task, OneInodePerNumber', UNCHANGED fileVars,
           pc[t] = "sync", idx[t] # NR_INODE, ~i_lock[idx[t]], i_dirt[idx[t]],
           Lock(idx[t]), idx' = [idx EXCEPT ![t] = idx[t] + 1],
           ino' = [ino EXCEPT ![t] = idx[t]], goal' = [goal EXCEPT ![t] = "sync"],
           SleepTo(t, "write"),
           UNCHANGED <<i_num, i_count, i_dirt, data, last_inode, disk, num, empty, panicked>>
    PROVE  FilesInv'
<1>0. PICK x \in Inode : x = idx[t]
  BY TaskFacts, InodeAssumption DEF Inode
<1>1. /\ PlaceOK(t) /\ HasOK(t) /\ InodeTypes /\ LocalTypes
      /\ i_num[x] # 0 /\ i_count[x] # 0 /\ ~i_lock[x] /\ i_dirt[x]
      /\ empty[t] = NULL /\ ino[t] = NULL /\ goal[t] = NULL
      /\ \A y \in Inode : i_count[y] \in Nat
      /\ idx[t] + 1 \in 0..NR_INODE
  <2>1. idx[t] + 1 \in 0..NR_INODE
    BY TaskFacts, InodeAssumption
  <2>2. InodeOK(x)
    BY DEF FilesInv
  <2>3. PlaceOK(t) /\ HasOK(t) /\ InodeTypes /\ LocalTypes
    BY TaskFacts
  <2> QED
    BY <1>0, <2>1, <2>2, <2>3 DEF PlaceOK, Works, InodeTypes, InodeOK
<1>2. /\ i_lock' = [i_lock EXCEPT ![x] = TRUE] /\ cpu' = NULL
      /\ pc' = [pc EXCEPT ![t] = "write"] /\ goal' = [goal EXCEPT ![t] = "sync"]
      /\ ino' = [ino EXCEPT ![t] = x] /\ idx' = [idx EXCEPT ![t] = idx[t] + 1]
      /\ UNCHANGED <<num, empty, panicked, live, fd>>
      /\ UNCHANGED <<i_num, i_count, i_dirt, data, last_inode, disk>>
  BY <1>0 DEF SleepTo, Lock, fileVars
<1>3. Moves(t)
  BY <1>1, <1>2 DEF Moves, LocalTypes, Places, Goals
<1>4. LocalTypes' /\ OnlyMoves(t)
  BY <1>1, <1>3, LocalMove
<1>5. InodeTypes'
  BY <1>1, <1>2 DEF InodeTypes
<1>6. pc'[t] = "write" /\ goal'[t] = "sync" /\ ino'[t] = x /\ empty'[t] = NULL
  BY <1>0, <1>1, <1>2 DEF LocalTypes
<1>7. PlaceOK(t)'
  BY <1>0, <1>1, <1>2, <1>6, GoalsNotNull, NullNoItem DEF PlaceOK, Works, Opens, Reading
<1>8. i_lock'[x] /\ \A y \in Inode \ {x} : i_lock'[y] = i_lock[y]
  BY <1>1, <1>2 DEF InodeTypes
<1>9. HasOK(t)'
  BY <1>1, <1>2, <1>6, <1>8, GoalsNotNull DEF HasOK, Reading
<1>10. InodesMove(t)
  BY <1>1, <1>2, <1>8 DEF InodesMove, Touches
<1>11. \A y \in Inode : ~Uses(t, y)' /\ ~Uses(t, y)
  BY <1>1, <1>2, <1>6, NullNoItem DEF Uses
<1>12. ~Reading(t) /\ ~i_lock[ino'[t]]
  BY <1>1, <1>6 DEF Reading
<1>13. ASSUME NEW y \in Inode
       PROVE  i_count'[y] = i_count[y] + Ones(Uses(t, y)') - Ones(Uses(t, y))
  <2>1. ~Uses(t, y)' /\ ~Uses(t, y)
    BY <1>11
  <2> HIDE DEF Uses
  <2> QED
    BY <1>1, <1>2, <2>1 DEF Ones
<1>14. ASSUME NEW y \in Inode PROVE InodeOK(y)'
  <2>1. InodeOK(y)
    BY DEF FilesInv
  <2> QED
    BY <1>1, <1>2, <1>4, <1>8, <1>12, <2>1, InodeKeep DEF InodeOK
<1> QED
  BY <1>4, <1>5, <1>7, <1>9, <1>10, <1>12, <1>13, <1>14, MoveInv

LEMMA SyncStep ==
    ASSUME FilesInv, NEW t \in Task, OneInodePerNumber', UNCHANGED fileVars, SyncInodes(t)
    PROVE  FilesInv'
<1>0. /\ PlaceOK(t) /\ HasOK(t) /\ LocalTypes /\ pc[t] = "sync"
      /\ ino[t] = NULL /\ goal[t] = NULL /\ empty[t] = NULL
      /\ idx[t] \in 0..NR_INODE /\ fd[t] = NULL /\ num[t] = 0
      /\ UNCHANGED <<live, fd>>
  BY TaskFacts, GoalsNotNull DEF SyncInodes, At, PlaceOK, Works, Opens, Reading, fileVars
<1>1. CASE Sleep
  <2>1. cpu' \in Task \cup {NULL} /\ panicked' \in BOOLEAN
    BY <1>0, <1>1 DEF Sleep, LocalTypes
  <2> QED
    BY <1>1, <2>1, StillInv DEF Sleep
<1>2. CASE Return(t) /\ UNCHANGED <<table, panicked>>
  <2>1. Moves(t)
    BY <1>0, <1>2, ReturnMoves
  <2>2. /\ pc'[t] = "user" /\ goal'[t] = NULL /\ ino'[t] = NULL /\ num'[t] = 0
        /\ empty'[t] = NULL
    BY <1>0, <1>2, ReturnMoves
  <2>3. PlaceOK(t)' /\ HasOK(t)' /\ ~Holding(t)' /\ ~Reading(t)
    BY <1>0, <2>2, GoalsNotNull DEF PlaceOK, HasOK, Works, Opens, Reading, Holding
  <2>4. \A x \in Inode : Uses(t, x)' <=> Uses(t, x)
    BY <1>0, <2>2, NullNoItem DEF Uses
  <2> QED
    BY <1>2, <2>1, <2>3, <2>4, PlaceStep
<1>3. CASE /\ idx[t] # NR_INODE
           /\ idx' = [idx EXCEPT ![t] = idx[t] + 1]
           /\ Goto(t, "sync")
           /\ UNCHANGED <<table, goal, ino, num, empty, panicked>>
  <2>0. idx[t] + 1 \in 0..NR_INODE
    BY <1>0, <1>3, InodeAssumption
  <2>1. Moves(t)
    BY <1>0, <1>3, <2>0 DEF Moves, LocalTypes, Places, Goto
  <2>2. /\ pc'[t] = "sync" /\ goal'[t] = NULL /\ ino'[t] = NULL /\ num'[t] = 0
        /\ empty'[t] = NULL
    BY <1>0, <1>3 DEF Goto, LocalTypes
  <2>3. PlaceOK(t)' /\ HasOK(t)' /\ ~Holding(t)' /\ ~Reading(t)
    BY <1>0, <2>2, GoalsNotNull DEF PlaceOK, HasOK, Works, Opens, Reading, Holding
  <2>4. \A x \in Inode : Uses(t, x)' <=> Uses(t, x)
    BY <1>0, <2>2, NullNoItem DEF Uses
  <2> QED
    BY <1>3, <2>1, <2>3, <2>4, PlaceStep
<1>4. CASE idx[t] # NR_INODE /\ ~i_lock[idx[t]] /\ i_dirt[idx[t]] /\ ~Sleep
  <2>1. /\ Lock(idx[t]) /\ idx' = [idx EXCEPT ![t] = idx[t] + 1]
        /\ ino' = [ino EXCEPT ![t] = idx[t]] /\ goal' = [goal EXCEPT ![t] = "sync"]
        /\ SleepTo(t, "write")
        /\ UNCHANGED <<i_num, i_count, i_dirt, data, last_inode, disk, num, empty, panicked>>
    BY <1>4 DEF SyncInodes
  <2> QED
    BY <1>0, <1>4, <2>1, SyncLock
<1> QED
  BY <1>1, <1>2, <1>3, <1>4 DEF SyncInodes

\* get_empty_inode() takes an inode that nobody has.
LEMMA TakeStep ==
    ASSUME FilesInv, NEW t \in Task, OneInodePerNumber', UNCHANGED fileVars,
           pc[t] = "iget", Free # {}, last_inode' = NextFree, Raise(NextFree),
           i_num' = [i_num EXCEPT ![NextFree] = 0], data' = [data EXCEPT ![NextFree] = Zero],
           empty' = [empty EXCEPT ![t] = NextFree], Goto(t, "scan"),
           UNCHANGED <<i_dirt, i_lock, disk, goal, ino, num, idx, panicked>>
    PROVE  FilesInv'
<1>0. PICK x \in Inode : x = NextFree /\ i_count[x] = 0
  BY NextFreeProps, TaskFacts DEF Free, InodeTypes
<1>1. /\ PlaceOK(t) /\ HasOK(t) /\ InodeTypes /\ LocalTypes
      /\ goal[t] = NULL /\ ino[t] = NULL /\ empty[t] = NULL
      /\ ~i_dirt[x] /\ ~i_lock[x]
      /\ \A y \in Inode : i_count[y] \in Nat
  <2>1. InodeOK(x) /\ PlaceOK(t) /\ HasOK(t) /\ InodeTypes /\ LocalTypes
    BY TaskFacts DEF FilesInv
  <2> QED
    BY <1>0, <2>1 DEF PlaceOK, Works, InodeTypes, InodeOK
<1>2. /\ i_count' = [i_count EXCEPT ![x] = @ + 1] /\ cpu' = t /\ last_inode' = x
      /\ i_num' = [i_num EXCEPT ![x] = 0] /\ data' = [data EXCEPT ![x] = Zero]
      /\ empty' = [empty EXCEPT ![t] = x] /\ pc' = [pc EXCEPT ![t] = "scan"]
      /\ UNCHANGED <<i_dirt, i_lock, disk, goal, ino, num, idx, panicked, live, fd>>
  BY <1>0 DEF Goto, Raise, fileVars
<1>3. Moves(t)
  BY <1>1, <1>2 DEF Moves, LocalTypes, Places
<1>4. LocalTypes' /\ OnlyMoves(t)
  BY <1>1, <1>3, LocalMove
<1>5. InodeTypes'
  BY <1>1, <1>2, InodeAssumption DEF InodeTypes
<1>6. pc'[t] = "scan" /\ empty'[t] = x
  BY <1>1, <1>2 DEF LocalTypes
<1>7. PlaceOK(t)'
  BY <1>1, <1>2, <1>6, NullNoItem DEF PlaceOK, Works, Opens, Reading
<1>8. /\ i_count'[x] = 1 /\ i_num'[x] = 0
      /\ \A y \in Inode \ {x} : /\ i_count'[y] = i_count[y] /\ i_num'[y] = i_num[y]
                                /\ data'[y] = data[y]
  BY <1>0, <1>1, <1>2 DEF InodeTypes
<1>9. HasOK(t)'
  BY <1>1, <1>2, <1>6, <1>8 DEF HasOK, Holding, Reading, Works
<1>10. InodesMove(t)
  BY <1>0, <1>1, <1>2, <1>8 DEF InodesMove, Touches, Holding
<1>11. Uses(t, x)' /\ ~Uses(t, x) /\ \A y \in Inode \ {x} : ~Uses(t, y) /\ ~Uses(t, y)'
  BY <1>1, <1>2, <1>6, NullNoItem DEF Uses
<1>12. ~Reading(t) /\ ~Holding(t)'
  BY <1>6 DEF Reading, Holding
<1>13. ASSUME NEW y \in Inode
       PROVE  i_count'[y] = i_count[y] + Ones(Uses(t, y)') - Ones(Uses(t, y))
  BY <1>0, <1>1, <1>8, <1>11 DEF Ones
<1>14. ASSUME NEW y \in Inode PROVE InodeOK(y)'
  <2>1. InodeOK(y)
    BY DEF FilesInv
  <2>2. CASE y = x
    BY <1>1, <1>2, <1>8, <2>2 DEF InodeOK
  <2>3. CASE y # x
    BY <1>1, <1>2, <1>4, <1>8, <1>12, <2>1, <2>3, InodeKeep DEF InodeOK
  <2> QED
    BY <2>2, <2>3
<1> QED
  BY <1>4, <1>5, <1>7, <1>9, <1>10, <1>12, <1>13, <1>14, MoveInv

LEMMA GetEmptyStep ==
    ASSUME FilesInv, NEW t \in Task, OneInodePerNumber', UNCHANGED fileVars, GetEmptyInode(t)
    PROVE  FilesInv'
<1>1. pc[t] = "iget"
  BY DEF GetEmptyInode, At
<1>2. CASE Panic
  <2>1. cpu' \in Task \cup {NULL} /\ panicked' \in BOOLEAN
    BY <1>2, TaskFacts DEF Panic, LocalTypes
  <2> QED
    BY <1>2, <2>1, StillInv DEF Panic
<1>3. CASE ~Panic
  BY <1>1, <1>3, TakeStep DEF GetEmptyInode
<1> QED
  BY <1>2, <1>3

\* The inode is in the table; iget() counts it and puts the empty one back.
LEMMA FoundStep ==
    ASSUME FilesInv, NEW t \in Task, OneInodePerNumber', UNCHANGED fileVars,
           pc[t] \in {"scan", "wait"}, NEW x \in Inode, i_num[x] = num[t], ~i_lock[x],
           Found(t, x)
    PROVE  FilesInv'
<1>0. PICK e \in Inode : e = empty[t]
  BY PlaceFacts
<1>1. /\ PlaceOK(t) /\ HasOK(t) /\ InodeTypes /\ LocalTypes
      /\ goal[t] = NULL /\ i_num[x] # 0 /\ i_num[e] = 0 /\ i_count[e] = 1
      /\ ~i_dirt[e] /\ ~i_lock[e] /\ x # e
      /\ \A y \in Inode : i_count[y] \in Nat
  <2>1. PlaceOK(t) /\ HasOK(t) /\ InodeTypes /\ LocalTypes /\ NULL \notin Inode
    BY TaskFacts
  <2>2. goal[t] = NULL /\ i_num[x] # 0 /\ empty[t] # NULL
    BY <2>1 DEF PlaceOK
  <2> QED
    BY <1>0, <2>1, <2>2 DEF HasOK, InodeTypes
<1>2. /\ i_count' = [i_count EXCEPT ![x] = @ + 1, ![e] = @ - 1] /\ cpu' = t
      /\ ino' = [ino EXCEPT ![t] = x] /\ num' = [num EXCEPT ![t] = 0]
      /\ empty' = [empty EXCEPT ![t] = NULL] /\ pc' = [pc EXCEPT ![t] = "got"]
      /\ UNCHANGED <<i_num, i_dirt, i_lock, data, last_inode, disk, goal, idx, panicked, live, fd>>
  BY <1>0 DEF Goto, Found, fileVars
<1>3. Moves(t)
  BY <1>1, <1>2 DEF Moves, LocalTypes, Places
<1>4. LocalTypes' /\ OnlyMoves(t)
  BY <1>1, <1>3, LocalMove
<1>6. pc'[t] = "got" /\ empty'[t] = NULL /\ ino'[t] = x /\ num'[t] = 0 /\ goal'[t] = NULL
  BY <1>1, <1>2 DEF LocalTypes
<1>7. PlaceOK(t)'
  BY <1>1, <1>2, <1>6, NullNoItem, GoalsNotNull DEF PlaceOK, Works, Opens, Reading
<1>8. /\ i_count'[x] = i_count[x] + 1 /\ i_count'[e] = 0
      /\ \A y \in Inode \ {x, e} : i_count'[y] = i_count[y]
  BY <1>1, <1>2 DEF InodeTypes
<1>5. InodeTypes'
  BY <1>1, <1>2, <1>8 DEF InodeTypes
<1>9. HasOK(t)'
  BY <1>1, <1>2, <1>6 DEF HasOK, Holding, Reading
<1>10. InodesMove(t)
  BY <1>0, <1>1, <1>2, <1>8 DEF InodesMove, Touches, Holding
<1>11. /\ Uses(t, x)' /\ ~Uses(t, x) /\ Uses(t, e) /\ ~Uses(t, e)'
       /\ \A y \in Inode \ {x, e} : ~Uses(t, y) /\ ~Uses(t, y)'
  BY <1>0, <1>1, <1>2, <1>6, NullNoItem, GoalsNotNull DEF Uses, PlaceOK, Works
<1>12. ~Reading(t) /\ ~Holding(t)'
  BY <1>6 DEF Reading, Holding
<1>13. ASSUME NEW y \in Inode
       PROVE  i_count'[y] = i_count[y] + Ones(Uses(t, y)') - Ones(Uses(t, y))
  BY <1>1, <1>8, <1>11 DEF Ones
<1>14. ASSUME NEW y \in Inode PROVE InodeOK(y)'
  <2>1. InodeOK(y)
    BY DEF FilesInv
  <2>2. i_count'[y] = 0 => ~i_dirt[y] /\ ~i_lock[y]
    BY <1>1, <1>8, <2>1 DEF InodeOK
  <2> QED
    BY <1>2, <1>4, <1>12, <2>2, InodeKeep
<1> QED
  BY <1>4, <1>5, <1>7, <1>9, <1>10, <1>12, <1>13, <1>14, MoveInv

\* The empty inode gets the number, and is read.
LEMMA NumberStep ==
    ASSUME FilesInv, NEW t \in Task, OneInodePerNumber', UNCHANGED fileVars,
           pc[t] = "scan", i_num' = [i_num EXCEPT ![empty[t]] = num[t]], Lock(empty[t]),
           ino' = [ino EXCEPT ![t] = empty[t]], empty' = [empty EXCEPT ![t] = NULL],
           num' = [num EXCEPT ![t] = 0], SleepTo(t, "read"),
           UNCHANGED <<i_count, i_dirt, data, last_inode, disk, goal, idx, panicked>>
    PROVE  FilesInv'
<1>0. PICK e \in Inode : e = empty[t]
  BY PlaceFacts
<1>1. /\ PlaceOK(t) /\ HasOK(t) /\ InodeTypes /\ LocalTypes
      /\ goal[t] = NULL /\ i_num[e] = 0 /\ i_count[e] = 1
      /\ ~i_dirt[e] /\ ~i_lock[e] /\ num[t] # 0 /\ num[t] \in Num \cup {0}
      /\ ino[t] = NULL
      /\ \A y \in Inode : i_count[y] \in Nat
  <2>1. PlaceOK(t) /\ HasOK(t) /\ InodeTypes /\ LocalTypes /\ NULL \notin Inode
        /\ num[t] \in Num \cup {0}
    BY TaskFacts
  <2>2. goal[t] = NULL /\ num[t] # 0 /\ empty[t] # NULL /\ ino[t] = NULL
    BY <2>1 DEF PlaceOK, Works
  <2> QED
    BY <1>0, <2>1, <2>2 DEF HasOK, InodeTypes
<1>2. /\ i_num' = [i_num EXCEPT ![e] = num[t]] /\ cpu' = NULL
      /\ i_lock' = [i_lock EXCEPT ![e] = TRUE]
      /\ ino' = [ino EXCEPT ![t] = e] /\ num' = [num EXCEPT ![t] = 0]
      /\ empty' = [empty EXCEPT ![t] = NULL] /\ pc' = [pc EXCEPT ![t] = "read"]
      /\ UNCHANGED <<i_count, i_dirt, data, last_inode, disk, goal, idx, panicked, live, fd>>
  BY <1>0 DEF SleepTo, Lock, fileVars
<1>3. Moves(t)
  BY <1>1, <1>2 DEF Moves, LocalTypes, Places
<1>4. LocalTypes' /\ OnlyMoves(t)
  BY <1>1, <1>3, LocalMove
<1>5. InodeTypes'
  BY <1>1, <1>2 DEF InodeTypes
<1>6. pc'[t] = "read" /\ empty'[t] = NULL /\ ino'[t] = e /\ num'[t] = 0 /\ goal'[t] = NULL
  BY <1>1, <1>2 DEF LocalTypes
<1>7. PlaceOK(t)'
  BY <1>1, <1>2, <1>6, NullNoItem, GoalsNotNull DEF PlaceOK, Works, Opens, Reading
<1>8. /\ i_num'[e] = num[t] /\ i_lock'[e]
      /\ \A y \in Inode \ {e} : i_num'[y] = i_num[y] /\ i_lock'[y] = i_lock[y]
  BY <1>1, <1>2 DEF InodeTypes
<1>9. HasOK(t)'
  BY <1>1, <1>2, <1>6, <1>8 DEF HasOK, Holding, Reading
<1>10. InodesMove(t)
  BY <1>0, <1>1, <1>2, <1>8 DEF InodesMove, Touches
<1>11. \A y \in Inode : Uses(t, y)' <=> Uses(t, y)
  BY <1>0, <1>1, <1>2, <1>6, NullNoItem, GoalsNotNull DEF Uses
<1>12. ~Reading(t) /\ ~i_lock[ino'[t]] /\ Reading(t)'
  BY <1>1, <1>6 DEF Reading
<1>13. ASSUME NEW y \in Inode
       PROVE  i_count'[y] = i_count[y] + Ones(Uses(t, y)') - Ones(Uses(t, y))
  <2>1. Uses(t, y)' <=> Uses(t, y)
    BY <1>11
  <2> HIDE DEF Uses
  <2> QED
    BY <1>1, <1>2, <2>1 DEF Ones
<1>14. ASSUME NEW y \in Inode PROVE InodeOK(y)'
  <2>1. InodeOK(y)
    BY DEF FilesInv
  <2>2. CASE y = e
    BY <1>1, <1>2, <1>6, <1>12, <2>2 DEF InodeOK
  <2>3. CASE y # e
    BY <1>1, <1>2, <1>4, <1>8, <1>12, <2>1, <2>3, InodeKeep DEF InodeOK
  <2> QED
    BY <2>2, <2>3
<1> QED
  BY <1>4, <1>5, <1>7, <1>9, <1>10, <1>12, <1>13, <1>14, MoveInv

LEMMA ScanStep ==
    ASSUME FilesInv, NEW t \in Task, OneInodePerNumber', UNCHANGED fileVars, Scan(t)
    PROVE  FilesInv'
<1>0. /\ PlaceOK(t) /\ HasOK(t) /\ LocalTypes /\ pc[t] = "scan"
      /\ ino[t] = NULL /\ goal[t] = NULL /\ empty[t] # NULL /\ num[t] # 0
      /\ fd[t] # NULL /\ t \in live
      /\ UNCHANGED <<live, fd>>
  BY TaskFacts DEF Scan, At, PlaceOK, Works, Opens, fileVars
<1>1. ASSUME NEW x \in Inode, i_num[x] = num[t], ~i_lock[x], Found(t, x) PROVE FilesInv'
  BY <1>0, <1>1, FoundStep
<1>2. ASSUME NEW x \in Inode, ino' = [ino EXCEPT ![t] = x], SleepTo(t, "wait"),
             UNCHANGED <<table, goal, num, empty, idx, panicked>>
      PROVE  FilesInv'
  <2>1. Moves(t)
    BY <1>0, <1>2 DEF Moves, LocalTypes, Places, SleepTo
  <2>2. /\ pc'[t] = "wait" /\ goal'[t] = NULL /\ ino'[t] = x /\ num'[t] = num[t]
        /\ empty'[t] = empty[t]
    BY <1>0, <1>2 DEF SleepTo, LocalTypes
  <2>3. PlaceOK(t)'
    BY <1>0, <2>2, NullNoItem DEF PlaceOK, Works, Opens
  <2>4. HasOK(t)'
    <3>1. UNCHANGED <<i_num, i_count, i_dirt, i_lock>>
      BY <1>2 DEF table
    <3> QED
      BY <1>0, <2>2, <3>1 DEF HasOK, Reading, Holding, Works
  <2>5. \A y \in Inode : Uses(t, y)' <=> Uses(t, y)
    BY <1>0, <2>2, NullNoItem DEF Uses
  <2>6. ~Holding(t)' /\ ~Reading(t)
    BY <1>0, <2>2 DEF Holding, Reading
  <2> QED
    BY <1>2, <2>1, <2>3, <2>4, <2>5, <2>6, PlaceStep
<1>3. ASSUME i_num' = [i_num EXCEPT ![empty[t]] = num[t]], Lock(empty[t]),
             ino' = [ino EXCEPT ![t] = empty[t]], empty' = [empty EXCEPT ![t] = NULL],
             num' = [num EXCEPT ![t] = 0], SleepTo(t, "read"),
             UNCHANGED <<i_count, i_dirt, data, last_inode, disk, goal, idx, panicked>>
      PROVE  FilesInv'
  BY <1>0, <1>3, NumberStep
<1> QED
  BY <1>1, <1>2, <1>3 DEF Scan, Having

LEMMA WaitStep ==
    ASSUME FilesInv, NEW t \in Task, OneInodePerNumber', UNCHANGED fileVars, WaitOnInode(t)
    PROVE  FilesInv'
<1>0. /\ PlaceOK(t) /\ HasOK(t) /\ LocalTypes /\ pc[t] = "wait"
      /\ ino[t] \in Inode /\ goal[t] = NULL /\ empty[t] # NULL /\ num[t] # 0
      /\ fd[t] # NULL /\ t \in live
      /\ UNCHANGED <<live, fd>>
  BY TaskFacts, PlaceFacts DEF WaitOnInode, At, PlaceOK, Works, Opens, fileVars
<1>1. CASE Sleep
  <2>1. cpu' \in Task \cup {NULL} /\ panicked' \in BOOLEAN
    BY <1>0, <1>1 DEF Sleep, LocalTypes
  <2> QED
    BY <1>1, <2>1, StillInv DEF Sleep
<1>2. CASE ~i_lock[ino[t]] /\ Still(ino[t], num[t]) /\ Found(t, ino[t])
  BY <1>0, <1>2, FoundStep DEF Still
<1>3. CASE /\ ino' = [ino EXCEPT ![t] = NULL] /\ Goto(t, "scan")
           /\ UNCHANGED <<table, goal, num, empty, idx, panicked>>
  <2>1. Moves(t)
    BY <1>0, <1>3 DEF Moves, LocalTypes, Places, Goto
  <2>2. /\ pc'[t] = "scan" /\ goal'[t] = NULL /\ ino'[t] = NULL /\ num'[t] = num[t]
        /\ empty'[t] = empty[t]
    BY <1>0, <1>3 DEF Goto, LocalTypes
  <2>3. PlaceOK(t)'
    BY <1>0, <2>2, NullNoItem DEF PlaceOK, Works, Opens
  <2>4. HasOK(t)'
    <3>1. UNCHANGED <<i_num, i_count, i_dirt, i_lock>>
      BY <1>3 DEF table
    <3> QED
      BY <1>0, <2>2, <3>1 DEF HasOK, Reading, Holding, Works
  <2>5. \A y \in Inode : Uses(t, y)' <=> Uses(t, y)
    BY <1>0, <2>2, NullNoItem DEF Uses
  <2>6. ~Holding(t)' /\ ~Reading(t)
    BY <1>0, <2>2 DEF Holding, Reading
  <2> QED
    BY <1>3, <2>1, <2>3, <2>4, <2>5, <2>6, PlaceStep
<1> QED
  BY <1>1, <1>2, <1>3 DEF WaitOnInode

LEMMA FindStep ==
    ASSUME FilesInv, NEW t \in Task, FindEntry(t)
    PROVE  FilesInv'
<1>0. /\ PlaceOK(t) /\ HasOK(t) /\ LocalTypes /\ pc[t] = "find"
      /\ ino[t] \in Inode /\ goal[t] = NULL /\ empty[t] = NULL /\ num[t] = 0
      /\ fd[t] # NULL /\ t \in live
      /\ UNCHANGED <<live, fd>>
  BY TaskFacts, PlaceFacts, GoalsNotNull DEF FindEntry, At, PlaceOK, Works, Opens, fileVars
<1>1. /\ pc' = [pc EXCEPT ![t] = "iput"] /\ cpu' = t
      /\ UNCHANGED <<table, ino, empty, idx, panicked, fileVars>>
      /\ \/ goal' = [goal EXCEPT ![t] = "failed"] /\ num' = num
         \/ /\ goal' = [goal EXCEPT ![t] = "iget"]
            /\ \E n \in Num : num' = [num EXCEPT ![t] = n]
  BY DEF FindEntry, Goto
<1>2. Moves(t)
  BY <1>0, <1>1 DEF Moves, LocalTypes, Places, Goals
<1>3. /\ pc'[t] = "iput" /\ ino'[t] = ino[t] /\ empty'[t] = NULL
      /\ \/ goal'[t] = "failed" /\ num'[t] = 0
         \/ goal'[t] = "iget" /\ num'[t] \in Num
  BY <1>0, <1>1 DEF LocalTypes
<1>4. PlaceOK(t)'
  BY <1>0, <1>3, NullNoItem, GoalsNotNull DEF PlaceOK, Works, Opens
<1>5. HasOK(t)'
  <2>1. UNCHANGED <<i_num, i_count, i_dirt, i_lock>>
    BY <1>1 DEF table
  <2> QED
    BY <1>0, <1>3, <2>1 DEF HasOK, Reading, Holding, Works
<1>6. \A y \in Inode : Uses(t, y)' <=> Uses(t, y)
  BY <1>0, <1>3, NullNoItem, GoalsNotNull DEF Uses
<1>7. ~Holding(t)' /\ ~Reading(t)
  BY <1>0, <1>3 DEF Holding, Reading
<1> QED
  BY <1>1, <1>2, <1>4, <1>5, <1>6, <1>7, PlaceStep

LEMMA SyncCallStep ==
    ASSUME FilesInv, NEW t \in Task, t \in live, Sync(t), UNCHANGED fileVars
    PROVE  FilesInv'
<1>0. /\ PlaceOK(t) /\ HasOK(t) /\ LocalTypes /\ pc[t] = "user"
      /\ ino[t] = NULL /\ goal[t] = NULL /\ empty[t] = NULL /\ num[t] = 0
      /\ fd[t] = NULL
      /\ UNCHANGED <<live, fd>>
  BY TaskFacts, GoalsNotNull DEF Sync, At, PlaceOK, Works, Opens, Reading, fileVars
<1>1. /\ pc' = [pc EXCEPT ![t] = "sync"] /\ cpu' = t
      /\ UNCHANGED <<goal, ino, num, empty, idx, panicked>> /\ UNCHANGED table
  BY DEF Sync, Goto, locals
<1>2. Moves(t)
  BY <1>0, <1>1 DEF Moves, LocalTypes, Places, Goals
<1>3. pc'[t] = "sync"
  BY <1>0, <1>1 DEF LocalTypes
<1>4. PlaceOK(t)'
  BY <1>0, <1>1, <1>3, GoalsNotNull DEF PlaceOK, Works, Opens, Reading
<1>5. HasOK(t)'
  BY <1>0, <1>1, <1>3 DEF HasOK, Reading, Holding, Works
<1>6. \A y \in Inode : Uses(t, y)' <=> Uses(t, y)
  BY <1>0, <1>1, <1>3, NullNoItem DEF Uses
<1>7. ~Holding(t)' /\ ~Reading(t)
  BY <1>0, <1>3 DEF Holding, Reading
<1> QED
  BY <1>1, <1>2, <1>4, <1>5, <1>6, <1>7, PlaceStep

LEMMA DeadlockStep ==
    ASSUME FilesInv, NEW t \in Task, SyncUnderLock(t), UNCHANGED fileVars
    PROVE  FilesInv'
<1>0. /\ PlaceOK(t) /\ HasOK(t) /\ LocalTypes /\ pc[t] \in {"read", "write"}
      /\ empty[t] = NULL /\ ino[t] \in Inode
      /\ UNCHANGED <<live, fd>>
  BY TaskFacts, PlaceFacts DEF SyncUnderLock, At, PlaceOK, Works, fileVars
<1>1. /\ pc' = [pc EXCEPT ![t] = "deadlock"] /\ cpu' = NULL
      /\ UNCHANGED <<goal, ino, num, empty, idx, panicked>> /\ UNCHANGED table
  BY DEF SyncUnderLock, SleepTo, locals
<1>2. Moves(t)
  BY <1>0, <1>1 DEF Moves, LocalTypes, Places, Goals
<1>3. pc'[t] = "deadlock"
  BY <1>0, <1>1 DEF LocalTypes
<1>4. PlaceOK(t)'
  BY <1>0, <1>1, <1>3, GoalsNotNull DEF PlaceOK, Works, Opens, Reading
<1>5. HasOK(t)'
  <2>1. UNCHANGED <<i_num, i_count, i_dirt, i_lock>>
    BY <1>1 DEF table
  <2> QED
    BY <1>0, <1>1, <1>3, <2>1 DEF HasOK, Reading, Holding, Works, PlaceOK
<1>6. \A y \in Inode : Uses(t, y)' <=> Uses(t, y)
  BY <1>0, <1>1, <1>3, NullNoItem DEF Uses
<1>7. Holding(t) /\ (Reading(t) => Reading(t)') /\ ino'[t] = ino[t]
  BY <1>0, <1>1, <1>3 DEF Holding, Reading, PlaceOK
<1> QED
  BY <1>1, <1>2, <1>4, <1>5, <1>6, <1>7, PlaceStep

LEMMA InodeStepInv ==
    ASSUME FilesInv, NEW t \in Task, OneInodePerNumber', UNCHANGED fileVars, InodeStep(t)
    PROVE  FilesInv'
  BY IputStep, WriteStep, WrittenStep, GetEmptyStep, ScanStep, WaitStep, ReadStep, SyncStep
  DEF InodeStep

-----------------------------------------------------------------------------
(***************************************************************************)
(* The steps of the files.                                                 *)
(***************************************************************************)
LEMMA FileMoveInv ==
    ASSUME FilesInv, NEW t \in Task, OnlyMoves(t), InodesMove(t),
           UNCHANGED <<i_num, i_lock, disk>>, live \subseteq live',
           \A u \in Task \ {t} : fd'[u] = fd[u],
           InodeTypes', LocalTypes', FileTypes', FileInv',
           \A f \in File : f_inode'[f] # NULL => i_num[f_inode'[f]] # 0,
           PlaceOK(t)', HasOK(t)', ~Holding(t)',
           \A x \in Inode : i_count'[x] = Total(x)' /\ InodeOK(x)'
    PROVE  FilesInv'
<1>1. TypeOK'
  BY TypeParts DEF TypeOK, InodeTypes, LocalTypes, FileTypes
<1>2. NumbersKept'
  BY DEF FilesInv, NumbersKept, OneInodePerNumber
<1>3. ASSUME NEW u \in Task PROVE PlaceOK(u)' /\ HasOK(u)'
  BY OthersKeep
<1>4. ASSUME NEW u \in Task, NEW w \in Task PROVE OneHolder(u, w)'
  <2>1. ASSUME NEW v \in Task \ {t}
        PROVE  UNCHANGED <<ino[v], pc[v]>> /\ (Holding(v)' <=> Holding(v))
    BY DEF OnlyMoves, Holding
  <2>2. OneHolder(u, w) /\ OneHolder(w, u)
    BY DEF FilesInv
  <2> QED
    BY <2>1, <2>2 DEF OneHolder
<1> QED
  BY <1>1, <1>2, <1>3, <1>4 DEF FilesInv

Same(a, b) == a = b
SetFd(t, d, g) == filp' = [filp EXCEPT ![t][d] = g]

LEMMA SetFdProps ==
    ASSUME FileTypes, NEW t \in Task, NEW d \in Fd, NEW g \in File \cup {NULL}, SetFd(t, d, g)
    PROVE  /\ filp' \in [Task -> [Fd -> File \cup {NULL}]]
           /\ filp'[t][d] = g
           /\ \A u \in Task : \A e \in Fd : (u # t \/ e # d) => filp'[u][e] = filp[u][e]
  BY DEF FileTypes, SetFd

\* How often a file is in the descriptors, when one descriptor changes.
LEMMA PairsStep ==
    ASSUME FileTypes, NEW t \in Task, NEW d \in Fd, NEW g \in File \cup {NULL},
           SetFd(t, d, g), NEW f \in File
    PROVE  /\ Pairs(f) \in Nat /\ Pairs(f)' \in Nat
           /\ Pairs(f)' = Pairs(f) + Ones(Same(g, f)) - Ones(Same(filp[t][d], f))
<1> DEFINE S == Task \X Fd
           G == [e \in S |-> filp[e[1]][e[2]]]
           H == [e \in S |-> filp'[e[1]][e[2]]]
           c == <<t, d>>
<1>1. filp \in [Task -> [Fd -> File \cup {NULL}]]
  BY DEF FileTypes
<1>2. /\ H[c] = g /\ G[c] = filp[t][d]
      /\ \A e \in S \ {c} : H[e] = G[e]
  BY SetFdProps
<1>3. Pairs(f) = CountOf(S, G, f) /\ Pairs(f)' = CountOf(S, H, f)
  BY DEF Pairs, CountOf
<1>4. IsFiniteSet(S) /\ c \in S
  BY Finite
<1> HIDE DEF S, G, H, c
<1>5. /\ CountOf(S, G, f) \in Nat /\ CountOf(S, H, f) \in Nat
      /\ CountOf(S, H, f) = CountOf(S, G, f) + Ones(Is(H, c, f)) - Ones(Is(G, c, f))
  BY <1>2, <1>4, CountStep
<1>6. Is(H, c, f) = Same(g, f) /\ Is(G, c, f) = Same(filp[t][d], f)
  BY <1>2 DEF Is, Same
<1> QED
  BY <1>3, <1>5, <1>6

\* A file in a descriptor is counted, and one in two descriptors twice.
LEMMA PairCounts ==
    ASSUME FilesInv, NEW t \in Task, NEW d \in Fd, NEW f \in File, filp[t][d] = f
    PROVE  /\ f_count[f] \in Nat /\ f_count[f] > 0
           /\ \A u \in Task : \A e \in Fd :
                 filp[u][e] = f /\ (u # t \/ e # d) => f_count[f] > 1
<1> DEFINE G == {e \in Task \X Fd : filp[e[1]][e[2]] = f}
<1>1. IsFiniteSet(G) /\ <<t, d>> \in G
  BY Finite, FS_Subset
<1>2. f_count[f] = Cardinality(G) /\ Cardinality(G) \in Nat
  BY <1>1, FS_CardinalityType DEF FilesInv, FileInv, Pairs
<1>3. Cardinality(G) # 0
  BY <1>1, FS_EmptySet
<1>4. ASSUME NEW u \in Task, NEW e \in Fd, filp[u][e] = f, u # t \/ e # d
      PROVE  Cardinality(G) > 1
  <2>1. <<u, e>> \in G \ {<<t, d>>} /\ IsFiniteSet(G \ {<<t, d>>})
    BY <1>1, <1>4, FS_Subset
  <2>2. Cardinality(G \ {<<t, d>>}) # 0 /\ Cardinality(G \ {<<t, d>>}) \in Nat
    BY <2>1, FS_EmptySet, FS_CardinalityType
  <2>3. Cardinality(G \ {<<t, d>>}) = Cardinality(G) - 1
    BY <1>1, FS_RemoveElement
  <2> QED
    BY <1>2, <2>2, <2>3
<1> HIDE DEF G
<1> QED
  BY <1>2, <1>3, <1>4

\* A file that is being opened is in one descriptor, that of the task that
\* opens it.
LEMMA OpeningFacts ==
    ASSUME FilesInv
    PROVE  /\ \A t \in Task : fd[t] # NULL => /\ fd[t] \in Fd /\ filp[t][fd[t]] \in File
                                              /\ filp[t][fd[t]] \in Opening
                                              /\ f_count[filp[t][fd[t]]] = 1
           /\ \A f \in Opening : f \in File /\ f_count[f] = 1
           /\ \A t \in Task : \A d \in Fd :
                 filp[t][d] \in Opening => fd[t] = d
<1>1. ASSUME NEW t \in Task, fd[t] # NULL
      PROVE  /\ fd[t] \in Fd /\ filp[t][fd[t]] \in File
             /\ filp[t][fd[t]] \in Opening
             /\ f_count[filp[t][fd[t]]] = 1
  <2>1. OpeningOK(t) /\ FileTypes
    BY TypeParts DEF FilesInv, FileInv
  <2>2. fd[t] \in Fd
    BY <1>1, <2>1 DEF FileTypes
  <2>3. filp[t][fd[t]] \in File
    BY <1>1, <2>1, <2>2 DEF FileTypes, OpeningOK
  <2> QED
    BY <1>1, <2>1, <2>2, <2>3 DEF OpeningOK, Opening
<1>2. ASSUME NEW f \in Opening PROVE \E t \in Task : fd[t] # NULL /\ f = filp[t][fd[t]]
  BY DEF Opening
<1>3. ASSUME NEW t \in Task, NEW d \in Fd, filp[t][d] \in Opening PROVE fd[t] = d
  <2>1. PICK u \in Task : fd[u] # NULL /\ filp[t][d] = filp[u][fd[u]]
    BY <1>2, <1>3
  <2>2. fd[u] \in Fd /\ filp[u][fd[u]] \in File /\ f_count[filp[u][fd[u]]] = 1
    BY <1>1, <2>1
  <2>3. ~(t # u \/ d # fd[u])
    BY <2>1, <2>2, PairCounts
  <2> QED
    BY <2>3
<1> QED
  BY <1>1, <1>2, <1>3

LEMMA CountIsPrimed == \A x : CountOf(File, f_inode, x)' = CountOf(File, f_inode', x)
  BY DEF CountOf

LEMMA FileCountStep ==
    ASSUME NEW f \in File, NEW x \in Inode, \A g \in File \ {f} : f_inode'[g] = f_inode[g]
    PROVE  /\ CountOf(File, f_inode, x) \in Nat /\ CountOf(File, f_inode, x)' \in Nat
           /\ CountOf(File, f_inode, x)' = CountOf(File, f_inode, x)
                  + Ones(Is(f_inode', f, x)) - Ones(Is(f_inode, f, x))
<1>1. IsFiniteSet(File)
  BY Finite
<1>2. CountOf(File, f_inode, x) \in Nat /\ CountOf(File, f_inode', x) \in Nat
  BY <1>1, CountStep
<1>3. ASSUME NEW g, NEW h, \A s \in File \ {f} : h[s] = g[s]
      PROVE  CountOf(File, h, x) = CountOf(File, g, x) + Ones(Is(h, f, x)) - Ones(Is(g, f, x))
  BY <1>1, <1>3, CountStep
<1> QED
  BY <1>2, <1>3, CountIsPrimed

\* The root, a file and a task count an inode together.
LEMMA TotalStep ==
    ASSUME FilesInv, NEW t \in Task, OnlyMoves(t), NEW f \in File, NEW x \in Inode,
           \A g \in File \ {f} : f_inode'[g] = f_inode[g], live' = live,
           i_count'[x] = i_count[x] + Ones(Is(f_inode', f, x)) - Ones(Is(f_inode, f, x))
                                    + Ones(Uses(t, x)') - Ones(Uses(t, x))
    PROVE  i_count'[x] = Total(x)'
<1>1. /\ CountOf(File, f_inode, x) \in Nat /\ CountOf(File, f_inode, x)' \in Nat
      /\ CountOf(File, f_inode, x)' = CountOf(File, f_inode, x)
             + Ones(Is(f_inode', f, x)) - Ones(Is(f_inode, f, x))
  BY FileCountStep
<1>2. /\ UsersOf(x) \in Nat /\ UsersOf(x)' \in Nat
      /\ UsersOf(x)' = UsersOf(x) + Ones(Uses(t, x)') - Ones(Uses(t, x))
  BY UsersStep
<1>3. RootRefs(x)' = RootRefs(x) /\ RootRefs(x) \in Nat /\ i_count[x] = Total(x)
  BY TotalTypes, TypeParts DEF RootRefs, FilesInv
<1>4. \A P : Ones(P) \in Nat
  BY OnesNat
<1> HIDE DEF CountOf, UsersOf, RootRefs, Ones, Uses
<1> QED
  BY <1>1, <1>2, <1>3, <1>4 DEF Total

LEMMA CellCounts ==
    ASSUME FilesInv, NEW t \in Task, NEW d \in Fd, NEW g \in File \cup {NULL},
           SetFd(t, d, g),
           \A f \in File : f_count'[f] = f_count[f] + Ones(Same(g, f)) - Ones(Same(filp[t][d], f))
    PROVE  \A f \in File : f_count'[f] = Pairs(f)'
<1> TAKE f \in File
<1>1. FileTypes /\ f_count[f] = Pairs(f)
  BY TypeParts DEF FilesInv, FileInv
<1>2. Pairs(f)' = Pairs(f) + Ones(Same(g, f)) - Ones(Same(filp[t][d], f))
  BY <1>1, PairsStep
<1> QED
  BY <1>1, <1>2

\* The descriptor and the file that open() takes.
LEMMA OpenFacts ==
    ASSUME FilesInv, NEW t \in Task, FreeFds(t) # {}, FreeFiles # {}
    PROVE  \E d \in Fd, f \in File :
               /\ d = Least(FreeFds(t)) /\ filp[t][d] = NULL
               /\ f = Least(FreeFiles) /\ f_count[f] = 0 /\ f_inode[f] = NULL
               /\ f \notin Opening
               /\ \A u \in Task : \A e \in Fd : filp[u][e] # f
<1>1. Least(FreeFds(t)) \in FreeFds(t) /\ Least(FreeFiles) \in FreeFiles
  BY LeastProps, NullNoItem DEF FreeFds, FreeFiles
<1>2. PICK d \in Fd, f \in File : /\ d = Least(FreeFds(t)) /\ filp[t][d] = NULL
                                  /\ f = Least(FreeFiles) /\ f_count[f] = 0
  BY <1>1 DEF FreeFds, FreeFiles
<1>3. f_inode[f] = NULL
  BY <1>2 DEF FilesInv, FileInv, FileOK, Opened
<1>4. f \notin Opening
  BY <1>2, OpeningFacts
<1>5. \A u \in Task : \A e \in Fd : filp[u][e] # f
  BY <1>2, PairCounts
<1> QED
  BY <1>2, <1>3, <1>4, <1>5

\* A task that is not in the kernel has nothing.
LEMMA UserFacts ==
    ASSUME FilesInv, NEW t \in Task, User(t)
    PROVE  /\ PlaceOK(t) /\ HasOK(t) /\ InodeTypes /\ LocalTypes /\ FileTypes
           /\ pc[t] = "user" /\ ino[t] = NULL /\ goal[t] = NULL /\ empty[t] = NULL
           /\ num[t] = 0 /\ fd[t] = NULL /\ t \in live
           /\ ~Holding(t) /\ ~Reading(t) /\ \A x \in Inode : ~Uses(t, x)
<1>1. /\ PlaceOK(t) /\ HasOK(t) /\ InodeTypes /\ LocalTypes /\ FileTypes
      /\ pc[t] = "user" /\ t \in live
  BY TaskFacts, TypeParts DEF User, At, FilesInv
<1>2. /\ ino[t] = NULL /\ goal[t] = NULL /\ empty[t] = NULL /\ num[t] = 0 /\ fd[t] = NULL
      /\ ~Holding(t) /\ ~Reading(t)
  BY <1>1, GoalsNotNull DEF PlaceOK, Works, Opens, Reading, Holding
<1> QED
  BY <1>1, <1>2, NullNoItem DEF Uses

\* A path of slashes ends in the root.
LEMMA OpenRootStep ==
    ASSUME FilesInv, NEW t \in Task, User(t), FreeFds(t) # {}, FreeFiles # {},
           filp' = [filp EXCEPT ![t][Least(FreeFds(t))] = Least(FreeFiles)],
           f_count' = [f_count EXCEPT ![Least(FreeFiles)] = @ + 1],
           f_inode' = [f_inode EXCEPT ![Least(FreeFiles)] = RootInode],
           Raise(RootInode), UNCHANGED <<pc, ino, fd, cpu>>,
           UNCHANGED <<i_num, i_dirt, i_lock, data, last_inode, disk, goal, num, empty,
                       idx, panicked, live, sane>>
    PROVE  FilesInv'
<1>1. PICK d \in Fd, f \in File :
          /\ d = Least(FreeFds(t)) /\ filp[t][d] = NULL
          /\ f = Least(FreeFiles) /\ f_count[f] = 0 /\ f_inode[f] = NULL
          /\ f \notin Opening
          /\ \A u \in Task : \A e \in Fd : filp[u][e] # f
  BY OpenFacts
<1>2. /\ SetFd(t, d, f) /\ f_count' = [f_count EXCEPT ![f] = @ + 1]
      /\ f_inode' = [f_inode EXCEPT ![f] = RootInode]
      /\ i_count' = [i_count EXCEPT ![RootInode] = @ + 1]
      /\ RootInode \in Inode /\ NULL \notin Inode /\ NULL \notin File
  BY <1>1, NullNoItem DEF Raise, SetFd
<1>3. /\ PlaceOK(t) /\ HasOK(t) /\ InodeTypes /\ LocalTypes /\ FileTypes
      /\ fd[t] = NULL /\ pc[t] = "user" /\ empty[t] = NULL
  BY UserFacts
<1>4. /\ f_count'[f] = 1 /\ \A g \in File \ {f} : f_count'[g] = f_count[g]
      /\ f_inode'[f] = RootInode /\ \A g \in File \ {f} : f_inode'[g] = f_inode[g]
      /\ \A g \in File : f_count[g] \in Nat
  BY <1>1, <1>2, <1>3 DEF FileTypes
<1>15. /\ filp' \in [Task -> [Fd -> File \cup {NULL}]] /\ filp'[t][d] = f
       /\ \A u \in Task : \A e \in Fd : (u # t \/ e # d) => filp'[u][e] = filp[u][e]
  BY <1>2, <1>3, SetFdProps
<1>5. FileTypes'
  <2>1. filp' \in [Task -> [Fd -> File \cup {NULL}]]
    BY <1>15
  <2>2. f_count' \in [File -> Nat] /\ f_inode' \in [File -> Inode \cup {NULL}]
    BY <1>2, <1>3, <1>4 DEF FileTypes
  <2> QED
    BY <1>3, <2>1, <2>2 DEF FileTypes
<1>6. InodeTypes' /\ LocalTypes'
  BY <1>2, <1>3 DEF InodeTypes, LocalTypes
<1>7. FileInv'
  <2>1. \A g \in File : f_count'[g] = Pairs(g)'
    <3>1. \A g \in File : f_count'[g] = f_count[g] + Ones(Same(f, g)) - Ones(Same(filp[t][d], g))
      BY <1>1, <1>2, <1>4 DEF Ones, Same
    <3> QED
      BY <1>2, <3>1, CellCounts
  <2>2. ASSUME NEW u \in Task, fd[u] # NULL
        PROVE  /\ fd[u] \in Fd /\ u # t /\ filp'[u][fd[u]] = filp[u][fd[u]]
               /\ filp[u][fd[u]] \in File \ {f} /\ f_count[filp[u][fd[u]]] = 1
    BY <1>1, <1>3, <1>15, <2>2, OpeningFacts
  <2>3. Opening' = Opening
    BY <2>2 DEF Opening
  <2>4. \A g \in File : FileOK(g)'
    <3> TAKE g \in File
    <3>1. FileOK(g)
      BY DEF FilesInv, FileInv
    <3> QED
      BY <1>1, <1>2, <1>4, <2>3, <3>1 DEF FileOK, Opened
  <2>5. \A u \in Task : OpeningOK(u)'
    <3> TAKE u \in Task
    <3>1. OpeningOK(u) /\ t \in live
      BY UserFacts DEF FilesInv, FileInv
    <3> QED
      BY <1>2, <1>4, <1>15, <2>2, <3>1 DEF OpeningOK
  <2> QED
    BY <2>1, <2>4, <2>5 DEF FileInv
<1>8. /\ i_count'[RootInode] = i_count[RootInode] + 1
      /\ \A y \in Inode \ {RootInode} : i_count'[y] = i_count[y]
      /\ \A y \in Inode : i_count[y] \in Nat
      /\ i_count[RootInode] > 1
  BY <1>2, <1>3, RefCounts DEF InodeTypes
<1>9. OnlyMoves(t)
  BY DEF OnlyMoves
<1>10. InodesMove(t)
  BY <1>3, <1>8 DEF InodesMove, Holding
<1>11. \A g \in File : f_inode'[g] # NULL => i_num[f_inode'[g]] # 0
  BY <1>4, NullNoItem DEF FilesInv, NumbersKept
<1>12. PlaceOK(t)' /\ HasOK(t)' /\ ~Holding(t)'
  BY <1>3 DEF PlaceOK, HasOK, Reading, Holding, Works
<1>13. ASSUME NEW x \in Inode PROVE i_count'[x] = Total(x)'
  <2>1. (Uses(t, x)' <=> Uses(t, x)) /\ i_count[x] \in Nat
    BY <1>8 DEF Uses
  <2>2. (Is(f_inode', f, x) <=> x = RootInode) /\ ~Is(f_inode, f, x)
    BY <1>1, <1>2, <1>4 DEF Is
  <2> HIDE DEF Uses, Is
  <2>3. i_count'[x] = i_count[x] + Ones(Is(f_inode', f, x)) - Ones(Is(f_inode, f, x))
                                + Ones(Uses(t, x)') - Ones(Uses(t, x))
    BY <1>8, <2>1, <2>2 DEF Ones
  <2> QED
    BY <1>4, <1>9, <2>3, TotalStep
<1>14. ASSUME NEW x \in Inode PROVE InodeOK(x)'
  <2>1. InodeOK(x)
    BY DEF FilesInv
  <2> QED
    BY <1>8, <1>9, <2>1, InodeKeep DEF InodeOK, Reading
<1> QED
  BY <1>5, <1>6, <1>7, <1>9, <1>10, <1>11, <1>12, <1>13, <1>14, FileMoveInv

\* The search for the first name of a path.
LEMMA OpenFindStep ==
    ASSUME FilesInv, NEW t \in Task, User(t), FreeFds(t) # {}, FreeFiles # {},
           filp' = [filp EXCEPT ![t][Least(FreeFds(t))] = Least(FreeFiles)],
           f_count' = [f_count EXCEPT ![Least(FreeFiles)] = @ + 1],
           Raise(RootInode), ino' = [ino EXCEPT ![t] = RootInode],
           fd' = [fd EXCEPT ![t] = Least(FreeFds(t))],
           SleepTo(t, "find"), UNCHANGED f_inode,
           UNCHANGED <<i_num, i_dirt, i_lock, data, last_inode, disk, goal, num, empty,
                       idx, panicked, live, sane>>
    PROVE  FilesInv'
<1>1. PICK d \in Fd, f \in File :
          /\ d = Least(FreeFds(t)) /\ filp[t][d] = NULL
          /\ f = Least(FreeFiles) /\ f_count[f] = 0 /\ f_inode[f] = NULL
          /\ f \notin Opening
          /\ \A u \in Task : \A e \in Fd : filp[u][e] # f
  BY OpenFacts
<1>2. /\ SetFd(t, d, f) /\ f_count' = [f_count EXCEPT ![f] = @ + 1]
      /\ fd' = [fd EXCEPT ![t] = d] /\ ino' = [ino EXCEPT ![t] = RootInode]
      /\ pc' = [pc EXCEPT ![t] = "find"] /\ cpu' = NULL
      /\ i_count' = [i_count EXCEPT ![RootInode] = @ + 1]
      /\ RootInode \in Inode /\ NULL \notin Inode /\ NULL \notin File /\ NULL \notin Fd
  BY <1>1, NullNoItem DEF Raise, SetFd, SleepTo
<1>3. /\ PlaceOK(t) /\ HasOK(t) /\ InodeTypes /\ LocalTypes /\ FileTypes
      /\ fd[t] = NULL /\ pc[t] = "user" /\ empty[t] = NULL /\ goal[t] = NULL
      /\ num[t] = 0 /\ t \in live /\ ~Reading(t) /\ \A x \in Inode : ~Uses(t, x)
  BY UserFacts
<1>4. /\ f_count'[f] = 1 /\ \A g \in File \ {f} : f_count'[g] = f_count[g]
      /\ fd'[t] = d /\ \A u \in Task \ {t} : fd'[u] = fd[u]
      /\ \A g \in File : f_count[g] \in Nat
  BY <1>1, <1>2, <1>3 DEF FileTypes
<1>15. /\ filp' \in [Task -> [Fd -> File \cup {NULL}]] /\ filp'[t][d] = f
       /\ \A u \in Task : \A e \in Fd : (u # t \/ e # d) => filp'[u][e] = filp[u][e]
  BY <1>2, <1>3, SetFdProps
<1>5. FileTypes'
  <2>1. f_count' \in [File -> Nat] /\ fd' \in [Task -> Fd \cup {NULL}]
    BY <1>2, <1>3, <1>4 DEF FileTypes
  <2> QED
    BY <1>3, <1>15, <2>1 DEF FileTypes
<1>16. Moves(t)
  BY <1>2, <1>3 DEF Moves, LocalTypes, Places
<1>9. LocalTypes' /\ OnlyMoves(t)
  BY <1>3, <1>16, LocalMove
<1>6. InodeTypes'
  BY <1>2, <1>3 DEF InodeTypes
<1>7. FileInv'
  <2>1. \A g \in File : f_count'[g] = Pairs(g)'
    <3>1. \A g \in File : f_count'[g] = f_count[g] + Ones(Same(f, g)) - Ones(Same(filp[t][d], g))
      BY <1>1, <1>2, <1>4 DEF Ones, Same
    <3> QED
      BY <1>2, <3>1, CellCounts
  <2>2. ASSUME NEW u \in Task \ {t}, fd[u] # NULL
        PROVE  /\ fd[u] \in Fd /\ filp'[u][fd[u]] = filp[u][fd[u]]
               /\ filp[u][fd[u]] \in File \ {f} /\ f_count[filp[u][fd[u]]] = 1
    BY <1>1, <1>3, <1>15, <2>2, OpeningFacts
  <2>3. \A g \in File : g \in Opening' <=> g \in Opening \/ g = f
    <3>1. Opening = {filp[u][fd[u]] : u \in {v \in Task \ {t} : fd[v] # NULL}}
      BY <1>3 DEF Opening
    <3>2. Opening' = {filp'[u][fd'[u]] : u \in {v \in Task : fd'[v] # NULL}}
      BY DEF Opening
    <3>3. f \in Opening'
      BY <1>2, <1>4, <1>15, <3>2
    <3>4. ASSUME NEW g \in Opening PROVE g \in Opening'
      BY <1>4, <2>2, <3>1, <3>2
    <3>5. ASSUME NEW g \in Opening', g # f PROVE g \in Opening
      <4>1. PICK u \in Task : fd'[u] # NULL /\ g = filp'[u][fd'[u]]
        BY <3>2
      <4>2. u # t
        BY <1>4, <1>15, <3>5, <4>1
      <4> QED
        BY <1>4, <2>2, <3>1, <4>1, <4>2
    <3> QED
      BY <3>3, <3>4, <3>5
  <2>4. \A g \in File : FileOK(g)'
    <3> TAKE g \in File
    <3>1. FileOK(g)
      BY DEF FilesInv, FileInv
    <3> QED
      BY <1>1, <1>4, <2>3, <3>1 DEF FileOK, Opened
  <2>5. \A u \in Task : OpeningOK(u)'
    <3> TAKE u \in Task
    <3>1. OpeningOK(u)
      BY DEF FilesInv, FileInv
    <3> QED
      BY <1>2, <1>3, <1>4, <1>15, <2>2, <3>1 DEF OpeningOK
  <2> QED
    BY <2>1, <2>4, <2>5 DEF FileInv
<1>8. /\ i_count'[RootInode] = i_count[RootInode] + 1
      /\ \A y \in Inode \ {RootInode} : i_count'[y] = i_count[y]
      /\ \A y \in Inode : i_count[y] \in Nat
      /\ i_count[RootInode] > 1
  BY <1>2, <1>3, RefCounts DEF InodeTypes
<1>10. InodesMove(t)
  BY <1>3, <1>8 DEF InodesMove, Holding
<1>11. \A g \in File : f_inode'[g] # NULL => i_num[f_inode'[g]] # 0
  BY DEF FilesInv, NumbersKept
<1>17. pc'[t] = "find" /\ ino'[t] = RootInode
  BY <1>2, <1>3 DEF LocalTypes
<1>12. PlaceOK(t)' /\ HasOK(t)' /\ ~Holding(t)'
  <2>1. i_num[RootInode] # 0
    BY NullNoItem DEF FilesInv, NumbersKept
  <2>2. PlaceOK(t)'
    BY <1>2, <1>3, <1>4, <1>17, GoalsNotNull DEF PlaceOK, Reading, Works, Opens
  <2> QED
    BY <1>3, <1>17, <2>1, <2>2 DEF HasOK, Reading, Holding, Works
<1>13. ASSUME NEW x \in Inode PROVE i_count'[x] = Total(x)'
  <2>1. (Uses(t, x)' <=> x = RootInode) /\ ~Uses(t, x) /\ i_count[x] \in Nat
    BY <1>2, <1>3, <1>8, <1>17, GoalsNotNull DEF Uses
  <2>2. Is(f_inode', f, x) <=> Is(f_inode, f, x)
    BY DEF Is
  <2> HIDE DEF Uses, Is
  <2>3. i_count'[x] = i_count[x] + Ones(Is(f_inode', f, x)) - Ones(Is(f_inode, f, x))
                                + Ones(Uses(t, x)') - Ones(Uses(t, x))
    BY <1>8, <2>1, <2>2 DEF Ones
  <2> QED
    BY <1>9, <2>3, TotalStep
<1>14. ASSUME NEW x \in Inode PROVE InodeOK(x)'
  <2>1. InodeOK(x)
    BY DEF FilesInv
  <2> QED
    BY <1>3, <1>8, <1>9, <2>1, InodeKeep DEF InodeOK
<1> QED
  BY <1>4, <1>5, <1>6, <1>7, <1>9, <1>10, <1>11, <1>12, <1>13, <1>14, FileMoveInv

LEMMA OpenStep ==
    ASSUME FilesInv, NEW t \in Task, Open(t) PROVE FilesInv'
<1>1. CASE UNCHANGED <<pc, ino, fd, cpu>>
           /\ f_inode' = [f_inode EXCEPT ![Least(FreeFiles)] = RootInode]
  BY <1>1, OpenRootStep DEF Open
<1>2. CASE /\ ino' = [ino EXCEPT ![t] = RootInode]
           /\ fd' = [fd EXCEPT ![t] = Least(FreeFds(t))]
           /\ SleepTo(t, "find")
           /\ UNCHANGED f_inode
  BY <1>2, OpenFindStep DEF Open
<1> QED
  BY <1>1, <1>2 DEF Open

\* open() is done with its file.
LEMMA OpeningGone ==
    ASSUME FilesInv, NEW t \in Task, NEW f \in File, fd[t] # NULL, f = filp[t][fd[t]],
           fd'[t] = NULL,
           \A u \in Task \ {t} : fd'[u] = fd[u] /\ \A e \in Fd : filp'[u][e] = filp[u][e]
    PROVE  /\ \A g \in File : g \in Opening' <=> g \in Opening /\ g # f
           /\ \A u \in Task \ {t} : fd[u] # NULL => filp[u][fd[u]] \in File \ {f}
<1>1. ASSUME NEW u \in Task \ {t}, fd[u] # NULL
      PROVE  fd[u] \in Fd /\ filp'[u][fd[u]] = filp[u][fd[u]] /\ filp[u][fd[u]] \in File
             /\ filp[u][fd[u]] # f
  <2>1. fd[u] \in Fd /\ filp[u][fd[u]] \in File /\ f_count[filp[u][fd[u]]] = 1 /\ fd[t] \in Fd
        /\ f_count[f] = 1
    BY <1>1, OpeningFacts
  <2> QED
    BY <2>1, PairCounts
<1>2. /\ Opening' = {filp'[u][fd'[u]] : u \in {v \in Task : fd'[v] # NULL}}
      /\ Opening = {filp[u][fd[u]] : u \in {v \in Task : fd[v] # NULL}}
  BY DEF Opening
<1>3. ASSUME NEW g \in Opening' PROVE g \in Opening /\ g # f
  <2>1. PICK u \in Task : fd'[u] # NULL /\ g = filp'[u][fd'[u]]
    BY <1>2
  <2> QED
    BY <1>1, <1>2, <2>1
<1>4. ASSUME NEW g \in Opening, g # f PROVE g \in Opening'
  <2>1. PICK u \in Task : fd[u] # NULL /\ g = filp[u][fd[u]]
    BY <1>2
  <2>2. u # t
    BY <1>4, <2>1
  <2> QED
    BY <1>1, <1>2, <2>1, <2>2
<1> QED
  BY <1>1, <1>3, <1>4

LEMMA OpeningSame ==
    ASSUME FilesInv, NEW t \in Task, fd[t] = NULL, fd' = fd,
           \A u \in Task \ {t} : \A e \in Fd : filp'[u][e] = filp[u][e]
    PROVE  Opening' = Opening
<1>1. ASSUME NEW u \in Task, fd[u] # NULL PROVE fd[u] \in Fd /\ u # t
  BY <1>1, OpeningFacts
<1> QED
  BY <1>1 DEF Opening

\* The inode becomes the file's.
LEMMA GotDone ==
    ASSUME FilesInv, NEW t \in Task, NEW f \in File, pc[t] = "got", f = filp[t][fd[t]],
           f_inode' = [f_inode EXCEPT ![f] = ino[t]], UNCHANGED sane,
           f_count' = [f_count EXCEPT ![f] = 1],
           fd' = [fd EXCEPT ![t] = NULL], Return(t),
           UNCHANGED <<table, panicked, filp, live>>
    PROVE  FilesInv'
<1>1. /\ PlaceOK(t) /\ HasOK(t) /\ InodeTypes /\ LocalTypes /\ FileTypes
      /\ NULL \notin Inode /\ NULL \notin Fd
  BY TaskFacts, NullNoItem, TypeParts DEF FilesInv
<1>2. /\ fd[t] # NULL /\ ino[t] \in Inode /\ empty[t] = NULL /\ t \in live
      /\ ~Reading(t) /\ ~Holding(t) /\ i_num[ino[t]] # 0 /\ goal[t] # "sync"
  <2>1. fd[t] # NULL /\ empty[t] = NULL /\ t \in live /\ goal[t] # "sync"
    BY <1>1, GoalsNotNull DEF PlaceOK, Opens
  <2>2. ino[t] \in Inode /\ i_num[ino[t]] # 0
    BY <1>1, PlaceFacts DEF Works, HasOK
  <2> QED
    BY <2>1, <2>2 DEF Reading, Holding
<1> PICK x0 \in Inode : x0 = ino[t]
  BY <1>2
<1>3. /\ UNCHANGED <<i_num, i_count, i_dirt, i_lock, data, last_inode, disk>>
      /\ UNCHANGED <<filp, live>>
      /\ fd' = [fd EXCEPT ![t] = NULL] /\ f_inode' = [f_inode EXCEPT ![f] = x0]
  BY DEF table
<1>4. /\ LocalTypes' /\ OnlyMoves(t) /\ pc'[t] = "user" /\ goal'[t] = NULL
      /\ ino'[t] = NULL /\ num'[t] = 0 /\ empty'[t] = NULL
  BY <1>1, ReturnMoves, LocalMove
<1>5. fd[t] \in Fd /\ f \in Opening /\ f_count[f] = 1 /\ f_inode[f] = NULL
  <2>1. fd[t] \in Fd /\ f \in Opening /\ f_count[f] = 1
    BY <1>2, OpeningFacts
  <2> QED
    BY <2>1 DEF FilesInv, FileInv, FileOK, Opened
<1>6. /\ f_count' = f_count
      /\ f_inode'[f] = x0 /\ \A g \in File \ {f} : f_inode'[g] = f_inode[g]
      /\ fd'[t] = NULL /\ \A u \in Task \ {t} : fd'[u] = fd[u]
  BY <1>1, <1>3, <1>5 DEF FileTypes
<1>7. FileTypes'
  <2>1. fd' \in [Task -> Fd \cup {NULL}] /\ f_inode' \in [File -> Inode \cup {NULL}]
    BY <1>1, <1>3 DEF FileTypes
  <2> QED
    BY <1>1, <1>3, <1>6, <2>1 DEF FileTypes
<1>8. InodeTypes'
  BY <1>1, <1>3 DEF InodeTypes
<1>9. FileInv'
  <2>1. \A g \in File : Pairs(g)' = Pairs(g)
    BY DEF Pairs
  <2>2. \A g \in File : f_count'[g] = Pairs(g)'
    BY <1>6, <2>1 DEF FilesInv, FileInv
  <2>3. \A g \in File : g \in Opening' <=> g \in Opening /\ g # f
    BY <1>2, <1>3, <1>6, OpeningGone
  <2>4. \A g \in File : FileOK(g)'
    <3> TAKE g \in File
    <3>1. FileOK(g)
      BY DEF FilesInv, FileInv
    <3> QED
      BY <1>1, <1>5, <1>6, <2>3, <3>1 DEF FileOK, Opened
  <2>5. \A u \in Task : OpeningOK(u)'
    BY <1>3, <1>6 DEF FilesInv, FileInv, OpeningOK
  <2> QED
    BY <2>2, <2>4, <2>5 DEF FileInv
<1>10. InodesMove(t)
  BY <1>3 DEF InodesMove
<1>11. \A g \in File : f_inode'[g] # NULL => i_num[f_inode'[g]] # 0
  BY <1>2, <1>6 DEF FilesInv, NumbersKept
<1>12. PlaceOK(t)' /\ HasOK(t)' /\ ~Holding(t)'
  <2>1. ~Reading(t)' /\ ~Holding(t)'
    BY <1>4 DEF Reading, Holding
  <2>2. PlaceOK(t)'
    BY <1>3, <1>4, <1>6, <2>1, GoalsNotNull DEF PlaceOK, Works, Opens
  <2> QED
    BY <1>4, <2>1, <2>2 DEF HasOK, Works
<1>13. ASSUME NEW x \in Inode PROVE i_count'[x] = Total(x)'
  <2>1. (Uses(t, x) <=> x = x0) /\ ~Uses(t, x)' /\ i_count[x] \in Nat
    BY <1>1, <1>2, <1>4 DEF Uses, InodeTypes
  <2>2. (Is(f_inode', f, x) <=> x = x0) /\ ~Is(f_inode, f, x)
    BY <1>1, <1>5, <1>6 DEF Is
  <2> HIDE DEF Uses, Is
  <2>3. i_count'[x] = i_count[x] + Ones(Is(f_inode', f, x)) - Ones(Is(f_inode, f, x))
                                + Ones(Uses(t, x)') - Ones(Uses(t, x))
    BY <1>3, <2>1, <2>2 DEF Ones
  <2>4. OnlyMoves(t) /\ live' = live /\ \A g \in File \ {f} : f_inode'[g] = f_inode[g]
    BY <1>3, <1>4, <1>6
  <2> QED
    BY ONLY FilesInv, <2>3, <2>4, TotalStep
<1>14. ASSUME NEW x \in Inode PROVE InodeOK(x)'
  <2>1. InodeOK(x)
    BY DEF FilesInv
  <2> QED
    BY <1>2, <1>3, <1>4, <2>1, InodeKeep DEF InodeOK
<1> QED
  BY <1>3, <1>4, <1>6, <1>7, <1>8, <1>9, <1>10, <1>11, <1>12, <1>13, <1>14, FileMoveInv

\* open() gives back its descriptor and its file.
LEMMA FailedStep ==
    ASSUME FilesInv, NEW t \in Task, Failed(t)
    PROVE  FilesInv'
<1>1. /\ PlaceOK(t) /\ HasOK(t) /\ InodeTypes /\ LocalTypes /\ FileTypes
      /\ NULL \notin Inode /\ NULL \notin Fd /\ NULL \notin File /\ pc[t] = "failed"
  BY TaskFacts, NullNoItem, TypeParts DEF FilesInv, Failed, At
<1>2. /\ fd[t] # NULL /\ ino[t] = NULL /\ empty[t] = NULL /\ t \in live
      /\ ~Reading(t) /\ ~Holding(t)
  BY <1>1 DEF PlaceOK, Opens, Works, Reading, Holding
<1>5. /\ fd[t] \in Fd /\ filp[t][fd[t]] \in File /\ filp[t][fd[t]] \in Opening
      /\ f_count[filp[t][fd[t]]] = 1
  BY <1>2, OpeningFacts
<1> PICK d \in Fd, f \in File : d = fd[t] /\ f = filp[t][d]
  BY <1>5
<1>3. /\ UNCHANGED <<i_num, i_count, i_dirt, i_lock, data, last_inode, disk>>
      /\ UNCHANGED <<f_inode, live, sane>> /\ SetFd(t, d, NULL)
      /\ fd' = [fd EXCEPT ![t] = NULL] /\ f_count' = [f_count EXCEPT ![f] = 0]
  BY DEF table, Failed, SetFd
<1>4. /\ LocalTypes' /\ OnlyMoves(t) /\ pc'[t] = "user" /\ goal'[t] = NULL
      /\ ino'[t] = NULL /\ num'[t] = 0 /\ empty'[t] = NULL
  BY <1>1, ReturnMoves, LocalMove DEF Failed
<1>15. f_inode[f] = NULL
  BY <1>5 DEF FilesInv, FileInv, FileOK, Opened
<1>6. /\ f_count'[f] = 0 /\ f_count[f] = 1
      /\ \A g \in File \ {f} : f_count'[g] = f_count[g]
      /\ \A g \in File : f_count[g] \in Nat
      /\ fd'[t] = NULL /\ \A u \in Task \ {t} : fd'[u] = fd[u]
      /\ filp'[t][d] = NULL /\ filp' \in [Task -> [Fd -> File \cup {NULL}]]
      /\ \A u \in Task : \A e \in Fd : (u # t \/ e # d) => filp'[u][e] = filp[u][e]
  BY <1>1, <1>3, <1>5, SetFdProps DEF FileTypes
<1>7. FileTypes'
  <2>1. fd' \in [Task -> Fd \cup {NULL}] /\ f_count' \in [File -> Nat]
    BY <1>1, <1>3 DEF FileTypes
  <2> QED
    BY <1>1, <1>3, <1>6, <2>1 DEF FileTypes
<1>8. InodeTypes'
  BY <1>1, <1>3 DEF InodeTypes
<1>9. FileInv'
  <2>2. \A g \in File : f_count'[g] = Pairs(g)'
    <3>1. \A g \in File : f_count'[g] = f_count[g] + Ones(Same(NULL, g)) - Ones(Same(filp[t][d], g))
      BY <1>1, <1>6 DEF Ones, Same
    <3> QED
      BY <1>3, <3>1, CellCounts
  <2>3. /\ \A g \in File : g \in Opening' <=> g \in Opening /\ g # f
        /\ \A u \in Task \ {t} : fd[u] # NULL => filp[u][fd[u]] \in File \ {f}
    BY <1>2, <1>6, OpeningGone
  <2>4. \A g \in File : FileOK(g)'
    <3> TAKE g \in File
    <3>1. FileOK(g)
      BY DEF FilesInv, FileInv
    <3> QED
      BY <1>3, <1>6, <1>15, <2>3, <3>1 DEF FileOK, Opened
  <2>5. \A u \in Task : OpeningOK(u)'
    <3> TAKE u \in Task
    <3>1. OpeningOK(u) /\ (fd[u] # NULL => fd[u] \in Fd)
      BY OpeningFacts DEF FilesInv, FileInv
    <3> QED
      BY <1>2, <1>3, <1>6, <2>3, <3>1 DEF OpeningOK
  <2> QED
    BY <2>2, <2>4, <2>5 DEF FileInv
<1>10. InodesMove(t)
  BY <1>3 DEF InodesMove
<1>11. \A g \in File : f_inode'[g] # NULL => i_num[f_inode'[g]] # 0
  BY <1>3 DEF FilesInv, NumbersKept
<1>12. PlaceOK(t)' /\ HasOK(t)' /\ ~Holding(t)'
  <2>1. ~Reading(t)' /\ ~Holding(t)'
    BY <1>4 DEF Reading, Holding
  <2>2. PlaceOK(t)'
    BY <1>3, <1>4, <1>6, <2>1, GoalsNotNull DEF PlaceOK, Works, Opens
  <2> QED
    BY <1>4, <2>1, <2>2 DEF HasOK, Works
<1>13. ASSUME NEW x \in Inode PROVE i_count'[x] = Total(x)'
  <2>1. ~Uses(t, x) /\ ~Uses(t, x)' /\ i_count[x] \in Nat
    BY <1>1, <1>2, <1>4 DEF Uses, InodeTypes
  <2>2. Is(f_inode', f, x) <=> Is(f_inode, f, x)
    BY <1>3 DEF Is
  <2> HIDE DEF Uses, Is
  <2>3. i_count'[x] = i_count[x] + Ones(Is(f_inode', f, x)) - Ones(Is(f_inode, f, x))
                                + Ones(Uses(t, x)') - Ones(Uses(t, x))
    BY <1>3, <2>1, <2>2 DEF Ones
  <2> QED
    BY <1>3, <1>4, <2>3, TotalStep
<1>14. ASSUME NEW x \in Inode PROVE InodeOK(x)'
  <2>1. InodeOK(x)
    BY DEF FilesInv
  <2> QED
    BY <1>2, <1>3, <1>4, <2>1, InodeKeep DEF InodeOK
<1> QED
  BY <1>3, <1>4, <1>6, <1>7, <1>8, <1>9, <1>10, <1>11, <1>12, <1>13, <1>14, FileMoveInv

LEMMA GotStep ==
    ASSUME FilesInv, NEW t \in Task, Got(t), sane'
    PROVE  FilesInv'
<1>1. /\ PlaceOK(t) /\ HasOK(t) /\ InodeTypes /\ LocalTypes
      /\ NULL \notin Inode /\ t \in Task /\ pc[t] = "got"
  BY TaskFacts DEF Got, At
<1>2. /\ ino[t] # NULL /\ ino[t] \in Inode /\ empty[t] = NULL /\ goal[t] = NULL /\ num[t] = 0 /\ fd[t] # NULL
      /\ t \in live /\ i_num[ino[t]] # 0 /\ ~Reading(t) /\ ~Holding(t)
  <2>1. empty[t] = NULL /\ goal[t] = NULL /\ num[t] = 0 /\ fd[t] # NULL /\ t \in live
    BY <1>1, GoalsNotNull DEF PlaceOK, Opens
  <2>2. ino[t] \in Inode /\ i_num[ino[t]] # 0
    BY <1>1, PlaceFacts DEF Works, HasOK
  <2> QED
    BY <1>1, <2>1, <2>2 DEF Reading, Holding
<1>3. CASE /\ goal' = [goal EXCEPT ![t] = "failed"] /\ Goto(t, "iput")
           /\ UNCHANGED <<table, panicked, filp, live, ino, num, empty, idx, f_count, f_inode, fd, sane>>
  <2>1. UNCHANGED <<table, fileVars>> /\ pc' = [pc EXCEPT ![t] = "iput"]
        /\ UNCHANGED <<ino, num, empty, idx>> /\ cpu' = t /\ UNCHANGED panicked
        /\ UNCHANGED <<i_num, i_lock, fd, live>>
    BY <1>3 DEF fileVars, Goto, table
  <2>2. Moves(t) /\ pc'[t] = "iput" /\ goal'[t] = "failed"
    BY <1>1, <1>3, <2>1 DEF Moves, LocalTypes, Places, Goals
  <2>3. ~Reading(t)' /\ ~Holding(t)'
    BY <2>2 DEF Reading, Holding
  <2>4. PlaceOK(t)'
    BY <1>2, <2>1, <2>2, <2>3, GoalsNotNull DEF PlaceOK, Opens, Works
  <2>5. HasOK(t)'
    BY <1>2, <2>1, <2>3 DEF HasOK
  <2>6. \A x \in Inode : Uses(t, x)' <=> Uses(t, x)
    BY <1>1, <1>2, <2>1, <2>2, GoalsNotNull DEF Uses
  <2> QED
    BY <1>2, <2>1, <2>2, <2>3, <2>4, <2>5, <2>6, PlaceStep
<1>4. CASE /\ SleepTo(t, "find")
           /\ UNCHANGED <<table, panicked, filp, live, goal, ino, num, empty, idx, f_count, f_inode, fd, sane>>
  <2>1. UNCHANGED <<table, fileVars>> /\ pc' = [pc EXCEPT ![t] = "find"]
        /\ UNCHANGED <<goal, ino, num, empty, idx>> /\ cpu' = NULL /\ UNCHANGED panicked
        /\ UNCHANGED <<i_num, i_lock, fd, live>>
    BY <1>4 DEF fileVars, SleepTo, table
  <2>2. Moves(t) /\ pc'[t] = "find"
    BY <1>1, <2>1 DEF Moves, LocalTypes, Places, Goals
  <2>3. ~Reading(t)' /\ ~Holding(t)'
    BY <2>2 DEF Reading, Holding
  <2>4. PlaceOK(t)'
    BY <1>2, <2>1, <2>2, <2>3, GoalsNotNull DEF PlaceOK, Opens, Works
  <2>5. HasOK(t)'
    BY <1>2, <2>1, <2>3 DEF HasOK
  <2>6. \A x \in Inode : Uses(t, x)' <=> Uses(t, x)
    BY <1>1, <1>2, <2>1, <2>2, GoalsNotNull DEF Uses
  <2> QED
    BY <1>2, <2>1, <2>2, <2>3, <2>4, <2>5, <2>6, PlaceStep
<1>5. CASE /\ f_inode' = [f_inode EXCEPT ![filp[t][fd[t]]] = ino[t]] /\ UNCHANGED sane
           /\ f_count' = [f_count EXCEPT ![filp[t][fd[t]]] = 1]
           /\ fd' = [fd EXCEPT ![t] = NULL] /\ Return(t)
           /\ UNCHANGED <<table, panicked, filp, live>>
  <2>1. PICK f \in File : f = filp[t][fd[t]]
    BY <1>2, OpeningFacts
  <2> QED
    BY <1>1, <1>5, <2>1, GotDone
<1> QED
  BY <1>3, <1>4, <1>5 DEF Got

\* A descriptor changes, and every open file stays open.
LEMMA CellStep ==
    ASSUME FilesInv, NEW t \in Task, NEW d \in Fd, NEW h \in File \cup {NULL}, User(t),
           SetFd(t, d, h), f_count' \in [File -> Nat],
           \A g \in File : /\ f_count'[g] = f_count[g] + Ones(Same(h, g))
                                                       - Ones(Same(filp[t][d], g))
                           /\ f_count'[g] > 0 <=> f_count[g] > 0
                           /\ g \in Opening => f_count'[g] = f_count[g],
           UNCHANGED <<table, pc, locals, cpu, panicked, f_inode, fd, live, sane>>
    PROVE  FilesInv'
<1>1. /\ PlaceOK(t) /\ HasOK(t) /\ InodeTypes /\ LocalTypes /\ FileTypes
      /\ fd[t] = NULL /\ pc[t] = "user" /\ empty[t] = NULL
      /\ NULL \notin Inode /\ NULL \notin Fd /\ NULL \notin File /\ t \in live
  BY UserFacts, NullNoItem
<1>2. /\ UNCHANGED <<i_num, i_count, i_dirt, i_lock, data, last_inode, disk>>
      /\ UNCHANGED <<pc, goal, ino, num, empty, idx, cpu, panicked>>
      /\ UNCHANGED <<f_inode, fd, live, sane>>
  BY DEF table, locals
<1>4. /\ filp' \in [Task -> [Fd -> File \cup {NULL}]]
      /\ \A u \in Task : \A e \in Fd : (u # t \/ e # d) => filp'[u][e] = filp[u][e]
  BY <1>1, SetFdProps
<1>5. FileTypes'
  BY <1>1, <1>2, <1>4 DEF FileTypes
<1>6. InodeTypes' /\ LocalTypes'
  BY <1>1, <1>2 DEF InodeTypes, LocalTypes
<1>7. FileInv'
  <2>1. \A g \in File : f_count'[g] = Pairs(g)'
    BY CellCounts
  <2>2. Opening' = Opening
    BY <1>1, <1>2, <1>4, OpeningSame
  <2>3. \A g \in File : FileOK(g)'
    <3> TAKE g \in File
    <3>1. FileOK(g)
      BY DEF FilesInv, FileInv
    <3> QED
      BY <1>2, <2>2, <3>1 DEF FileOK, Opened
  <2>4. \A u \in Task : OpeningOK(u)'
    <3> TAKE u \in Task
    <3>1. /\ OpeningOK(u)
          /\ fd[u] # NULL => /\ fd[u] \in Fd /\ f_count[filp[u][fd[u]]] = 1
                             /\ filp[u][fd[u]] \in File /\ filp[u][fd[u]] \in Opening
      BY OpeningFacts DEF FilesInv, FileInv
    <3> QED
      BY <1>1, <1>2, <1>4, <3>1 DEF OpeningOK
  <2> QED
    BY <2>1, <2>3, <2>4 DEF FileInv
<1>8. OnlyMoves(t) /\ InodesMove(t)
  BY <1>2 DEF OnlyMoves, InodesMove
<1>9. \A g \in File : f_inode'[g] # NULL => i_num[f_inode'[g]] # 0
  BY <1>2 DEF FilesInv, NumbersKept
<1>10. PlaceOK(t)' /\ HasOK(t)' /\ ~Holding(t)'
  BY <1>1, <1>2 DEF PlaceOK, HasOK, Reading, Holding, Works
<1>11. ASSUME NEW x \in Inode PROVE i_count'[x] = Total(x)'
  <2>1. i_count'[x] = i_count[x] /\ Total(x)' = Total(x)
    BY <1>2 DEF Total, CountOf, UsersOf, Uses, RootRefs
  <2> QED
    BY <2>1 DEF FilesInv
<1>12. ASSUME NEW x \in Inode PROVE InodeOK(x)'
  <2>1. InodeOK(x) /\ ~Reading(t)
    BY UserFacts DEF FilesInv
  <2> QED
    BY <1>2, <1>8, <2>1, InodeKeep DEF InodeOK
<1> QED
  BY <1>2, <1>5, <1>6, <1>7, <1>8, <1>9, <1>10, <1>11, <1>12, FileMoveInv

LEMMA CloseSome ==
    ASSUME FilesInv, NEW t \in Task, NEW d \in Fd, NEW f \in File, User(t), f = filp[t][d],
           SetFd(t, d, NULL), f_count' = [f_count EXCEPT ![f] = @ - 1], f_count[f] # 1,
           UNCHANGED <<table, pc, locals, cpu, panicked, f_inode, fd, live, sane>>
    PROVE  FilesInv'
<1>1. f_count[f] \in Nat /\ f_count[f] > 1 /\ FileTypes /\ NULL \notin File
  BY PairCounts, UserFacts, NullNoItem
<1>2. f \notin Opening
  BY OpeningFacts
<1>3. /\ f_count' \in [File -> Nat] /\ f_count'[f] = f_count[f] - 1
      /\ \A g \in File \ {f} : f_count'[g] = f_count[g]
      /\ \A g \in File : f_count[g] \in Nat
  BY <1>1 DEF FileTypes
<1>4. ASSUME NEW g \in File
      PROVE  /\ f_count'[g] = f_count[g] + Ones(Same(NULL, g)) - Ones(Same(filp[t][d], g))
             /\ f_count'[g] > 0 <=> f_count[g] > 0
             /\ g \in Opening => f_count'[g] = f_count[g]
  BY <1>1, <1>2, <1>3 DEF Ones, Same
<1> QED
  BY <1>3, <1>4, CellStep

LEMMA DupStep ==
    ASSUME FilesInv, NEW t \in Task, NEW d \in Fd, Dup(t, d) PROVE FilesInv'
<1>1. PICK e \in Fd, f \in File : /\ e = Least(FreeFds(t)) /\ filp[t][e] = NULL
                                  /\ f = filp[t][d]
  <2>1. Least(FreeFds(t)) \in FreeFds(t)
    BY LeastProps, NullNoItem DEF FreeFds, Dup
  <2>2. FileTypes /\ filp[t][d] # NULL
    BY UserFacts DEF Dup
  <2>3. filp[t][d] \in File
    BY <2>2 DEF FileTypes
  <2> QED
    BY <2>1, <2>3 DEF FreeFds
<1>2. /\ User(t) /\ SetFd(t, e, f) /\ f_count' = [f_count EXCEPT ![f] = @ + 1]
      /\ UNCHANGED <<table, pc, locals, cpu, panicked, f_inode, fd, live, sane>>
  BY <1>1 DEF Dup, SetFd, inodeVars
<1>3. f_count[f] \in Nat /\ f_count[f] > 0 /\ FileTypes /\ NULL \notin File /\ fd[t] = NULL
      /\ NULL \notin Fd
  BY <1>1, <1>2, PairCounts, UserFacts, NullNoItem
<1>4. f \notin Opening
  BY <1>1, <1>3, OpeningFacts
<1>5. /\ f_count' \in [File -> Nat] /\ f_count'[f] = f_count[f] + 1
      /\ \A g \in File \ {f} : f_count'[g] = f_count[g]
      /\ \A g \in File : f_count[g] \in Nat
  BY <1>2, <1>3 DEF FileTypes
<1>6. ASSUME NEW g \in File
      PROVE  /\ f_count'[g] = f_count[g] + Ones(Same(f, g)) - Ones(Same(filp[t][e], g))
             /\ f_count'[g] > 0 <=> f_count[g] > 0
             /\ g \in Opening => f_count'[g] = f_count[g]
  BY <1>1, <1>3, <1>4, <1>5 DEF Ones, Same
<1> QED
  BY <1>2, <1>5, <1>6, CellStep

\* The last descriptor of a file is closed: the task puts its inode back.
LEMMA CloseLast ==
    ASSUME FilesInv, NEW t \in Task, NEW d \in Fd, NEW f \in File, User(t), f = filp[t][d],
           SetFd(t, d, NULL), f_count' = [f_count EXCEPT ![f] = @ - 1], f_count[f] = 1,
           f_inode' = [f_inode EXCEPT ![f] = NULL], ino' = [ino EXCEPT ![t] = f_inode[f]],
           goal' = [goal EXCEPT ![t] = "user"], Goto(t, "iput"),
           UNCHANGED <<table, num, empty, idx, panicked, fd, live, sane>>
    PROVE  FilesInv'
<1>1. /\ PlaceOK(t) /\ HasOK(t) /\ InodeTypes /\ LocalTypes /\ FileTypes
      /\ fd[t] = NULL /\ pc[t] = "user" /\ empty[t] = NULL /\ num[t] = 0 /\ goal[t] = NULL
      /\ NULL \notin Inode /\ NULL \notin Fd /\ NULL \notin File /\ t \in live
      /\ ~Reading(t) /\ ino[t] = NULL
  BY UserFacts, NullNoItem
<1>3. f \notin Opening
  BY <1>1, OpeningFacts
<1>13. f_inode[f] \in Inode
  BY <1>1, <1>3 DEF FilesInv, FileInv, FileOK, Opened, FileTypes
<1> PICK x0 \in Inode : x0 = f_inode[f]
  BY <1>13
<1>14. i_num[x0] # 0
  BY <1>1 DEF FilesInv, NumbersKept
<1>2. /\ UNCHANGED <<i_num, i_count, i_dirt, i_lock, data, last_inode, disk>>
      /\ UNCHANGED <<num, empty, idx, panicked, fd, live, sane>> /\ cpu' = t
      /\ pc' = [pc EXCEPT ![t] = "iput"] /\ ino' = [ino EXCEPT ![t] = x0]
  BY DEF table, Goto
<1>4. /\ f_count'[f] = 0 /\ f_inode'[f] = NULL
      /\ \A g \in File \ {f} : f_count'[g] = f_count[g] /\ f_inode'[g] = f_inode[g]
      /\ \A g \in File : f_count[g] \in Nat
      /\ filp'[t][d] = NULL /\ filp' \in [Task -> [Fd -> File \cup {NULL}]]
      /\ \A u \in Task : \A e \in Fd : (u # t \/ e # d) => filp'[u][e] = filp[u][e]
  BY <1>1, SetFdProps DEF FileTypes
<1>5. FileTypes'
  <2>1. f_count' \in [File -> Nat] /\ f_inode' \in [File -> Inode \cup {NULL}]
    BY <1>1, <1>4 DEF FileTypes
  <2> QED
    BY <1>1, <1>2, <1>4, <2>1 DEF FileTypes
<1>15. Moves(t) /\ pc'[t] = "iput" /\ goal'[t] = "user" /\ ino'[t] = x0
  BY <1>1, <1>2 DEF Moves, LocalTypes, Places, Goals
<1>6. InodeTypes' /\ LocalTypes' /\ OnlyMoves(t)
  BY <1>1, <1>2, <1>15, LocalMove DEF InodeTypes
<1>7. FileInv'
  <2>1. \A g \in File : f_count'[g] = Pairs(g)'
    <3>1. \A g \in File : f_count'[g] = f_count[g] + Ones(Same(NULL, g)) - Ones(Same(filp[t][d], g))
      BY <1>1, <1>4 DEF Ones, Same
    <3> QED
      BY <3>1, CellCounts
  <2>2. Opening' = Opening
    BY <1>1, <1>2, <1>4, OpeningSame
  <2>3. \A g \in File : FileOK(g)'
    <3> TAKE g \in File
    <3>1. FileOK(g)
      BY DEF FilesInv, FileInv
    <3> QED
      BY <1>4, <2>2, <3>1 DEF FileOK, Opened
  <2>4. \A u \in Task : OpeningOK(u)'
    <3> TAKE u \in Task
    <3>1. /\ OpeningOK(u)
          /\ fd[u] # NULL => /\ fd[u] \in Fd /\ f_count[filp[u][fd[u]]] = 1
                             /\ filp[u][fd[u]] \in File /\ filp[u][fd[u]] \in Opening
      BY OpeningFacts DEF FilesInv, FileInv
    <3> QED
      BY <1>1, <1>2, <1>3, <1>4, <3>1 DEF OpeningOK
  <2> QED
    BY <2>1, <2>3, <2>4 DEF FileInv
<1>8. InodesMove(t)
  BY <1>2 DEF InodesMove
<1>9. \A g \in File : f_inode'[g] # NULL => i_num[f_inode'[g]] # 0
  BY <1>4 DEF FilesInv, NumbersKept
<1>10. PlaceOK(t)' /\ HasOK(t)' /\ ~Holding(t)'
  <2>1. ~Reading(t)' /\ ~Holding(t)'
    BY <1>15 DEF Reading, Holding
  <2>2. PlaceOK(t)'
    BY <1>1, <1>2, <1>15, <2>1, GoalsNotNull DEF PlaceOK, Works, Opens
  <2> QED
    BY <1>1, <1>2, <1>14, <1>15, <2>1, <2>2 DEF HasOK
<1>11. ASSUME NEW x \in Inode PROVE i_count'[x] = Total(x)'
  <2>1. (Uses(t, x)' <=> x = x0) /\ ~Uses(t, x) /\ i_count[x] \in Nat
    BY <1>1, <1>2, <1>15 DEF Uses, InodeTypes
  <2>2. ~Is(f_inode', f, x) /\ (Is(f_inode, f, x) <=> x = x0)
    BY <1>1, <1>4 DEF Is
  <2> HIDE DEF Uses, Is
  <2>3. i_count'[x] = i_count[x] + Ones(Is(f_inode', f, x)) - Ones(Is(f_inode, f, x))
                                + Ones(Uses(t, x)') - Ones(Uses(t, x))
    BY <1>2, <2>1, <2>2 DEF Ones
  <2>4. OnlyMoves(t) /\ live' = live /\ \A g \in File \ {f} : f_inode'[g] = f_inode[g]
    BY <1>2, <1>6, <1>4
  <2> QED
    BY ONLY FilesInv, <2>3, <2>4, TotalStep
<1>12. ASSUME NEW x \in Inode PROVE InodeOK(x)'
  <2>1. InodeOK(x)
    BY DEF FilesInv
  <2> QED
    BY <1>1, <1>2, <1>6, <2>1, InodeKeep DEF InodeOK
<1> QED
  BY <1>2, <1>5, <1>6, <1>7, <1>8, <1>9, <1>10, <1>11, <1>12, FileMoveInv

LEMMA CloseStep ==
    ASSUME FilesInv, NEW t \in Task, NEW d \in Fd, Close(t, d) PROVE FilesInv'
<1>1. PICK f \in File : f = filp[t][d]
  BY UserFacts DEF Close, FileTypes
<1>2. User(t) /\ SetFd(t, d, NULL) /\ f_count' = [f_count EXCEPT ![f] = @ - 1]
  BY <1>1 DEF Close, SetFd
<1>3. CASE f_count[f] = 1
  BY <1>1, <1>2, <1>3, CloseLast DEF Close
<1>4. CASE f_count[f] # 1
  BY <1>1, <1>2, <1>4, CloseSome DEF Close, locals
<1> QED
  BY <1>3, <1>4

\* The contents of an open file change.
LEMMA ChangeStep ==
    ASSUME FilesInv, NEW t \in Task, NEW d \in Fd, NEW v \in Value, Change(t, d, v)
    PROVE  FilesInv'
<1>1. /\ PlaceOK(t) /\ HasOK(t) /\ InodeTypes /\ LocalTypes /\ FileTypes
      /\ fd[t] = NULL /\ pc[t] = "user" /\ empty[t] = NULL
      /\ NULL \notin Inode /\ NULL \notin Fd /\ NULL \notin File /\ ~Reading(t)
  BY UserFacts, NullNoItem DEF Change
<1>2. PICK f \in File : f = filp[t][d]
  BY <1>1 DEF Change, FileTypes
<1>3. f \notin Opening /\ f_count[f] > 0
  BY <1>1, <1>2, OpeningFacts, PairCounts
<1>4. f_inode[f] \in Inode
  BY <1>1, <1>3 DEF FilesInv, FileInv, FileOK, Opened, FileTypes
<1> PICK x0 \in Inode : x0 = f_inode[f]
  BY <1>4
<1>5. i_num[x0] # 0 /\ i_count[x0] > 0
  BY <1>1, RefCounts DEF FilesInv, NumbersKept
<1>6. /\ data' = [data EXCEPT ![x0] = v] /\ i_dirt' = [i_dirt EXCEPT ![x0] = TRUE]
      /\ UNCHANGED <<i_num, i_count, i_lock, last_inode, disk, cpu, panicked>>
      /\ UNCHANGED <<pc, goal, ino, num, empty, idx>>
      /\ UNCHANGED <<filp, f_count, f_inode, fd, live, sane>>
  BY <1>2 DEF Change, locals, fileVars
<1>7. FileTypes' /\ InodeTypes' /\ LocalTypes'
  <2>1. FileTypes' /\ LocalTypes'
    BY <1>1, <1>6 DEF FileTypes, LocalTypes
  <2>2. data' \in [Inode -> Value] /\ i_dirt' \in [Inode -> BOOLEAN]
    BY <1>1, <1>6 DEF InodeTypes
  <2> QED
    BY <1>1, <1>6, <2>1, <2>2 DEF InodeTypes
<1>8. /\ i_dirt'[x0] /\ \A y \in Inode \ {x0} : i_dirt'[y] = i_dirt[y] /\ data'[y] = data[y]
  BY <1>1, <1>6 DEF InodeTypes
<1>9. FileInv'
  <2>1. \A g \in File : Pairs(g)' = Pairs(g) /\ (FileOK(g)' <=> FileOK(g))
    BY <1>6 DEF Pairs, FileOK, Opened, Opening
  <2>2. \A u \in Task : OpeningOK(u)' <=> OpeningOK(u)
    BY <1>6 DEF OpeningOK
  <2> QED
    BY <1>6, <2>1, <2>2 DEF FilesInv, FileInv
<1>10. OnlyMoves(t) /\ InodesMove(t)
  BY <1>6, <1>8 DEF OnlyMoves, InodesMove
<1>11. \A g \in File : f_inode'[g] # NULL => i_num[f_inode'[g]] # 0
  BY <1>6 DEF FilesInv, NumbersKept
<1>12. PlaceOK(t)' /\ HasOK(t)' /\ ~Holding(t)'
  BY <1>1, <1>6 DEF PlaceOK, HasOK, Reading, Holding, Works
<1>13. ASSUME NEW x \in Inode PROVE i_count'[x] = Total(x)'
  <2>1. i_count'[x] = i_count[x] /\ Total(x)' = Total(x)
    BY <1>6 DEF Total, CountOf, UsersOf, Uses, RootRefs
  <2> QED
    BY <2>1 DEF FilesInv
<1>14. ASSUME NEW x \in Inode PROVE InodeOK(x)'
  <2>1. CASE x = x0
    BY <1>5, <1>6, <1>8, <2>1 DEF InodeOK
  <2>2. CASE x # x0
    <3>1. InodeOK(x)
      BY DEF FilesInv
    <3>2. UNCHANGED <<i_num[x], i_dirt[x], data[x], disk>>
      BY <1>6, <1>8, <2>2
    <3>3. i_count'[x] = 0 => ~i_dirt[x] /\ ~i_lock'[x]
      BY <1>6, <3>1 DEF InodeOK
    <3>4. ~Reading(t)
      BY <1>1
    <3>5. OnlyMoves(t)
      BY <1>10
    <3> QED
      BY <3>2, <3>3, <3>4, <3>5, InodeKeep
  <2> QED
    BY <2>1, <2>2
<1> QED
  BY <1>6, <1>7, <1>9, <1>10, <1>11, <1>12, <1>13, <1>14, FileMoveInv

-----------------------------------------------------------------------------
\* The descriptors of the new task count every file as often as those of the
\* old one.
LEMMA RowCount ==
    ASSUME NEW t \in Task, NEW u \in Task, NEW f
    PROVE  LET R == {e \in Task \X Fd : e[1] = u /\ filp[t][e[2]] = f}
           IN  IsFiniteSet(R) /\ Cardinality(R) = Refs(t, f)
<1> DEFINE R == {e \in Task \X Fd : e[1] = u /\ filp[t][e[2]] = f}
           S == {d \in Fd : filp[t][d] = f}
           h == [d \in S |-> <<u, d>>]
<1>1. IsFiniteSet(S)
  BY Finite, FS_Subset
<1>2. h \in [S -> R]
  OBVIOUS
<1>3. h \in Bijection(S, R)
  <2>1. \A a, b \in S : h[a] = h[b] => a = b
    OBVIOUS
  <2>2. \A e \in R : \E d \in S : h[d] = e
    <3> TAKE e \in R
    <3>1. e[2] \in S /\ e = <<u, e[2]>>
      OBVIOUS
    <3> QED
      BY <3>1
  <2> QED
    BY <1>2, <2>1, <2>2, Fun_IsBij
<1>4. ExistsBijection(S, R)
  BY <1>3 DEF ExistsBijection
<1> QED
  BY <1>1, <1>4, FS_Bijection DEF Refs

LEMMA ForkPairs ==
    ASSUME FileTypes, NEW t \in Task, NEW u \in Task, filp' = [filp EXCEPT ![u] = filp[t]],
           \A d \in Fd : filp[u][d] = NULL, NEW f \in File
    PROVE  Pairs(f)' = Pairs(f) + Refs(t, f) /\ Pairs(f) \in Nat /\ Refs(t, f) \in Nat
<1> DEFINE R == {e \in Task \X Fd : e[1] = u /\ filp[t][e[2]] = f}
           G == {e \in Task \X Fd : filp[e[1]][e[2]] = f}
           H == {e \in Task \X Fd : filp'[e[1]][e[2]] = f}
<1>1. IsFiniteSet(R) /\ Cardinality(R) = Refs(t, f)
  BY RowCount
<1>2. IsFiniteSet(G)
  BY Finite, FS_Subset
<1>3. /\ \A e \in Task \X Fd : e[1] = u => filp'[e[1]][e[2]] = filp[t][e[2]]
      /\ \A e \in Task \X Fd : e[1] # u => filp'[e[1]][e[2]] = filp[e[1]][e[2]]
      /\ f # NULL
  BY NullNoItem DEF FileTypes
<1>4. G \cap R = {} /\ H = G \cup R
  <2>1. \A e \in Task \X Fd : e[1] = u => filp[e[1]][e[2]] = NULL
    OBVIOUS
  <2> QED
    BY <1>3, <2>1
<1>5. Cardinality(G \cap R) = 0
  BY <1>4, FS_EmptySet
<1>6. Cardinality(G) \in Nat /\ Cardinality(R) \in Nat
  BY <1>1, <1>2, FS_CardinalityType
<1>7. Cardinality(G \cup R) = Cardinality(G) + Cardinality(R) - Cardinality(G \cap R)
  BY <1>1, <1>2, FS_Union
<1>8. Pairs(f) = Cardinality(G) /\ Pairs(f)' = Cardinality(G \cup R)
  BY <1>4 DEF Pairs
<1> HIDE DEF G, R, H
<1> QED
  BY <1>1, <1>5, <1>6, <1>7, <1>8

LEMMA ForkRefs ==
    ASSUME FilesInv, NEW t \in Task, User(t), NEW f \in File
    PROVE  /\ Refs(t, f) \in Nat
           /\ f_count[f] = 0 => Refs(t, f) = 0
           /\ f \in Opening => Refs(t, f) = 0
<1> DEFINE S == {d \in Fd : filp[t][d] = f}
<1>1. IsFiniteSet(S) /\ Refs(t, f) = Cardinality(S)
  BY Finite, FS_Subset DEF Refs
<1>2. \A d \in S : f_count[f] > 0 /\ f \notin Opening
  BY UserFacts, NullNoItem, OpeningFacts, PairCounts
<1>3. S = {} => Refs(t, f) = 0
  BY <1>1, FS_EmptySet
<1>4. Refs(t, f) \in Nat
  BY <1>1, FS_CardinalityType
<1> HIDE DEF S
<1> QED
  BY <1>2, <1>3, <1>4

\* fork(): the new task has the descriptors, the root and the working directory.
LEMMA ForkStep ==
    ASSUME FilesInv, NEW t \in Task, NEW u \in Task, Fork(t, u)
    PROVE  FilesInv'
<1>1. /\ PlaceOK(t) /\ HasOK(t) /\ InodeTypes /\ LocalTypes /\ FileTypes
      /\ fd[t] = NULL /\ pc[t] = "user" /\ empty[t] = NULL /\ User(t) /\ t \in live
      /\ NULL \notin Inode /\ NULL \notin Fd /\ NULL \notin File /\ ~Reading(t)
  BY UserFacts, NullNoItem DEF Fork
<1>2. /\ filp' = [filp EXCEPT ![u] = filp[t]] /\ live' = live \cup {u} /\ u \notin live
      /\ f_count' = [f \in File |-> f_count[f] + Refs(t, f)]
      /\ i_count' = [i_count EXCEPT ![RootInode] = @ + 2]
      /\ UNCHANGED <<i_num, i_dirt, i_lock, data, last_inode, disk, cpu, panicked>>
      /\ UNCHANGED <<pc, goal, ino, num, empty, idx>>
      /\ UNCHANGED <<f_inode, fd, sane>>
  BY DEF Fork, Forked, locals
<1>3. \A d \in Fd : filp[u][d] = NULL
  BY <1>2 DEF FilesInv, FileInv, OpeningOK
<1>4. fd[u] = NULL
  <2>1. PlaceOK(u) /\ goal[u] \in Goals /\ pc[u] = "user"
    BY <1>2, TaskFacts DEF PlaceOK
  <2> QED
    BY <2>1, GoalsNotNull DEF PlaceOK, Opens, Reading
<1>5. \A g \in File : Pairs(g)' = Pairs(g) + Refs(t, g)
  BY <1>1, <1>2, <1>3, ForkPairs
<1>6. \A g \in File : /\ f_count'[g] = f_count[g] + Refs(t, g) /\ f_count[g] \in Nat
                      /\ Refs(t, g) \in Nat
                      /\ f_count[g] = 0 => Refs(t, g) = 0
                      /\ g \in Opening => Refs(t, g) = 0
  BY <1>1, <1>2, ForkRefs DEF FileTypes
<1>7. FileTypes'
  <2>1. filp' \in [Task -> [Fd -> File \cup {NULL}]]
    BY <1>1, <1>2 DEF FileTypes
  <2>2. f_count' \in [File -> Nat]
    BY <1>2, <1>6
  <2> QED
    BY <1>1, <1>2, <2>1, <2>2 DEF FileTypes
<1>8. LocalTypes' /\ InodeTypes'
  <2>0. i_count[RootInode] + 2 \in Nat /\ i_count \in [Inode -> Nat] /\ RootInode \in Inode
    BY <1>1, NullNoItem DEF InodeTypes
  <2>1. i_count' \in [Inode -> Nat]
    BY <1>2, <2>0
  <2> QED
    BY <1>1, <1>2, <2>1 DEF LocalTypes, InodeTypes
<1>15. \A w \in Task \ {u} : \A e \in Fd : filp'[w][e] = filp[w][e]
  BY <1>1, <1>2 DEF FileTypes
<1>9. FileInv'
  <2>1. \A g \in File : f_count'[g] = Pairs(g)'
    BY <1>5, <1>6 DEF FilesInv, FileInv
  <2>2. Opening' = Opening
    BY <1>2, <1>4, <1>15, OpeningSame
  <2>3. \A g \in File : FileOK(g)'
    <3> TAKE g \in File
    <3>1. FileOK(g) /\ (f_count'[g] > 0 <=> f_count[g] > 0)
      BY <1>6 DEF FilesInv, FileInv
    <3> QED
      BY <1>2, <2>2, <3>1 DEF FileOK, Opened
  <2>4. \A w \in Task : OpeningOK(w)'
    <3> TAKE w \in Task
    <3>1. /\ OpeningOK(w)
          /\ fd[w] # NULL => /\ fd[w] \in Fd /\ f_count[filp[w][fd[w]]] = 1
                             /\ filp[w][fd[w]] \in File /\ filp[w][fd[w]] \in Opening
      BY OpeningFacts DEF FilesInv, FileInv
    <3> QED
      BY <1>2, <1>4, <1>6, <1>15, <3>1 DEF OpeningOK
  <2> QED
    BY <2>1, <2>3, <2>4 DEF FileInv
<1>10. /\ i_count'[RootInode] = i_count[RootInode] + 2
       /\ \A y \in Inode \ {RootInode} : i_count'[y] = i_count[y]
       /\ \A y \in Inode : i_count[y] \in Nat
       /\ i_count[RootInode] > 1 /\ RootInode \in Inode
  BY <1>1, <1>2, RefCounts, NullNoItem DEF InodeTypes
<1>11. OnlyMoves(t) /\ InodesMove(t)
  <2>1. ~Holding(t)
    BY <1>1 DEF Holding
  <2> QED
    BY <1>2, <1>10, <2>1 DEF OnlyMoves, InodesMove
<1>12. \A g \in File : f_inode'[g] # NULL => i_num[f_inode'[g]] # 0
  BY <1>2 DEF FilesInv, NumbersKept
<1>13. PlaceOK(t)' /\ HasOK(t)' /\ ~Holding(t)'
  BY <1>1, <1>2 DEF PlaceOK, HasOK, Reading, Holding, Works
<1>14. ASSUME NEW x \in Inode PROVE i_count'[x] = Total(x)'
  <2>1. CountOf(File, f_inode, x)' = CountOf(File, f_inode, x) /\ UsersOf(x)' = UsersOf(x)
    BY <1>2 DEF CountOf, UsersOf, Uses
  <2>2. Cardinality(live)' = Cardinality(live) + 1 /\ Cardinality(live) \in Nat
    <3>1. IsFiniteSet(live)
      BY <1>1, Finite, FS_Subset DEF FileTypes
    <3>2. Cardinality(live \cup {u}) = Cardinality(live) + 1
      BY <1>2, <3>1, FS_AddElement
    <3> QED
      BY <1>2, <3>1, <3>2, FS_CardinalityType
  <2>3. /\ x = RootInode => RootRefs(x)' = RootRefs(x) + 2
        /\ x # RootInode => RootRefs(x)' = RootRefs(x)
    BY <2>2 DEF RootRefs
  <2>4. /\ CountOf(File, f_inode, x) \in Nat /\ UsersOf(x) \in Nat /\ RootRefs(x) \in Nat
        /\ i_count[x] = Total(x)
    BY <1>1, TotalTypes DEF FilesInv
  <2> HIDE DEF CountOf, UsersOf, RootRefs
  <2> QED
    BY <1>10, <2>1, <2>3, <2>4 DEF Total
<1>16. ASSUME NEW x \in Inode PROVE InodeOK(x)'
  <2>1. InodeOK(x)
    BY DEF FilesInv
  <2> QED
    BY <1>1, <1>2, <1>10, <1>11, <2>1, InodeKeep DEF InodeOK
<1> QED
  BY <1>2, <1>7, <1>8, <1>9, <1>11, <1>12, <1>13, <1>14, <1>16, FileMoveInv

LEMMA KernelStepInv ==
    ASSUME FilesInv, OneInodePerNumber', sane', NEW t \in Task, KernelStep(t)
    PROVE  FilesInv'
  BY InodeStepInv, FindStep, GotStep, FailedStep DEF KernelStep

LEMMA CallInv ==
    ASSUME FilesInv, NEW t \in Task, Call(t) PROVE FilesInv'
<1>1. CASE Open(t)
  BY <1>1, OpenStep
<1>2. ASSUME NEW d \in Fd, Close(t, d) PROVE FilesInv'
  BY <1>2, CloseStep
<1>3. ASSUME NEW d \in Fd, Dup(t, d) PROVE FilesInv'
  BY <1>3, DupStep
<1>4. ASSUME NEW d \in Fd, NEW v \in Value, Change(t, d, v) PROVE FilesInv'
  BY <1>4, ChangeStep
<1>5. ASSUME NEW u \in Task, Fork(t, u) PROVE FilesInv'
  BY <1>5, ForkStep
<1>6. CASE t \in live /\ Sync(t) /\ UNCHANGED fileVars
  BY <1>6, SyncCallStep
<1> QED
  BY <1>1, <1>2, <1>3, <1>4, <1>5, <1>6 DEF Call

-----------------------------------------------------------------------------
SaneInv == NumberInv /\ (sane => FilesInv)

LEMMA FilesNext == SaneInv /\ [Next]_vars => SaneInv'
<1> SUFFICES ASSUME SaneInv, [Next]_vars PROVE SaneInv'
  OBVIOUS
<1>1. NumberInv' /\ OneInodePerNumber'
  BY NumberNext DEF SaneInv, NumberInv
<1>2. ASSUME UNCHANGED vars PROVE SaneInv'
  <2>1. UNCHANGED <<table, pc, locals, fileVars, cpu, panicked, sane>>
    BY <1>2 DEF vars, inodeVars, fileVars
  <2>2. ASSUME sane PROVE FilesInv'
    <3>1. FilesInv /\ cpu' \in Task \cup {NULL} /\ panicked' \in BOOLEAN
      BY <2>1, <2>2, TaskFacts DEF SaneInv, FilesInv, TypeOK
    <3> QED
      BY <2>1, <3>1, StillInv
  <2> QED
    BY <1>1, <2>1, <2>2 DEF SaneInv
<1>3. ASSUME NEW t \in Task, sane',
             \/ Call(t)
             \/ KernelStep(t)
             \/ SyncUnderLock(t) /\ UNCHANGED fileVars
      PROVE  FilesInv'
  <2>1. sane
    <3>1. Call(t) => sane
      BY <1>3 DEF Call, Open, Close, Dup, Fork, Change, fileVars
    <3>2. KernelStep(t) => sane
      BY <1>3 DEF KernelStep, FindEntry, Got, Failed, fileVars
    <3>3. UNCHANGED fileVars => sane
      BY <1>3 DEF fileVars
    <3>4. Call(t) \/ KernelStep(t) \/ UNCHANGED fileVars
      BY <1>3
    <3> QED
      BY ONLY <3>1, <3>2, <3>3, <3>4
  <2>2. FilesInv
    BY <2>1 DEF SaneInv
  <2> QED
    BY <1>1, <1>3, <2>2, CallInv, KernelStepInv, DeadlockStep
<1>4. ASSUME Next, sane' PROVE FilesInv'
  BY <1>3, <1>4 DEF Next
<1>5. CASE Next
  BY <1>1, <1>4, <1>5 DEF SaneInv
<1> QED
  BY <1>2, <1>5

LEMMA FilesInit == Init => SaneInv
<1> SUFFICES ASSUME Init PROVE SaneInv
  OBVIOUS
<1>1. /\ NR_INODE \in Nat /\ NR_INODE > 1 /\ ROOT_INO \in Num /\ Zero \in Value
      /\ RootInode \in Inode /\ NULL \notin Inode /\ NULL \notin Fd /\ NULL \notin File
      /\ first \in Task
  BY InodeAssumption, FilesAssumption, NullNoItem
<1>2. NumberInv
  BY <1>1 DEF Init, InodeInit, NumberInv, OneInodePerNumber, Inode, RootInode, Places
<1>3. InodeTypes /\ LocalTypes /\ FileTypes
  <2>1. InodeTypes
    BY <1>1 DEF Init, InodeInit, InodeTypes
  <2>2. LocalTypes
    <3>1. 0 \in 0..NR_INODE
      BY <1>1
    <3> QED
      BY <3>1 DEF Init, InodeInit, LocalTypes, Places
  <2>3. FileTypes
    BY <1>1 DEF Init, FileTypes
  <2> QED
    BY <2>1, <2>2, <2>3
<1>4. /\ \A t \in Task : /\ pc[t] = "user" /\ goal[t] = NULL /\ ino[t] = NULL /\ num[t] = 0
                         /\ empty[t] = NULL /\ fd[t] = NULL
                         /\ \A d \in Fd : filp[t][d] = NULL
      /\ \A f \in File : f_count[f] = 0 /\ f_inode[f] = NULL
      /\ live = {first}
      /\ \A x \in Inode : /\ ~i_dirt[x] /\ ~i_lock[x] /\ data[x] = Zero
                          /\ i_num[x] = (IF x = RootInode THEN ROOT_INO ELSE 0)
                          /\ i_count[x] = (IF x = RootInode THEN 4 ELSE 0)
      /\ \A n \in Num : disk[n] = Zero
  BY DEF Init, InodeInit
<1>5. FileInv
  <2>1. ASSUME NEW f \in File PROVE f_count[f] = Pairs(f) /\ FileOK(f)
    <3>1. {e \in Task \X Fd : filp[e[1]][e[2]] = f} = {}
      BY <1>1, <1>4
    <3>2. Pairs(f) = 0
      BY <3>1, FS_EmptySet DEF Pairs
    <3> QED
      BY <1>4, <3>2 DEF FileOK, Opened
  <2>2. ASSUME NEW t \in Task PROVE OpeningOK(t)
    BY <1>4 DEF OpeningOK
  <2> QED
    BY <2>1, <2>2 DEF FileInv
<1>6. NumbersKept
  <2>1. i_num[RootInode] = ROOT_INO
    BY <1>1, <1>4
  <2> QED
    BY <1>2, <1>4, <2>1 DEF NumbersKept, NumberInv
<1>7. ASSUME NEW x \in Inode PROVE i_count[x] = Total(x) /\ InodeOK(x)
  <2>1. CountOf(File, f_inode, x) = 0
    <3>1. {f \in File : f_inode[f] = x} = {}
      BY <1>1, <1>4
    <3> QED
      BY <3>1, FS_EmptySet DEF CountOf
  <2>2. UsersOf(x) = 0
    <3>1. {t \in Task : Uses(t, x)} = {}
      BY <1>1, <1>4 DEF Uses
    <3> QED
      BY <3>1, FS_EmptySet DEF UsersOf
  <2>3. Cardinality(live) = 1
    BY <1>4, FS_Singleton
  <2>4. i_count[x] = Total(x)
    BY <1>4, <2>1, <2>2, <2>3 DEF Total, RootRefs
  <2>5. InodeOK(x)
    BY <1>1, <1>4 DEF InodeOK
  <2> QED
    BY <2>4, <2>5
<1>8. ASSUME NEW t \in Task PROVE PlaceOK(t) /\ HasOK(t) /\ ~Holding(t)
  <2>1. ~Reading(t) /\ ~Holding(t)
    BY <1>4 DEF Reading, Holding
  <2>2. PlaceOK(t)
    BY <1>4, <2>1, GoalsNotNull DEF PlaceOK, Works, Opens
  <2> QED
    BY <1>4, <2>1, <2>2 DEF HasOK, Works
<1> QED
  BY <1>2, <1>3, <1>5, <1>6, <1>7, <1>8, TypeParts DEF SaneInv, FilesInv, OneHolder

LEMMA FilesAlways == Spec => []SaneInv
  BY FilesInit, FilesNext, PTL DEF Spec

\* As long as open() uses the inodes it was given, an inode that nobody refers
\* to is neither changed nor locked: get_empty_inode() need not wait for one.
THEOREM FreeAreClean == Spec => [](sane => FreeInodesClean)
<1>1. SaneInv => (sane => FreeInodesClean)
  BY DEF SaneInv, FilesInv, InodeOK, FreeInodesClean, Free
<1> QED
  BY <1>1, FilesAlways, PTL

\* As long as open() uses the inodes it was given, a file is counted once for
\* each descriptor.
THEOREM FileCounts == Spec => [](sane => FileCountsRight)
<1>1. SaneInv => (sane => FileCountsRight)
  BY DEF SaneInv, FilesInv, FileInv, Pairs, FileCountsRight
<1> QED
  BY <1>1, FilesAlways, PTL

\* An inode is counted once for each open file, each task that has it as root
\* or working directory, the super block, and each call that is using it.
THEOREM InodeCounts == Spec => []InodeCountsRight
<1>1. ASSUME SaneInv PROVE InodeCountsRight
  <2> SUFFICES ASSUME sane, NEW x \in Inode
               PROVE  i_count[x] =
                   Cardinality({f \in File : f_count[f] > 0 /\ f \notin Opening /\ f_inode[f] = x})
                   + Cardinality(Users(x))
                   + (IF x = RootInode THEN 2 + 2 * Cardinality(live) ELSE 0)
    BY DEF InodeCountsRight
  <2>1. FilesInv
    BY <1>1 DEF SaneInv
  <2>2. \A f \in File : f_inode[f] # NULL => f_count[f] > 0 /\ f \notin Opening
    BY <2>1 DEF FilesInv, FileInv, FileOK, Opened
  <2>3. {f \in File : f_count[f] > 0 /\ f \notin Opening /\ f_inode[f] = x}
            = {f \in File : f_inode[f] = x}
    BY <2>2, NullNoItem
  <2>4. Users(x) = {t \in Task : Uses(t, x)}
    BY DEF Users, Uses
  <2>5. i_count[x] = Total(x)
    BY <2>1 DEF FilesInv
  <2> QED
    BY <2>3, <2>4, <2>5 DEF Total, CountOf, UsersOf, RootRefs
<1> QED
  BY <1>1, FilesAlways, PTL

-----------------------------------------------------------------------------
(***************************************************************************)
(* The refinement of FileStore, as long as open() uses the inodes it was   *)
(* given.                                                                  *)
(***************************************************************************)

\* What an inode has: the contents of the changed inode of the table, or else
\* what the disk has.
ContentOK(n) ==
    /\ \A x \in Inode : i_num[x] = n /\ i_dirt[x] => Contents[n] = data[x]
    /\ (\A x \in Inode : i_num[x] = n => ~i_dirt[x]) => Contents[n] = disk[n]

LEMMA ContentIs == FilesInv => \A n \in Num : ContentOK(n)
<1> SUFFICES ASSUME FilesInv, NEW n \in Num PROVE ContentOK(n)
  OBVIOUS
<1>1. n # 0 /\ Loaded(n) \subseteq Inode
      /\ Contents[n] = IF Loaded(n) = {} THEN disk[n] ELSE data[CHOOSE x \in Loaded(n) : TRUE]
  BY NullNoItem DEF Contents, Loaded
<1>2. \A x, y \in Inode : i_num[x] = n /\ i_num[y] = n => x = y
  BY <1>1 DEF FilesInv, NumbersKept, OneInodePerNumber
<1>3. ASSUME NEW x \in Loaded(n) PROVE i_num[x] = n /\ Contents[n] = data[x]
  <2>1. (CHOOSE y \in Loaded(n) : TRUE) \in Loaded(n)
    BY <1>3
  <2>2. i_num[x] = n /\ (CHOOSE y \in Loaded(n) : TRUE) = x
    BY <1>1, <1>2, <1>3, <2>1 DEF Loaded
  <2> QED
    BY <1>1, <1>3, <2>2
<1>4. ASSUME NEW x \in Inode, i_num[x] = n, i_dirt[x] PROVE Contents[n] = data[x]
  <2>1. ASSUME NEW t \in Task, Reading(t) PROVE ino[t] # x
    BY <1>4, <2>1 DEF FilesInv, HasOK
  <2>2. x \in Loaded(n)
    BY <1>4, <2>1 DEF Loaded
  <2> QED
    BY <1>3, <2>2
<1>5. ASSUME \A x \in Inode : i_num[x] = n => ~i_dirt[x] PROVE Contents[n] = disk[n]
  <2>1. CASE Loaded(n) = {}
    BY <1>1, <2>1
  <2>2. ASSUME NEW x \in Loaded(n) PROVE Contents[n] = disk[n]
    <3>1. x \in Inode /\ i_num[x] = n /\ ~i_dirt[x] /\ Contents[n] = data[x]
          /\ \A t \in Task : Reading(t) => ino[t] # x
      BY <1>1, <1>3, <1>5, <2>2 DEF Loaded
    <3>2. InodeOK(x)
      BY <3>1 DEF FilesInv
    <3> QED
      BY <1>1, <3>1, <3>2 DEF InodeOK
  <2> QED
    BY <2>1, <2>2
<1> QED
  BY <1>4, <1>5 DEF ContentOK

LEMMA ContentLater == FilesInv' => \A n \in Num : ContentOK(n)'
<1> DEFINE P == \A n \in Num : ContentOK(n)
<1>1. FilesInv => P
  BY ContentIs
<1> HIDE DEF P
<1>2. FilesInv' => P'
  BY <1>1, PTL
<1> QED
  BY <1>2 DEF P

LEMMA ContentsKept ==
    ASSUME FilesInv, FilesInv', disk' = disk,
           \A x \in Inode : /\ i_dirt'[x] <=> i_dirt[x]
                            /\ i_dirt[x] => i_num'[x] = i_num[x] /\ data'[x] = data[x]
    PROVE  Contents' = Contents
<1>1. ASSUME NEW n \in Num PROVE Contents'[n] = Contents[n]
  <2>1. ContentOK(n) /\ ContentOK(n)'
    BY ContentIs, ContentLater
  <2>2. CASE \E x \in Inode : i_num[x] = n /\ i_dirt[x]
    BY <2>1, <2>2 DEF ContentOK
  <2>3. CASE ~ \E x \in Inode : i_num[x] = n /\ i_dirt[x]
    BY <2>1, <2>3 DEF ContentOK
  <2> QED
    BY <2>2, <2>3
<1> QED
  BY <1>1 DEF Contents

\* The inode of an open file.
LEMMA FilesIs ==
    FilesInv => \A f \in File : Files[f] = IF f_inode[f] # NULL THEN i_num[f_inode[f]] ELSE NULL
  BY DEF FilesInv, FileInv, FileOK, Files

LEMMA FilesLater ==
    FilesInv' => \A f \in File :
        Files'[f] = IF f_inode'[f] # NULL THEN i_num'[f_inode'[f]] ELSE NULL
<1> DEFINE P == \A f \in File :
                    Files[f] = IF f_inode[f] # NULL THEN i_num[f_inode[f]] ELSE NULL
<1>1. FilesInv => P
  BY FilesIs
<1>2. FilesInv' => P'
  BY <1>1, PTL
<1> QED
  BY <1>2

LEMMA FilesKept ==
    ASSUME FilesInv, FilesInv', NEW t \in Task, f_inode' = f_inode,
           \A x \in Inode : i_num'[x] # i_num[x] => i_count[x] = 0 \/ x = empty[t]
    PROVE  Files' = Files
<1>1. ASSUME NEW f \in File PROVE Files'[f] = Files[f]
  <2>1. CASE f_inode[f] = NULL
    BY <2>1, FilesIs, FilesLater
  <2>2. CASE f_inode[f] # NULL
    <3>1. f_inode[f] \in Inode /\ i_num[f_inode[f]] # 0
      BY <2>2, TypeParts DEF FilesInv, FileTypes, NumbersKept
    <3>2. i_count[f_inode[f]] # 0 /\ f_inode[f] # empty[t]
      <4>1. i_count[f_inode[f]] > 0
        BY <3>1, RefCounts
      <4>2. HasOK(t)
        BY DEF FilesInv
      <4> QED
        BY <2>2, <3>1, <4>1, <4>2 DEF HasOK
    <3>3. i_num'[f_inode[f]] = i_num[f_inode[f]]
      BY <3>1, <3>2
    <3> QED
      BY <2>2, <3>3, FilesIs, FilesLater
  <2> QED
    BY <2>1, <2>2
<1>2. Files = [f \in File |-> Files[f]] /\ Files' = [f \in File |-> Files'[f]]
  BY DEF Files
<1> QED
  BY <1>1, <1>2

LEMMA InodeNumbers ==
    ASSUME FilesInv, NEW t \in Task, InodeStep(t)
    PROVE  \A x \in Inode : i_num'[x] # i_num[x] => i_count[x] = 0 \/ x = empty[t]
<1>1. CASE UNCHANGED i_num
  BY <1>1
<1>2. CASE GetEmptyInode(t)
  <2>1. CASE Free = {} /\ Panic
    BY <2>1, <1>1 DEF Panic, table
  <2>2. CASE Free # {} /\ i_num' = [i_num EXCEPT ![NextFree] = 0]
    <3>1. NextFree \in Free
      BY <2>2, TaskFacts, NextFreeProps DEF InodeTypes
    <3> QED
      BY <2>2, <3>1, TaskFacts DEF Free, InodeTypes
  <2> QED
    BY <1>2, <2>1, <2>2 DEF GetEmptyInode
<1>3. CASE Scan(t)
  <2>1. UNCHANGED i_num \/ i_num' = [i_num EXCEPT ![empty[t]] = num[t]]
    BY <1>3 DEF Scan, Found, table
  <2> QED
    BY <1>1, <2>1, TaskFacts DEF InodeTypes
<1>4. CASE Iput(t) \/ WriteInode(t) \/ Written(t) \/ WaitOnInode(t) \/ ReadInode(t)
           \/ SyncInodes(t)
  BY <1>1, <1>4 DEF Iput, WriteInode, Written, WaitOnInode, ReadInode, SyncInodes, Found,
                    Panic, Sleep, table
<1> QED
  BY <1>2, <1>3, <1>4 DEF InodeStep

\* write_inode() changes nothing that is seen.
LEMMA WriteContents ==
    ASSUME FilesInv, FilesInv', NEW t \in Task, WriteInode(t)
    PROVE  Contents' = Contents
<1>1. /\ PlaceOK(t) /\ HasOK(t) /\ InodeTypes /\ pc[t] = "write" /\ ino[t] \in Inode
      /\ Holding(t) /\ ~Reading(t)
  BY TaskFacts, PlaceFacts DEF WriteInode, At, Works, Holding, Reading
<1> PICK x \in Inode : x = ino[t]
  BY <1>1
<1>2. i_num[x] # 0 /\ InodeOK(x)
  BY <1>1 DEF FilesInv, HasOK, Works
<1> PICK m \in Num : m = i_num[x]
  BY <1>1, <1>2 DEF InodeTypes
<1>3. /\ disk'[m] = data[x] /\ \A n \in Num \ {m} : disk'[n] = disk[n]
      /\ ~i_dirt'[x] /\ \A y \in Inode \ {x} : i_dirt'[y] <=> i_dirt[y]
      /\ UNCHANGED <<i_num, data>>
  BY <1>1 DEF InodeTypes, WriteInode
<1>4. \A y \in Inode : i_num[y] = m => y = x
  BY <1>2 DEF FilesInv, NumbersKept, OneInodePerNumber
<1>5. ASSUME NEW u \in Task, Reading(u) PROVE ino[u] # x
  <2>1. OneHolder(t, u) /\ Holding(u)
    BY <1>5, PlaceFacts DEF FilesInv
  <2> QED
    BY <1>1, <1>5, <2>1 DEF OneHolder
<1>6. ASSUME NEW n \in Num PROVE Contents'[n] = Contents[n]
  <2>1. ContentOK(n) /\ ContentOK(n)'
    BY ContentIs, ContentLater
  <2>2. CASE n = m
    <3>1. Contents'[n] = data[x]
      BY <1>3, <1>4, <2>1, <2>2 DEF ContentOK
    <3>2. CASE i_dirt[x]
      BY <2>1, <2>2, <3>1, <3>2 DEF ContentOK
    <3>3. CASE ~i_dirt[x]
      <4>1. Contents[n] = disk[m]
        BY <1>4, <2>1, <2>2, <3>3 DEF ContentOK
      <4>2. data[x] = disk[m]
        BY <1>2, <1>5, <3>3 DEF InodeOK
      <4> QED
        BY <3>1, <4>1, <4>2
    <3> QED
      BY <3>2, <3>3
  <2>3. CASE n # m
    <3>1. disk'[n] = disk[n] /\ \A y \in Inode : i_num[y] = n => (i_dirt'[y] <=> i_dirt[y])
      BY <1>3, <2>3
    <3>2. CASE \E y \in Inode : i_num[y] = n /\ i_dirt[y]
      BY <1>3, <2>1, <3>1, <3>2 DEF ContentOK
    <3>3. CASE ~ \E y \in Inode : i_num[y] = n /\ i_dirt[y]
      BY <1>3, <2>1, <3>1, <3>3 DEF ContentOK
    <3> QED
      BY <3>2, <3>3
  <2> QED
    BY <2>2, <2>3
<1> QED
  BY <1>6 DEF Contents

LEMMA InodeContents ==
    ASSUME FilesInv, FilesInv', NEW t \in Task, InodeStep(t)
    PROVE  Contents' = Contents
<1>0. HasOK(t) /\ PlaceOK(t) /\ InodeTypes /\ NULL \notin Inode
  BY TaskFacts
<1>1. CASE UNCHANGED <<i_num, i_dirt, data, disk>>
  BY <1>1, ContentsKept
<1>2. CASE WriteInode(t)
  BY <1>2, WriteContents
<1>3. CASE GetEmptyInode(t)
  <2>1. CASE Panic
    BY <1>1, <2>1 DEF Panic, table
  <2>2. CASE /\ Free # {} /\ i_num' = [i_num EXCEPT ![NextFree] = 0]
             /\ data' = [data EXCEPT ![NextFree] = Zero] /\ UNCHANGED <<i_dirt, disk>>
    <3>1. NextFree \in Free
      BY <1>0, <2>2, NextFreeProps DEF InodeTypes
    <3>2. NextFree \in Inode /\ ~i_dirt[NextFree]
      BY <3>1 DEF Free, FilesInv, InodeOK
    <3>3. \A x \in Inode \ {NextFree} : i_num'[x] = i_num[x] /\ data'[x] = data[x]
      BY <1>0, <2>2 DEF InodeTypes
    <3> QED
      BY <2>2, <3>2, <3>3, ContentsKept
  <2> QED
    BY <1>3, <2>1, <2>2 DEF GetEmptyInode
<1>4. CASE Scan(t)
  <2>1. \/ UNCHANGED <<i_num, i_dirt, data, disk>>
        \/ /\ i_num' = [i_num EXCEPT ![empty[t]] = num[t]]
           /\ UNCHANGED <<i_dirt, data, disk>>
    BY <1>4 DEF Scan, Found, table
  <2>2. pc[t] = "scan"
    BY <1>4 DEF Scan, At
  <2>3. empty[t] # NULL /\ ~i_dirt[empty[t]]
    BY <1>0, <2>2 DEF PlaceOK, HasOK
  <2>4. CASE i_num' = [i_num EXCEPT ![empty[t]] = num[t]] /\ UNCHANGED <<i_dirt, data, disk>>
    <3>1. \A x \in Inode \ {empty[t]} : i_num'[x] = i_num[x]
      BY <1>0, <2>4 DEF InodeTypes
    <3> QED
      BY <2>3, <2>4, <3>1, ContentsKept
  <2> QED
    BY <1>1, <2>1, <2>4
<1>5. CASE ReadInode(t)
  <2>1. pc[t] = "read"
    BY <1>5 DEF ReadInode, At
  <2>2. ~i_dirt[ino[t]]
    BY <1>0, <2>1 DEF HasOK, PlaceOK, Reading
  <2>3. CASE /\ data' = [data EXCEPT ![ino[t]] = disk[i_num[ino[t]]]]
             /\ UNCHANGED <<i_num, i_dirt, disk>>
    <3>1. \A x \in Inode \ {ino[t]} : data'[x] = data[x]
      BY <1>0, <2>3 DEF InodeTypes
    <3> QED
      BY <2>2, <2>3, <3>1, ContentsKept
  <2>4. CASE Panic
    BY <1>1, <2>4 DEF Panic, table
  <2> QED
    BY <1>5, <2>3, <2>4 DEF ReadInode
<1>6. CASE Iput(t) \/ Written(t) \/ WaitOnInode(t) \/ SyncInodes(t)
  BY <1>1, <1>6 DEF Iput, Written, WaitOnInode, SyncInodes, Found, Sleep, table
<1> QED
  BY <1>2, <1>3, <1>4, <1>5, <1>6 DEF InodeStep

\* The inode table and the disk are not seen.
SameStore == Descriptors' = Descriptors /\ Files' = Files /\ Contents' = Contents

LEMMA InodeSame ==
    ASSUME FilesInv, FilesInv', NEW t \in Task, InodeStep(t), UNCHANGED fileVars
    PROVE  SameStore
<1>1. Descriptors' = Descriptors /\ f_inode' = f_inode
  BY DEF Descriptors, fileVars
<1> QED
  BY <1>1, InodeNumbers, FilesKept, InodeContents DEF SameStore

LEMMA TableSame ==
    ASSUME FilesInv, FilesInv', UNCHANGED <<i_num, i_dirt, data, disk>>
    PROVE  /\ Contents' = Contents
           /\ f_inode' = f_inode => Files' = Files
           /\ UNCHANGED fileVars => SameStore
<1>1. first \in Task
  BY FilesAssumption
<1>2. Contents' = Contents
  BY ContentsKept
<1>3. ASSUME f_inode' = f_inode PROVE Files' = Files
  BY <1>1, <1>3, FilesKept
<1>4. ASSUME UNCHANGED fileVars PROVE Descriptors' = Descriptors /\ f_inode' = f_inode
  BY <1>4 DEF Descriptors, fileVars
<1> QED
  BY <1>2, <1>3, <1>4 DEF SameStore

\* A file is seen in a descriptor when it has an inode.
Seen(f) == \E u \in Task, e \in Fd : Descriptors[u][e] = f

LEMMA SeenIs == FilesInv => \A f \in File : Seen(f) <=> f_inode[f] # NULL
<1> SUFFICES ASSUME FilesInv, NEW f \in File PROVE Seen(f) <=> f_inode[f] # NULL
  OBVIOUS
<1>1. /\ f_inode[f] # NULL <=> f_count[f] > 0 /\ f \notin Opening
      /\ f_count[f] = Pairs(f) /\ f # NULL
  BY NullNoItem DEF FilesInv, FileInv, FileOK, Opened
<1>2. ASSUME NEW u \in Task, NEW e \in Fd, Descriptors[u][e] = f PROVE f_inode[f] # NULL
  <2>1. filp[u][e] = f /\ e # fd[u]
    BY <1>1, <1>2 DEF Descriptors
  <2> QED
    BY <1>1, <2>1, PairCounts, OpeningFacts
<1>3. ASSUME f_inode[f] # NULL PROVE Seen(f)
  <2>1. {e \in Task \X Fd : filp[e[1]][e[2]] = f} # {}
    BY <1>1, <1>3, FS_EmptySet DEF Pairs
  <2>2. PICK u \in Task, e \in Fd : filp[u][e] = f
    BY <2>1
  <2>3. e # fd[u]
    BY <1>1, <1>3, <2>2, NullNoItem DEF Opening
  <2> QED
    BY <2>2, <2>3 DEF Descriptors, Seen
<1> QED
  BY <1>2, <1>3 DEF Seen

LEMMA SeenLater == FilesInv' => \A f \in File : Seen(f)' <=> f_inode'[f] # NULL
<1> DEFINE P == \A f \in File : Seen(f) <=> f_inode[f] # NULL
<1>1. FilesInv => P
  BY SeenIs
<1> HIDE DEF P
<1>2. FilesInv' => P'
  BY <1>1, PTL
<1> QED
  BY <1>2 DEF P

\* Functions with the same domain and the same values are the same.
OnAll(S, F) == F = [x \in S |-> F[x]]
Agree(S, F, G) == \A x \in S : F[x] = G[x]
LEMMA SameFunction ==
    ASSUME NEW S, NEW F, NEW G, OnAll(S, F), OnAll(S, G), Agree(S, F, G)
    PROVE  F = G
<1>1. [x \in S |-> F[x]] = [x \in S |-> G[x]]
  BY DEF Agree
<1> QED
  BY <1>1 DEF OnAll

LEMMA ViewIsTable ==
    /\ OnAll(Task, Descriptors) /\ OnAll(Task, Descriptors')
    /\ \A u \in Task : OnAll(Fd, Descriptors[u]) /\ OnAll(Fd, Descriptors'[u])
<1>1. OnAll(Task, Descriptors) /\ OnAll(Task, Descriptors')
  BY DEF Descriptors, OnAll
<1>2. ASSUME NEW u \in Task PROVE OnAll(Fd, Descriptors[u]) /\ OnAll(Fd, Descriptors'[u])
  BY DEF Descriptors, OnAll
<1> QED
  BY <1>1, <1>2

LEMMA CellView ==
    ASSUME NEW t \in Task, NEW d \in Fd, NEW g, Descriptors'[t][d] = g,
           \A u \in Task : \A e \in Fd :
               (u # t \/ e # d) => Descriptors'[u][e] = Descriptors[u][e]
    PROVE  Descriptors' = [Descriptors EXCEPT ![t][d] = g]
<1> DEFINE E   == [Descriptors EXCEPT ![t][d] = g]
           row == [Descriptors[t] EXCEPT ![d] = g]
<1>1. OnAll(Task, E) /\ E[t] = row /\ \A u \in Task \ {t} : E[u] = Descriptors[u]
  <2>1. Descriptors = [u \in Task |-> Descriptors[u]]
    BY ViewIsTable DEF OnAll
  <2> QED
    BY <2>1 DEF OnAll
<1>2. OnAll(Fd, row) /\ \A e \in Fd : row[e] = IF e = d THEN g ELSE Descriptors[t][e]
  <2>1. Descriptors[t] = [e \in Fd |-> Descriptors[t][e]]
    BY ViewIsTable DEF OnAll
  <2> QED
    BY <2>1 DEF OnAll
<1> HIDE DEF E, row
<1>3. Descriptors'[t] = row
  <2>1. Agree(Fd, Descriptors'[t], row)
    BY <1>2 DEF Agree
  <2> QED
    BY <1>2, <2>1, ViewIsTable, SameFunction
<1>4. ASSUME NEW u \in Task \ {t} PROVE Descriptors'[u] = Descriptors[u]
  <2>1. Agree(Fd, Descriptors'[u], Descriptors[u])
    BY DEF Agree
  <2> QED
    BY <2>1, ViewIsTable, SameFunction
<1>5. Agree(Task, Descriptors', E)
  BY <1>1, <1>3, <1>4 DEF Agree
<1>6. Descriptors' = E
  BY <1>1, <1>5, ViewIsTable, SameFunction
<1> QED
  BY <1>6 DEF E

LEMMA CellOfView ==
    ASSUME NEW t \in Task, NEW d \in Fd
    PROVE  /\ Descriptors[t][d] = IF d = fd[t] THEN NULL ELSE filp[t][d]
           /\ Descriptors'[t][d] = IF d = fd'[t] THEN NULL ELSE filp'[t][d]
  BY DEF Descriptors

\* A file gets its inode, and is seen.
LEMMA OpenView ==
    ASSUME FilesInv, FilesInv', NEW t \in Task, NEW d \in Fd, NEW f \in File, NEW x \in Inode,
           UNCHANGED <<i_num, i_dirt, data, disk>>,
           f_inode[f] = NULL, f_inode' = [f_inode EXCEPT ![f] = x],
           Descriptors[t][d] = NULL, Descriptors'[t][d] = f,
           \A u \in Task : \A e \in Fd :
               (u # t \/ e # d) => Descriptors'[u][e] = Descriptors[u][e]
    PROVE  \E n \in Num : Store!Open(t, d, f, n)
<1>1. f_inode'[f] = x /\ \A g \in File \ {f} : f_inode'[g] = f_inode[g]
  BY TypeParts DEF FilesInv, FileTypes
<1>2. i_num'[x] # 0 /\ NULL \notin Inode
  BY <1>1, NullNoItem DEF FilesInv, NumbersKept
<1> PICK n \in Num : n = i_num[x]
  BY <1>2, TypeParts DEF FilesInv, InodeTypes
<1>3. Descriptors' = [Descriptors EXCEPT ![t][d] = f]
  BY CellView
<1>4. Files' = [Files EXCEPT ![f] = n]
  <2>1. /\ Files = [g \in File |-> Files[g]] /\ Files' = [g \in File |-> Files'[g]]
    BY DEF Files
  <2>2. ASSUME NEW g \in File PROVE Files'[g] = IF g = f THEN n ELSE Files[g]
    BY <1>1, <1>2, FilesIs, FilesLater
  <2> QED
    BY <2>1, <2>2
<1>5. ~Seen(f)
  BY SeenIs
<1>6. ~Store!In(Descriptors, f)
  BY <1>5 DEF Seen, Store!In
<1>7. Contents' = Contents
  BY TableSame
<1>8. Store!Open(t, d, f, n)
  BY <1>3, <1>4, <1>6, <1>7 DEF Store!Open
<1> QED
  BY <1>8

LEMMA ViewSame ==
    ASSUME \A u \in Task : \A e \in Fd : Descriptors'[u][e] = Descriptors[u][e]
    PROVE  Descriptors' = Descriptors
<1>1. /\ Descriptors = [u \in Task |-> [e \in Fd |-> Descriptors[u][e]]]
      /\ Descriptors' = [u \in Task |-> [e \in Fd |-> Descriptors'[u][e]]]
  BY DEF Descriptors
<1> QED
  BY <1>1

\* Every step is one of FileStore, or changes nothing that is seen.
StoreStep == [Store!StoreNext]_(Store!storeVars)

LEMMA SameStep == SameStore => StoreStep
  BY DEF SameStore, StoreStep, Store!storeVars

LEMMA OpenIsStore ==
    ASSUME FilesInv, FilesInv', NEW t \in Task, Open(t)
    PROVE  StoreStep
<1>1. FreeFds(t) # {} /\ FreeFiles # {} /\ User(t) /\ t \in live
  BY DEF Open, User
<1>2. PICK d \in Fd, f \in File :
          /\ d = Least(FreeFds(t)) /\ filp[t][d] = NULL
          /\ f = Least(FreeFiles) /\ f_count[f] = 0 /\ f_inode[f] = NULL
          /\ f \notin Opening
          /\ \A u \in Task : \A e \in Fd : filp[u][e] # f
  BY <1>1, OpenFacts
<1>3. /\ fd[t] = NULL /\ FileTypes /\ NULL \notin Fd /\ NULL \notin File /\ RootInode \in Inode
  BY <1>1, UserFacts, NullNoItem
<1>4. /\ SetFd(t, d, f) /\ UNCHANGED <<i_num, i_dirt, data, disk>>
  BY <1>2 DEF Open, SetFd
<1>5. /\ filp'[t][d] = f
      /\ \A u \in Task : \A e \in Fd : (u # t \/ e # d) => filp'[u][e] = filp[u][e]
  BY <1>3, <1>4, SetFdProps
<1>6. CASE UNCHANGED fd /\ f_inode' = [f_inode EXCEPT ![f] = RootInode]
  <2>1. Descriptors[t][d] = NULL /\ Descriptors'[t][d] = f
    BY <1>2, <1>3, <1>5, <1>6, CellOfView
  <2>2. \A u \in Task : \A e \in Fd :
            (u # t \/ e # d) => Descriptors'[u][e] = Descriptors[u][e]
    BY <1>5, <1>6, CellOfView
  <2>3. \E n \in Num : Store!Open(t, d, f, n)
    BY <1>2, <1>3, <1>4, <1>6, <2>1, <2>2, OpenView
  <2> QED
    BY <2>3 DEF StoreStep, Store!StoreNext
<1>7. CASE fd' = [fd EXCEPT ![t] = d] /\ UNCHANGED f_inode
  <2>1. fd'[t] = d /\ \A u \in Task \ {t} : fd'[u] = fd[u]
    BY <1>3, <1>7 DEF FileTypes
  <2>2. ASSUME NEW u \in Task, NEW e \in Fd PROVE Descriptors'[u][e] = Descriptors[u][e]
    BY <1>2, <1>3, <1>5, <2>1, CellOfView
  <2> QED
    BY <1>4, <1>7, <2>2, ViewSame, TableSame, SameStep DEF SameStore
<1> QED
  BY <1>2, <1>6, <1>7 DEF Open

LEMMA GotIsStore ==
    ASSUME FilesInv, FilesInv', NEW t \in Task, Got(t), sane'
    PROVE  StoreStep
<1>1. UNCHANGED <<i_num, i_dirt, data, disk>> /\ UNCHANGED <<filp, live>> /\ pc[t] = "got"
  BY DEF Got, table, At
<1>2. fd[t] # NULL /\ ino[t] \in Inode /\ FileTypes
  <2>1. PlaceOK(t)
    BY TaskFacts
  <2>2. fd[t] # NULL
    BY <1>1, <2>1 DEF PlaceOK, Opens
  <2> QED
    BY <1>1, <2>2, PlaceFacts, TypeParts DEF Works, FilesInv
<1>3. PICK d \in Fd, f \in File : d = fd[t] /\ f = filp[t][d] /\ f \in Opening
  BY <1>2, OpeningFacts
<1>4. CASE UNCHANGED <<f_count, f_inode, fd, sane>>
  BY <1>1, <1>4, TableSame, SameStep DEF fileVars
<1>5. CASE f_inode' = [f_inode EXCEPT ![f] = ino[t]] /\ fd' = [fd EXCEPT ![t] = NULL]
  <2>1. f_inode[f] = NULL
    BY <1>3 DEF FilesInv, FileInv, FileOK, Opened
  <2>2. fd'[t] = NULL /\ (\A u \in Task \ {t} : fd'[u] = fd[u]) /\ NULL \notin Fd
    BY <1>2, <1>5, NullNoItem DEF FileTypes
  <2>3. Descriptors[t][d] = NULL /\ Descriptors'[t][d] = f
    BY <1>1, <1>3, <2>2, CellOfView
  <2>4. ASSUME NEW u \in Task, NEW e \in Fd, u # t \/ e # d
        PROVE  Descriptors'[u][e] = Descriptors[u][e]
    BY <1>1, <1>3, <2>2, <2>4, CellOfView
  <2>5. \E n \in Num : Store!Open(t, d, f, n)
    BY <1>1, <1>2, <1>5, <2>1, <2>3, <2>4, OpenView
  <2> QED
    BY <2>5 DEF StoreStep, Store!StoreNext
<1> QED
  BY <1>3, <1>4, <1>5 DEF Got

LEMMA FailedIsStore ==
    ASSUME FilesInv, FilesInv', NEW t \in Task, Failed(t)
    PROVE  StoreStep
<1>1. /\ UNCHANGED <<i_num, i_dirt, data, disk>> /\ UNCHANGED <<f_inode, live>>
      /\ pc[t] = "failed" /\ PlaceOK(t) /\ FileTypes /\ NULL \notin Fd
  BY TaskFacts, TypeParts, NullNoItem DEF Failed, table, At, FilesInv
<1>2. fd[t] \in Fd
  BY <1>1, OpeningFacts DEF PlaceOK, Opens
<1>3. /\ SetFd(t, fd[t], NULL) /\ fd'[t] = NULL /\ \A u \in Task \ {t} : fd'[u] = fd[u]
  BY <1>1 DEF Failed, SetFd, FileTypes
<1>4. /\ filp'[t][fd[t]] = NULL
      /\ \A u \in Task : \A e \in Fd : (u # t \/ e # fd[t]) => filp'[u][e] = filp[u][e]
  BY <1>1, <1>2, <1>3, SetFdProps
<1>5. ASSUME NEW u \in Task, NEW e \in Fd PROVE Descriptors'[u][e] = Descriptors[u][e]
  BY <1>1, <1>3, <1>4, CellOfView
<1> QED
  BY <1>1, <1>5, ViewSame, TableSame, SameStep DEF SameStore

\* A file is closed, for the last time or not.
LEMMA CloseIsStore ==
    ASSUME FilesInv, FilesInv', NEW t \in Task, NEW d \in Fd, Close(t, d)
    PROVE  StoreStep
<1>1. /\ UNCHANGED <<i_num, i_dirt, data, disk>> /\ UNCHANGED <<fd, live>>
      /\ FileTypes /\ NULL \notin Fd /\ NULL \notin File /\ fd[t] = NULL /\ SetFd(t, d, NULL)
  BY UserFacts, NullNoItem DEF Close, table, SetFd
<1>2. PICK f \in File : f = filp[t][d]
  BY <1>1 DEF Close, FileTypes
<1>3. /\ filp'[t][d] = NULL
      /\ \A u \in Task : \A e \in Fd : (u # t \/ e # d) => filp'[u][e] = filp[u][e]
  BY <1>1, SetFdProps
<1>4. Descriptors[t][d] = f /\ Descriptors'[t][d] = NULL
  BY <1>1, <1>2, <1>3, CellOfView
<1>5. ASSUME NEW u \in Task, NEW e \in Fd, u # t \/ e # d
      PROVE  Descriptors'[u][e] = Descriptors[u][e]
  BY <1>1, <1>3, <1>5, CellOfView
<1>6. Descriptors' = [Descriptors EXCEPT ![t][d] = NULL]
  BY <1>4, <1>5, CellView
<1>7. \/ f_inode' = f_inode
      \/ f_inode' = [f_inode EXCEPT ![f] = NULL]
  BY <1>2 DEF Close
<1>8. f_inode'[f] = f_inode[f] \/ f_inode'[f] = NULL
  BY <1>1, <1>7 DEF FileTypes
<1>9. \A g \in File \ {f} : f_inode'[g] = f_inode[g]
  BY <1>1, <1>7 DEF FileTypes
<1>10. Store!In(Descriptors', f) <=> f_inode'[f] # NULL
  BY SeenLater DEF Seen, Store!In
<1>11. Files' = [Files EXCEPT ![f] = IF Store!In(Descriptors', f) THEN @ ELSE NULL]
  <2>1. /\ Files = [g \in File |-> Files[g]] /\ Files' = [g \in File |-> Files'[g]]
    BY DEF Files
  <2>2. \A g \in File \ {f} : Files'[g] = Files[g]
    BY <1>1, <1>9, FilesIs, FilesLater
  <2>3. Files'[f] = IF f_inode'[f] # NULL THEN Files[f] ELSE NULL
    BY <1>1, <1>8, FilesIs, FilesLater
  <2> QED
    BY <1>10, <2>1, <2>2, <2>3
<1>12. Contents' = Contents
  BY <1>1, TableSame
<1>13. Store!Close(t, d)
  BY <1>1, <1>4, <1>6, <1>11, <1>12 DEF Store!Close
<1> QED
  BY <1>13 DEF StoreStep, Store!StoreNext

LEMMA DupIsStore ==
    ASSUME FilesInv, FilesInv', NEW t \in Task, NEW d \in Fd, Dup(t, d)
    PROVE  StoreStep
<1>1. /\ UNCHANGED <<i_num, i_dirt, data, disk>> /\ UNCHANGED <<f_inode, fd>>
      /\ FileTypes /\ NULL \notin Fd /\ NULL \notin File /\ fd[t] = NULL
      /\ FreeFds(t) # {} /\ filp[t][d] # NULL
  BY UserFacts, NullNoItem DEF Dup, inodeVars, table
<1>2. PICK e \in Fd : e = Least(FreeFds(t)) /\ filp[t][e] = NULL
  BY <1>1, LeastProps, NullNoItem DEF FreeFds
<1>3. PICK f \in File : f = filp[t][d]
  BY <1>1 DEF FileTypes
<1>4. SetFd(t, e, f)
  BY <1>2, <1>3 DEF Dup, SetFd
<1>5. /\ filp'[t][e] = f
      /\ \A u \in Task : \A c \in Fd : (u # t \/ c # e) => filp'[u][c] = filp[u][c]
  BY <1>1, <1>4, SetFdProps
<1>6. Descriptors[t][d] = f /\ Descriptors[t][e] = NULL /\ Descriptors'[t][e] = f
  BY <1>1, <1>2, <1>3, <1>5, CellOfView
<1>7. ASSUME NEW u \in Task, NEW c \in Fd, u # t \/ c # e
      PROVE  Descriptors'[u][c] = Descriptors[u][c]
  BY <1>1, <1>5, <1>7, CellOfView
<1>8. Descriptors' = [Descriptors EXCEPT ![t][e] = f]
  BY <1>6, <1>7, CellView
<1>9. Contents' = Contents /\ Files' = Files
  BY <1>1, TableSame
<1>10. Store!Dup(t, d, e)
  BY <1>1, <1>6, <1>8, <1>9 DEF Store!Dup
<1> QED
  BY <1>10 DEF StoreStep, Store!StoreNext

LEMMA ForkIsStore ==
    ASSUME FilesInv, FilesInv', NEW t \in Task, NEW u \in Task, Fork(t, u)
    PROVE  StoreStep
<1>1. /\ UNCHANGED <<i_num, i_dirt, data, disk>> /\ UNCHANGED <<f_inode, fd>>
      /\ FileTypes /\ NULL \notin Fd /\ fd[t] = NULL /\ u \notin live /\ t \in live
      /\ filp' = [filp EXCEPT ![u] = filp[t]]
  BY UserFacts, NullNoItem DEF Fork
<1>2. /\ \A d \in Fd : filp[u][d] = NULL
      /\ fd[u] = NULL
  <2>1. OpeningOK(u) /\ PlaceOK(u) /\ goal[u] \in Goals
    BY TaskFacts DEF FilesInv, FileInv
  <2>2. pc[u] = "user"
    BY <1>1, <2>1 DEF PlaceOK
  <2> QED
    BY <1>1, <2>1, <2>2, GoalsNotNull DEF OpeningOK, PlaceOK, Opens, Reading
<1>3. /\ \A d \in Fd : filp'[u][d] = filp[t][d]
      /\ \A w \in Task \ {u} : \A d \in Fd : filp'[w][d] = filp[w][d]
  BY <1>1 DEF FileTypes
<1>4. /\ \A d \in Fd : Descriptors[u][d] = NULL /\ Descriptors'[u][d] = Descriptors[t][d]
      /\ \A w \in Task \ {u} : \A d \in Fd : Descriptors'[w][d] = Descriptors[w][d]
  BY <1>1, <1>2, <1>3, CellOfView
<1>5. Descriptors' = [Descriptors EXCEPT ![u] = Descriptors[t]]
  <2> DEFINE E == [Descriptors EXCEPT ![u] = Descriptors[t]]
  <2>1. /\ OnAll(Task, E) /\ E[u] = Descriptors[t]
        /\ \A w \in Task \ {u} : E[w] = Descriptors[w]
    <3>1. Descriptors = [w \in Task |-> Descriptors[w]]
      BY ViewIsTable DEF OnAll
    <3> QED
      BY <3>1 DEF OnAll
  <2> HIDE DEF E
  <2>2. Descriptors'[u] = Descriptors[t]
    <3>1. Agree(Fd, Descriptors'[u], Descriptors[t])
      BY <1>4 DEF Agree
    <3> QED
      BY <1>1, <3>1, ViewIsTable, SameFunction
  <2>3. ASSUME NEW w \in Task \ {u} PROVE Descriptors'[w] = Descriptors[w]
    <3>1. Agree(Fd, Descriptors'[w], Descriptors[w])
      BY <1>4 DEF Agree
    <3> QED
      BY <3>1, ViewIsTable, SameFunction
  <2>4. Agree(Task, Descriptors', E)
    BY <2>1, <2>2, <2>3 DEF Agree
  <2>5. Descriptors' = E
    BY <2>1, <2>4, ViewIsTable, SameFunction
  <2> QED
    BY <2>5 DEF E
<1>6. Contents' = Contents /\ Files' = Files
  BY <1>1, TableSame
<1>7. Store!Fork(t, u)
  BY <1>4, <1>5, <1>6 DEF Store!Fork
<1> QED
  BY <1>7 DEF StoreStep, Store!StoreNext

LEMMA ChangeIsStore ==
    ASSUME FilesInv, FilesInv', NEW t \in Task, NEW d \in Fd, NEW v \in Value, Change(t, d, v)
    PROVE  StoreStep
<1>1. /\ UNCHANGED <<i_num, disk>> /\ UNCHANGED fileVars
      /\ FileTypes /\ InodeTypes /\ NULL \notin Fd /\ NULL \notin File /\ fd[t] = NULL
      /\ filp[t][d] # NULL
  BY UserFacts, NullNoItem DEF Change
<1>2. PICK f \in File : f = filp[t][d]
  BY <1>1 DEF FileTypes
<1>3. Descriptors[t][d] = f
  BY <1>1, <1>2, CellOfView
<1>4. Seen(f)
  BY <1>3 DEF Seen
<1>5. f_inode[f] # NULL
  BY <1>4, SeenIs
<1>6. PICK x \in Inode : x = f_inode[f]
  BY <1>1, <1>5 DEF FileTypes
<1>7. PICK m \in Num : m = i_num[x]
  BY <1>1, <1>5, <1>6 DEF FilesInv, NumbersKept, InodeTypes
<1>8. Files[f] = m
  BY <1>5, <1>6, <1>7, FilesIs
<1>9. /\ i_dirt'[x] /\ data'[x] = v
      /\ \A y \in Inode \ {x} : i_dirt'[y] = i_dirt[y] /\ data'[y] = data[y]
  BY <1>1, <1>2, <1>6 DEF Change, InodeTypes
<1>10. \A y \in Inode : i_num[y] = m => y = x
  BY <1>7, NullNoItem DEF FilesInv, NumbersKept, OneInodePerNumber
<1>11. Contents'[m] = v
  <2>1. ContentOK(m)'
    BY ContentLater
  <2> QED
    BY <1>1, <1>7, <1>9, <2>1 DEF ContentOK
<1>12. ASSUME NEW n \in Num \ {m} PROVE Contents'[n] = Contents[n]
  <2>1. ContentOK(n) /\ ContentOK(n)'
    BY ContentIs, ContentLater
  <2>2. CASE \E y \in Inode : i_num[y] = n /\ i_dirt[y]
    BY <1>1, <1>7, <1>9, <2>1, <2>2 DEF ContentOK
  <2>3. CASE ~ \E y \in Inode : i_num[y] = n /\ i_dirt[y]
    BY <1>1, <1>7, <1>9, <2>1, <2>3 DEF ContentOK
  <2> QED
    BY <2>2, <2>3
<1>13. Contents' = [Contents EXCEPT ![m] = v]
  <2>1. Contents = [n \in Num |-> Contents[n]] /\ Contents' = [n \in Num |-> Contents'[n]]
    BY DEF Contents
  <2> QED
    BY <1>11, <1>12, <2>1
<1>14. Descriptors' = Descriptors /\ Files' = Files
  <2>1. Descriptors' = Descriptors
    BY <1>1 DEF Descriptors, fileVars
  <2>2. f_inode' = f_inode
    BY <1>1 DEF fileVars
  <2> QED
    BY <1>1, <2>1, <2>2, FilesKept
<1>15. Store!Change(t, d, v)
  BY <1>1, <1>3, <1>8, <1>13, <1>14 DEF Store!Change
<1> QED
  BY <1>15 DEF StoreStep, Store!StoreNext

\* Every step of the files is one of FileStore or a stutter.
LEMMA FilesStep ==
    ASSUME SaneInv, SaneInv', [Next]_vars
    PROVE  [sane' => Store!StoreNext]_(Store!storeVars)
<1>1. ASSUME UNCHANGED vars PROVE SameStore
  BY <1>1 DEF vars, inodeVars, table, fileVars, locals, SameStore, Descriptors, Files, Contents,
              Opened, Opening, Loaded, Reading
<1>2. ASSUME NEW t \in Task, sane',
             \/ Call(t)
             \/ KernelStep(t)
             \/ SyncUnderLock(t) /\ UNCHANGED fileVars
      PROVE  StoreStep
  <2>1. sane
    <3>1. Call(t) => sane
      BY <1>2 DEF Call, Open, Close, Dup, Fork, Change, fileVars
    <3>2. KernelStep(t) => sane
      BY <1>2 DEF KernelStep, FindEntry, Got, Failed, fileVars
    <3>3. UNCHANGED fileVars => sane
      BY <1>2 DEF fileVars
    <3>4. Call(t) \/ KernelStep(t) \/ UNCHANGED fileVars
      BY <1>2
    <3> QED
      BY ONLY <3>1, <3>2, <3>3, <3>4
  <2>2. FilesInv /\ FilesInv'
    BY <1>2, <2>1 DEF SaneInv
  <2>3. ASSUME UNCHANGED table, UNCHANGED fileVars PROVE StoreStep
    <3>1. UNCHANGED <<i_num, i_dirt, data, disk>>
      BY <2>3 DEF table
    <3> QED
      BY <2>2, <2>3, <3>1, TableSame, SameStep
  <2>4. CASE Call(t)
    <3>1. CASE Open(t)
      BY <2>2, <3>1, OpenIsStore
    <3>2. ASSUME NEW d \in Fd, Close(t, d) PROVE StoreStep
      BY <2>2, <3>2, CloseIsStore
    <3>3. ASSUME NEW d \in Fd, Dup(t, d) PROVE StoreStep
      BY <2>2, <3>3, DupIsStore
    <3>4. ASSUME NEW d \in Fd, NEW v \in Value, Change(t, d, v) PROVE StoreStep
      BY <2>2, <3>4, ChangeIsStore
    <3>5. ASSUME NEW u \in Task, Fork(t, u) PROVE StoreStep
      BY <2>2, <3>5, ForkIsStore
    <3>6. CASE Sync(t) /\ UNCHANGED fileVars
      BY <2>3, <3>6 DEF Sync
    <3> QED
      BY <2>4, <3>1, <3>2, <3>3, <3>4, <3>5, <3>6 DEF Call
  <2>5. CASE KernelStep(t)
    <3>1. CASE InodeStep(t) /\ UNCHANGED fileVars
      BY <2>2, <3>1, InodeSame, SameStep
    <3>2. CASE FindEntry(t)
      BY <2>3, <3>2 DEF FindEntry
    <3>3. CASE Got(t)
      BY <1>2, <2>2, <3>3, GotIsStore
    <3>4. CASE Failed(t)
      BY <2>2, <3>4, FailedIsStore
    <3> QED
      BY <2>5, <3>1, <3>2, <3>3, <3>4 DEF KernelStep
  <2>6. CASE SyncUnderLock(t) /\ UNCHANGED fileVars
    BY <2>3, <2>6 DEF SyncUnderLock
  <2> QED
    BY <1>2, <2>4, <2>5, <2>6
<1>3. ASSUME Next, sane' PROVE StoreStep
  BY <1>2, <1>3 DEF Next
<1>4. CASE UNCHANGED vars
  BY <1>1, <1>4 DEF SameStore, Store!storeVars
<1>5. CASE Next
  BY <1>3, <1>5 DEF StoreStep
<1> QED
  BY <1>4, <1>5

\* What programs see of descriptors, files and the contents of inodes is what
\* FileStore promises, as long as open() uses the inodes it was given.
THEOREM FilesImplemented == Spec => ImplementsFileStore
<1>1. ASSUME Init PROVE Store!StoreInit([n \in Num |-> Zero])
  <2>1. FilesInv
    BY <1>1, FilesInit DEF SaneInv, Init
  <2>2. /\ filp = [t \in Task |-> [d \in Fd |-> NULL]] /\ f_inode = [f \in File |-> NULL]
        /\ disk = [n \in Num |-> Zero] /\ i_dirt = [x \in Inode |-> FALSE]
    BY <1>1 DEF Init, InodeInit
  <2>3. Descriptors = [t \in Task |-> [d \in Fd |-> NULL]]
    BY <2>2 DEF Descriptors
  <2>4. Files = [f \in File |-> NULL]
    <3>1. Files = [f \in File |-> Files[f]]
      BY DEF Files
    <3> QED
      BY <2>1, <2>2, <3>1, FilesIs
  <2>5. Contents = [n \in Num |-> Zero]
    <3>1. Contents = [n \in Num |-> Contents[n]]
      BY DEF Contents
    <3>2. ASSUME NEW n \in Num PROVE Contents[n] = Zero
      BY <2>1, <2>2, ContentIs DEF ContentOK
    <3> QED
      BY <3>1, <3>2
  <2> QED
    BY <2>3, <2>4, <2>5 DEF Store!StoreInit
<1>2. SaneInv /\ SaneInv' /\ [Next]_vars => [sane' => Store!StoreNext]_(Store!storeVars)
  BY FilesStep
<1> QED
  BY <1>1, <1>2, FilesAlways, PTL DEF Spec, ImplementsFileStore

-----------------------------------------------------------------------------
(***************************************************************************)
(* Locks: what LocksUndone rests on, whatever inodes open() has used.      *)
(***************************************************************************)

\* A locked inode has a task that is on its way to unlock it.
LockHeld == \A x \in Inode : i_lock[x] => \E t \in Task : Holding(t) /\ ino[t] = x

\* It is unlocked only by such a task, at the end of its work on the inode.
UndoneByHolder ==
    \A x \in Inode : i_lock[x] /\ ~i_lock'[x] =>
        \E t \in Task : pc[t] \in {"read", "written"} /\ ino[t] = x /\ pc'[t] # pc[t]

HeldInv ==
    /\ NumberInv
    /\ ino = [t \in Task |-> ino[t]] /\ i_lock \in [Inode -> BOOLEAN]
    /\ LockHeld

\* The three things that a step of t can do with locks.
LeavesLocks(t) == i_lock' = i_lock /\ (Holding(t) => Holding(t)' /\ ino'[t] = ino[t])
Releases(t) == /\ i_lock' = [i_lock EXCEPT ![ino[t]] = FALSE]
               /\ pc[t] \in {"read", "written"} /\ pc'[t] # pc[t]
Locks(t) == ~Holding(t) /\ Holding(t)' /\ i_lock' = [i_lock EXCEPT ![ino'[t]] = TRUE]
LockStep(t) ==
    /\ pc' = [pc EXCEPT ![t] = pc'[t]] /\ ino' = [ino EXCEPT ![t] = ino'[t]]
    /\ LeavesLocks(t) \/ Releases(t) \/ Locks(t)

LEMMA LockStepKeeps ==
    ASSUME HeldInv, NumberInv', NEW t \in Task, LockStep(t)
    PROVE  HeldInv' /\ UndoneByHolder
<1>1. \A u \in Task \ {t} : (Holding(u)' <=> Holding(u)) /\ ino'[u] = ino[u]
  BY DEF LockStep, HeldInv, NumberInv, Holding
<1>2. ino' = [u \in Task |-> ino'[u]]
  BY DEF LockStep, HeldInv
<1>3. i_lock' \in [Inode -> BOOLEAN]
  BY DEF LockStep, LeavesLocks, Releases, Locks, HeldInv
<1>4. ASSUME NEW x \in Inode, i_lock'[x] PROVE \E u \in Task : Holding(u)' /\ ino'[u] = x
  <2>1. CASE i_lock[x]
    <3>1. PICK u \in Task : Holding(u) /\ ino[u] = x
      BY <2>1 DEF HeldInv, LockHeld
    <3>2. CASE u # t
      BY <1>1, <3>1, <3>2
    <3>3. CASE u = t
      <4>1. ~Releases(t) /\ ~Locks(t)
        BY <1>4, <3>1, <3>3 DEF Releases, Locks, HeldInv
      <4> QED
        BY <3>1, <3>3, <4>1 DEF LockStep, LeavesLocks
    <3> QED
      BY <3>2, <3>3
  <2>2. CASE ~i_lock[x]
    <3>1. Locks(t) /\ ino'[t] = x
      BY <1>4, <2>2 DEF LockStep, LeavesLocks, Releases, Locks, HeldInv
    <3> QED
      BY <3>1 DEF Locks
  <2> QED
    BY <2>1, <2>2
<1>5. ASSUME NEW x \in Inode, i_lock[x], ~i_lock'[x]
      PROVE  pc[t] \in {"read", "written"} /\ ino[t] = x /\ pc'[t] # pc[t]
  BY <1>5 DEF LockStep, LeavesLocks, Releases, Locks, HeldInv
<1> QED
  BY <1>2, <1>3, <1>4, <1>5 DEF HeldInv, LockHeld, UndoneByHolder

\* A step that leaves the locks alone, of a task that holds none or stays at it.
LEMMA LocksLeft ==
    ASSUME NEW t \in Task, i_lock' = i_lock, HeldInv,
           \/ pc' = pc
           \/ \E p : pc' = [pc EXCEPT ![t] = p] /\ (Holding(t) => Holding(t)'),
           \/ ino' = ino
           \/ ~Holding(t) /\ \E x : ino' = [ino EXCEPT ![t] = x]
    PROVE  LockStep(t)
<1>1. pc' = [pc EXCEPT ![t] = pc'[t]] /\ ino' = [ino EXCEPT ![t] = ino'[t]]
  BY DEF HeldInv, NumberInv
<1>2. Holding(t) => Holding(t)' /\ ino'[t] = ino[t]
  BY DEF Holding
<1> QED
  BY <1>1, <1>2 DEF LockStep, LeavesLocks

LEMMA InodeLockStep == ASSUME HeldInv, NEW t \in Task, InodeStep(t) PROVE LockStep(t)
<1> USE DEF At
<1>0. pc \in [Task -> Places \cup {NULL}] /\ ino = [u \in Task |-> ino[u]]
  BY DEF HeldInv, NumberInv
<1>1. ASSUME Sleep PROVE LockStep(t)
  BY <1>1, LocksLeft DEF Sleep, table, locals
<1>2. ASSUME NEW x, Found(t, x), ~Holding(t) PROVE LockStep(t)
  BY <1>2, LocksLeft DEF Found, Goto
<1>3. CASE Iput(t)
  <2>1. ~Holding(t)
    BY <1>3 DEF Iput, Holding
  <2>2. ASSUME Lock(ino[t]), SleepTo(t, "write"), UNCHANGED locals PROVE LockStep(t)
    BY <1>0, <2>1, <2>2 DEF Lock, SleepTo, locals, LockStep, Locks, Holding
  <2>3. ASSUME i_lock' = i_lock, ino' = [ino EXCEPT ![t] = NULL],
               IF goal[t] = "user" THEN SleepTo(t, "user") ELSE Goto(t, goal[t])
        PROVE  LockStep(t)
    BY <2>1, <2>3, LocksLeft DEF SleepTo, Goto
  <2> QED
    BY <1>1, <1>3, <2>2, <2>3 DEF Iput
<1>4. CASE WriteInode(t)
  <2>1. i_lock' = i_lock /\ ino' = ino /\ pc' = [pc EXCEPT ![t] = "written"]
    BY <1>4 DEF WriteInode, SleepTo, locals
  <2> QED
    BY <1>0, <2>1, LocksLeft DEF Holding
<1>5. CASE Written(t)
  <2>1. /\ pc[t] = "written" /\ Unlock(ino[t])
        /\ \E p \in {"sync", "iput"} : pc' = [pc EXCEPT ![t] = p]
        /\ ino' = ino \/ ino' = [ino EXCEPT ![t] = NULL]
    BY <1>5 DEF Written, Goto
  <2> QED
    BY <1>0, <2>1 DEF LockStep, Releases, Unlock
<1>6. CASE GetEmptyInode(t)
  <2>1. ~Holding(t) /\ i_lock' = i_lock /\ ino' = ino
        /\ (pc' = pc \/ pc' = [pc EXCEPT ![t] = "scan"])
    BY <1>6 DEF GetEmptyInode, Holding, Panic, Goto, table, locals
  <2> QED
    BY <2>1, LocksLeft
<1>7. CASE Scan(t)
  <2>1. ~Holding(t)
    BY <1>7 DEF Scan, Holding
  <2>2. ASSUME NEW x, ino' = [ino EXCEPT ![t] = x], SleepTo(t, "wait"), UNCHANGED table
        PROVE  LockStep(t)
    BY <2>1, <2>2, LocksLeft DEF SleepTo, table
  <2>3. ASSUME Lock(empty[t]), ino' = [ino EXCEPT ![t] = empty[t]], SleepTo(t, "read")
        PROVE  LockStep(t)
    BY <1>0, <2>1, <2>3 DEF Lock, SleepTo, LockStep, Locks, Holding
  <2> QED
    BY <1>2, <1>7, <2>1, <2>2, <2>3 DEF Scan
<1>8. CASE WaitOnInode(t)
  <2>1. ~Holding(t)
    BY <1>8 DEF WaitOnInode, Holding
  <2>2. ASSUME ino' = [ino EXCEPT ![t] = NULL], Goto(t, "scan"), UNCHANGED table
        PROVE  LockStep(t)
    BY <2>1, <2>2, LocksLeft DEF Goto, table
  <2> QED
    BY <1>1, <1>2, <1>8, <2>1, <2>2 DEF WaitOnInode
<1>9. CASE ReadInode(t)
  <2>1. ASSUME Unlock(ino[t]), Goto(t, "got"), UNCHANGED locals PROVE LockStep(t)
    BY <1>0, <1>9, <2>1 DEF ReadInode, Unlock, Goto, locals, LockStep, Releases
  <2>2. ASSUME Panic PROVE LockStep(t)
    BY <2>2, LocksLeft DEF Panic, table, locals
  <2> QED
    BY <1>9, <2>1, <2>2 DEF ReadInode
<1>10. CASE SyncInodes(t)
  <2>1. ~Holding(t)
    BY <1>10 DEF SyncInodes, Holding
  <2>2. ASSUME Return(t), UNCHANGED table PROVE LockStep(t)
    BY <2>1, <2>2, LocksLeft DEF Return, SleepTo, table
  <2>3. ASSUME Lock(idx[t]), ino' = [ino EXCEPT ![t] = idx[t]], SleepTo(t, "write")
        PROVE  LockStep(t)
    BY <1>0, <2>1, <2>3 DEF Lock, SleepTo, LockStep, Locks, Holding
  <2>4. ASSUME Goto(t, "sync"), UNCHANGED table, ino' = ino PROVE LockStep(t)
    BY <2>1, <2>4, LocksLeft DEF Goto, table
  <2> QED
    BY <1>1, <1>10, <2>2, <2>3, <2>4 DEF SyncInodes
<1> QED
  BY <1>3, <1>4, <1>5, <1>6, <1>7, <1>8, <1>9, <1>10 DEF InodeStep

LEMMA HeldNext == HeldInv /\ [Next]_vars => HeldInv' /\ UndoneByHolder
<1> SUFFICES ASSUME HeldInv, [Next]_vars PROVE HeldInv' /\ UndoneByHolder
  OBVIOUS
<1>0. NumberInv'
  BY NumberNext DEF HeldInv
<1> USE DEF At, User
<1>1. ASSUME UNCHANGED <<pc, ino, i_lock>> PROVE HeldInv' /\ UndoneByHolder
  BY <1>0, <1>1 DEF HeldInv, LockHeld, Holding, UndoneByHolder
<1>2. ASSUME NEW t \in Task, Call(t) PROVE HeldInv' /\ UndoneByHolder
  <2>1. ASSUME Open(t) PROVE LockStep(t)
    <3>1. ~Holding(t) /\ i_lock' = i_lock
          /\ (pc' = pc \/ pc' = [pc EXCEPT ![t] = "find"])
          /\ (ino' = ino \/ ino' = [ino EXCEPT ![t] = RootInode])
      BY <2>1 DEF Open, SleepTo, Holding
    <3> QED
      BY <3>1, LocksLeft
  <2>2. ASSUME NEW d \in Fd, Close(t, d) PROVE LockStep(t)
    <3>1. ~Holding(t) /\ i_lock' = i_lock
          /\ (pc' = pc \/ pc' = [pc EXCEPT ![t] = "iput"])
          /\ (ino' = ino \/ \E x : ino' = [ino EXCEPT ![t] = x])
      BY <2>2 DEF Close, Goto, Holding, table
    <3> QED
      BY <3>1, LocksLeft
  <2>3. ASSUME NEW d \in Fd, Dup(t, d) PROVE UNCHANGED <<pc, ino, i_lock>>
    BY <2>3 DEF Dup, inodeVars, table, locals
  <2>4. ASSUME NEW d \in Fd, NEW v, Change(t, d, v) PROVE UNCHANGED <<pc, ino, i_lock>>
    BY <2>4 DEF Change, locals
  <2>5. ASSUME NEW u \in Task, Fork(t, u) PROVE UNCHANGED <<pc, ino, i_lock>>
    BY <2>5 DEF Fork, locals
  <2>6. ASSUME Sync(t) PROVE LockStep(t)
    <3>1. ~Holding(t) /\ i_lock' = i_lock /\ ino' = ino /\ pc' = [pc EXCEPT ![t] = "sync"]
      BY <2>6 DEF Sync, Goto, Holding, table, locals
    <3> QED
      BY <3>1, LocksLeft
  <2> QED
    BY <1>0, <1>1, <1>2, <2>1, <2>2, <2>3, <2>4, <2>5, <2>6, LockStepKeeps DEF Call
<1>3. ASSUME NEW t \in Task, KernelStep(t) PROVE HeldInv' /\ UndoneByHolder
  <2>1. ASSUME FindEntry(t) PROVE LockStep(t)
    <3>1. ~Holding(t) /\ i_lock' = i_lock /\ ino' = ino /\ pc' = [pc EXCEPT ![t] = "iput"]
      BY <2>1 DEF FindEntry, Goto, Holding, table
    <3> QED
      BY <3>1, LocksLeft
  <2>2. ASSUME Got(t) PROVE LockStep(t)
    <3>1. ~Holding(t) /\ i_lock' = i_lock
          /\ (ino' = ino \/ ino' = [ino EXCEPT ![t] = NULL])
          /\ \E p : pc' = [pc EXCEPT ![t] = p]
      BY <2>2 DEF Got, Goto, SleepTo, Return, Holding, table
    <3> QED
      BY <3>1, LocksLeft
  <2>3. ASSUME Failed(t) PROVE LockStep(t)
    <3>1. ~Holding(t) /\ i_lock' = i_lock /\ ino' = [ino EXCEPT ![t] = NULL]
          /\ pc' = [pc EXCEPT ![t] = "user"]
      BY <2>3 DEF Failed, SleepTo, Return, Holding, table
    <3> QED
      BY <3>1, LocksLeft
  <2> QED
    BY <1>0, <1>3, <2>1, <2>2, <2>3, InodeLockStep, LockStepKeeps DEF KernelStep
<1>4. ASSUME NEW t \in Task, SyncUnderLock(t) PROVE HeldInv' /\ UndoneByHolder
  <2>1. i_lock' = i_lock /\ ino' = ino /\ pc' = [pc EXCEPT ![t] = "deadlock"]
    BY <1>4 DEF SyncUnderLock, SleepTo, table, locals
  <2>2. Holding(t)'
    BY <2>1 DEF HeldInv, NumberInv, Holding
  <2> QED
    BY <1>0, <2>1, <2>2, LocksLeft, LockStepKeeps
<1>5. CASE UNCHANGED vars
  BY <1>1, <1>5 DEF vars, inodeVars, table, locals
<1> QED
  BY <1>2, <1>3, <1>4, <1>5 DEF Next

\* The safety behind LocksUndone (lock_inode() and unlock_inode(), inode.c:18-29):
\* a locked inode is always held by a task at work on it, which does not wait
\* for another inode meanwhile, and only such a task unlocks it.
THEOREM LocksAreHeld == Spec => []LockHeld /\ [][UndoneByHolder]_vars
<1>1. Init => HeldInv
  BY NumbersInit DEF Init, InodeInit, HeldInv, LockHeld
<1>2. HeldInv => LockHeld
  BY DEF HeldInv
<1> QED
  BY <1>1, <1>2, HeldNext, PTL DEF Spec
=============================================================================
