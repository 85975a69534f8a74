----------------------------- MODULE FileStore -----------------------------
(***************************************************************************)
(* What the kernel promises to programs that use files: a descriptor stands *)
(* for the same inode until it is closed, files shared over dup() and      *)
(* fork() live as long as one descriptor refers to them, and an inode keeps *)
(* what was written to it, whether it is in memory or not.                 *)
(***************************************************************************)
CONSTANTS Task, Fd, File, Num, Value,
          None      \* no file, no inode

VARIABLES
    fd,         \* fd[t][d]: the file that the descriptor d of t refers to
    inode,      \* inode[f]: the number of the inode that f is open on
    value       \* value[n]: the contents of the inode n

storeVars == <<fd, inode, value>>

In(table, f) == \E t \in Task, d \in Fd : table[t][d] = f

StoreInit(init) ==
    /\ fd = [t \in Task |-> [d \in Fd |-> None]]
    /\ inode = [f \in File |-> None]
    /\ value = init

Open(t, d, f, n) ==
    /\ fd[t][d] = None /\ ~In(fd, f)
    /\ fd' = [fd EXCEPT ![t][d] = f]
    /\ inode' = [inode EXCEPT ![f] = n]
    /\ UNCHANGED value

\* The file is released with its last descriptor.
Close(t, d) ==
    LET f == fd[t][d]
    IN  /\ f # None
        /\ fd' = [fd EXCEPT ![t][d] = None]
        /\ inode' = [inode EXCEPT ![f] = IF In(fd', f) THEN @ ELSE None]
        /\ UNCHANGED value

Dup(t, d, e) ==
    /\ fd[t][d] # None /\ fd[t][e] = None
    /\ fd' = [fd EXCEPT ![t][e] = fd[t][d]]
    /\ UNCHANGED <<inode, value>>

Fork(t, u) ==
    /\ \A d \in Fd : fd[u][d] = None
    /\ fd' = [fd EXCEPT ![u] = fd[t]]
    /\ UNCHANGED <<inode, value>>

\* Only through an open file an inode is changed.
Change(t, d, v) ==
    /\ fd[t][d] # None
    /\ value' = [value EXCEPT ![inode[fd[t][d]]] = v]
    /\ UNCHANGED <<fd, inode>>

StoreNext ==
    \E t \in Task :
        \/ \E d \in Fd, f \in File, n \in Num : Open(t, d, f, n)
        \/ \E d \in Fd : Close(t, d)
        \/ \E d, e \in Fd : Dup(t, d, e)
        \/ \E u \in Task : Fork(t, u)
        \/ \E d \in Fd, v \in Value : Change(t, d, v)
=============================================================================
