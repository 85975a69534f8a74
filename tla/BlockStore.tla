----------------------------- MODULE BlockStore -----------------------------
(***************************************************************************)
(* What the buffer cache (fs/buffer.c) promises to the file system: blocks *)
(* that change only when a task that holds one changes it, although buffers *)
(* come and go, reads fail and writes are put off.                         *)
(***************************************************************************)
CONSTANTS Task, Block, Value,
          None      \* no role

VARIABLES mem,      \* mem[b]: what whoever gets the block b finds in it
          role      \* of each task: <<"use", b>>, <<"free", b>> or None

storeVars == <<mem, role>>

StoreInit == mem \in [Block -> Value] /\ role = [t \in Task |-> None]

\* A task gets a block, or starts to free one.
Open(t, r) == /\ role[t] = None
              /\ role' = [role EXCEPT ![t] = r]
              /\ UNCHANGED mem

Close(t) == role' = [role EXCEPT ![t] = None] /\ UNCHANGED mem

Store(t, b, v) == /\ role[t] = <<"use", b>>
                  /\ mem' = [mem EXCEPT ![b] = v]
                  /\ UNCHANGED role

\* The contents of a freed block may be forgotten, if nobody uses it.
Drop(t, b, v) == /\ role[t] = <<"free", b>>
                 /\ \A u \in Task : role[u] # <<"use", b>>
                 /\ mem' = [mem EXCEPT ![b] = v]
                 /\ UNCHANGED role

StoreNext == \E t \in Task :
    \/ Close(t)
    \/ \E b \in Block :
          \/ \E do \in {"use", "free"} : Open(t, <<do, b>>)
          \/ \E v \in Value : Store(t, b, v) \/ Drop(t, b, v)

StoreSpec == StoreInit /\ [][StoreNext]_storeVars
=============================================================================
