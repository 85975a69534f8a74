------------------------- MODULE BufferCache_proofs -------------------------
(***************************************************************************)
(* Theorems about BufferCache, for any number of tasks, blocks and buffers. *)
(***************************************************************************)
EXTENDS BufferCache, FiniteSetTheorems, TLAPS

USE CacheAssumption

-----------------------------------------------------------------------------
\* blocknr is only ever changed by getblk(), when it takes a buffer, and that
\* is one stretch without sleep from find_buffer() to insert_into_queues().
BlockInv == DOMAIN blocknr = Buffer /\ OneBufferPerBlock

\* Taking a buffer for a block that no buffer has keeps blocks apart.
LEMMA TakeInv ==
    ASSUME BlockInv, NEW t \in Task, NEW x,
           ~Overtaken(call[t].block), Take(t, x)
    PROVE  BlockInv'
<1>1. \A y \in Buffer : blocknr[y] # call[t].block
  BY DEF Overtaken, Cached
<1>2. blocknr' = [blocknr EXCEPT ![x] = call[t].block]
  BY DEF Take
<1> QED
  BY <1>1, <1>2 DEF BlockInv, OneBufferPerBlock

\* Every step keeps BlockInv.
LEMMA BlockNext == BlockInv /\ [Next]_vars => BlockInv'
<1> SUFFICES ASSUME BlockInv, [Next]_vars PROVE BlockInv'
  OBVIOUS
<1>1. ASSUME blocknr' = blocknr PROVE BlockInv'
  BY <1>1 DEF BlockInv, OneBufferPerBlock
<1>2. ASSUME NEW t \in Task, NEW op, NEW b, Call(t, op, b) PROVE BlockInv'
  BY <1>1, <1>2 DEF Call, buffers
<1>3. ASSUME NEW t \in Task, Getblk(t) PROVE BlockInv'
  BY <1>1, <1>3 DEF Getblk, Sleep, buffers
<1>4. ASSUME NEW t \in Task, GetHashTable(t) PROVE BlockInv'
  BY <1>1, <1>4 DEF GetHashTable, Sleep, buffers
<1>5. ASSUME NEW t \in Task, ChosenBuffer(t) PROVE BlockInv'
  <2>1. \/ blocknr' = blocknr
        \/ ~Overtaken(call[t].block) /\ Take(t, bh[t])
    BY <1>5 DEF ChosenBuffer, Sleep, buffers
  <2> QED
    BY <1>1, <2>1, TakeInv
<1>6. ASSUME NEW t \in Task, SyncDev(t) PROVE BlockInv'
  BY <1>1, <1>6 DEF SyncDev, Sleep, buffers
<1>7. ASSUME NEW t \in Task, LlRwBlock(t) \/ Bread(t) \/ Finish(t) \/ Brelse(t)
      PROVE  BlockInv'
  BY <1>1, <1>7 DEF LlRwBlock, Bread, Finish, Brelse, Sleep, buffers
<1>8. ASSUME NEW t \in Task, NEW v, Change(t, v) PROVE BlockInv'
  BY <1>1, <1>8 DEF Change
<1>9. ASSUME NEW x \in Buffer, NEW good, EndWrite(x) \/ EndRead(x, good)
      PROVE  BlockInv'
  BY <1>1, <1>9 DEF EndWrite, EndRead
<1>10. CASE UNCHANGED vars
  BY <1>1, <1>10 DEF vars, buffers
<1>11. ASSUME NEW t \in Task, Step(t) PROVE BlockInv'
  BY <1>2, <1>3, <1>4, <1>5, <1>6, <1>7, <1>8, <1>11 DEF Step
<1> QED
  BY <1>9, <1>10, <1>11 DEF Next

\* No block is ever in two buffers: getblk() may sleep three times between
\* the search for the block and the taking of a buffer, but not after its last
\* find_buffer().
THEOREM OneBuffer == Spec => []OneBufferPerBlock
<1>1. Init => BlockInv
  BY DEF Init, BlockInv, OneBufferPerBlock
<1>2. BlockInv => OneBufferPerBlock
  BY DEF BlockInv
<1>3. QED
  BY <1>1, <1>2, BlockNext, PTL DEF Spec

-----------------------------------------------------------------------------
(***************************************************************************)
(* The inductive invariant behind the counts, the data and BlockStore.     *)
(***************************************************************************)

\* Every buffer is in the free list, once.
ListInv ==
    /\ \A m, n \in 1..NR_BUFFERS : free_list[m] = free_list[n] => m = n
    /\ \A x \in Buffer : \E n \in 1..NR_BUFFERS : free_list[n] = x

\* What a task has at its place.  A buffer that it has found or taken keeps the
\* block, so the check of get_hash_table() after the wait (buffer.c:169) never
\* finds another.
Operation == [op : {"bread", "free", "sync"}, block : Block \cup {NULL}]
Counted == {"get_hash_table", "ll_rw_block", "bread", "hold", "brelse"}
PlaceOK(t) ==
        /\ pc[t] = "idle" => call[t] = NULL /\ bh[t] = NULL
        /\ pc[t] # "idle" => call[t] \in Operation
                             /\ (call[t].op # "sync" => call[t].block \in Block)
        /\ pc[t] = "getblk" => call[t].op # "sync" /\ bh[t] = NULL
        /\ pc[t] \in Counted => /\ bh[t] \in Buffer
                                /\ blocknr[bh[t]] = call[t].block
                                /\ call[t].op # "sync"
        /\ pc[t] \in {"chosen", "ll_rw_block", "bread", "hold"} => call[t].op = "bread"
        /\ pc[t] = "chosen" => bh[t] \in Buffer
        /\ pc[t] = "sync_dev" => \/ call[t].op = "bread" /\ bh[t] \in Buffer
                                 \/ call[t].op = "sync" /\ bh[t] = NULL
PlaceInv == \A t \in Task : PlaceOK(t)

\* While a block is being freed nobody else uses it.
FreeInv ==
    \A t, u \in Task :
        /\ t # u
        /\ pc[t] # "idle" /\ pc[u] # "idle"
        /\ call[t].op = "free"
        => call[u].block # call[t].block

\* Requests and the bits of a buffer.  What is valid, clean and unlocked is
\* what the disk has.
BufferOK(x) ==
        /\ Locked(x) \/ b_uptodate[x] => blocknr[x] \in Block
        /\ b_lock[x] = "READ" => ~b_uptodate[x]
        /\ b_lock[x] = "WRITE" => b_uptodate[x]
        /\ b_dirt[x] => b_uptodate[x]
        /\ b_uptodate[x] /\ ~b_dirt[x] /\ ~Locked(x) => data[x] = disk[blocknr[x]]
BufferInv == \A x \in Buffer : BufferOK(x)

HoldInv == \A t \in Task : pc[t] = "hold" => b_uptodate[bh[t]]

CacheInv == /\ CountsAccounted /\ OneBufferPerBlock
            /\ ListInv /\ PlaceInv /\ FreeInv /\ BufferInv /\ HoldInv

-----------------------------------------------------------------------------
\* A natural number that is the least of a set, by well-foundedness.
LEMMA LeastOf ==
    ASSUME NEW S \in SUBSET Nat, S # {}
    PROVE  \E m \in S : \A n \in S : m <= n
<1> DEFINE R == OpToRel(<, Nat)
<1>1. \E m \in S : \A n \in S : ~ (<<n, m>> \in R)
  <2>1. IsWellFoundedOn(R, Nat)
    BY NatLessThanWellFounded
  <2> HIDE DEF R
  <2> QED
    BY <2>1, WFMin
<1>2. PICK m \in S : \A n \in S : ~ (<<n, m>> \in R)
  BY <1>1
<1>3. \A n \in S : m <= n
  <2> TAKE n \in S
  <2>1. m \in Nat /\ n \in Nat
    OBVIOUS
  <2>2. ~ (n < m)
    BY <1>2, <2>1 DEF OpToRel
  <2> QED
    BY <2>1, <2>2
<1> QED
  BY <1>3

\* The position of a buffer in the free list.
LEMMA PositionProps ==
    ASSUME TypeOK, ListInv, NEW x \in Buffer
    PROVE  /\ Position(x) \in 1..NR_BUFFERS
           /\ free_list[Position(x)] = x
  BY DEF ListInv, Position

\* The scan of the free list finds an unused buffer if there is one.
LEMMA ChosenProps ==
    ASSUME TypeOK, ListInv, Unused # {}
    PROVE  Chosen \in Unused
<1>1. \A x \in Buffer : Badness(x) \in Nat /\ Position(x) \in Nat
  BY PositionProps DEF TypeOK, Badness
<1>2. PICK a \in Unused : \A y \in Unused : Badness(a) <= Badness(y)
  <2> DEFINE S == {Badness(y) : y \in Unused}
  <2>1. S \in SUBSET Nat /\ S # {}
    BY <1>1 DEF Unused
  <2>2. \E m \in S : \A n \in S : m <= n
    BY <2>1, LeastOf
  <2> QED
    BY <2>2
<1> DEFINE Best == {y \in Unused : Badness(y) = Badness(a)}
<1>3. PICK x \in Best : \A y \in Best : Position(x) <= Position(y)
  <2> DEFINE S == {Position(y) : y \in Best}
  <2>1. S \in SUBSET Nat /\ S # {}
    BY <1>1 DEF Unused
  <2>2. \E m \in S : \A n \in S : m <= n
    BY <2>1, LeastOf
  <2> QED
    BY <2>2
<1>4. ASSUME NEW y \in Unused \ {x}
      PROVE  \/ Badness(x) < Badness(y)
             \/ (Badness(x) = Badness(y) /\ Position(x) < Position(y))
  <2>1. x \in Buffer /\ y \in Buffer /\ a \in Buffer
    BY DEF Unused
  <2>2. Badness(x) <= Badness(y)
    BY <1>2
  <2>3. Position(x) # Position(y)
    BY <2>1, PositionProps
  <2>4. Badness(x) = Badness(y) => Position(x) <= Position(y)
    BY <1>3
  <2> HIDE DEF Best
  <2> QED
    BY <1>1, <2>1, <2>2, <2>3, <2>4
<1> QED
  BY <1>3, <1>4 DEF Chosen

\* A buffer that is moved to the end of the free list stays there once.
LEMMA ToBackProps ==
    ASSUME TypeOK, ListInv, NEW x \in Buffer, free_list' = ToBack(x)
    PROVE  free_list' \in [1..NR_BUFFERS -> Buffer] /\ ListInv'
<1> DEFINE p == Position(x)
           old == [n \in 1..NR_BUFFERS |-> IF n = NR_BUFFERS THEN p ELSE IF n < p THEN n ELSE n + 1]
<1>1. p \in 1..NR_BUFFERS /\ free_list[p] = x
  BY PositionProps
<1> HIDE DEF p
<1>2. \A n \in 1..NR_BUFFERS : old[n] \in 1..NR_BUFFERS
  BY <1>1
<1>3. \A n \in 1..NR_BUFFERS : free_list'[n] = free_list[old[n]]
  BY <1>1 DEF ToBack, p
<1>4. \A m, n \in 1..NR_BUFFERS : old[m] = old[n] => m = n
  BY <1>1
<1>5. \A k \in 1..NR_BUFFERS : \E n \in 1..NR_BUFFERS : old[n] = k
  <2> TAKE k \in 1..NR_BUFFERS
  <2>1. CASE k = p
    BY <2>1, <1>1
  <2>2. CASE k < p
    BY <2>2, <1>1
  <2>3. CASE k > p
    BY <2>3, <1>1 
  <2> QED
    BY <2>1, <2>2, <2>3, <1>1
<1> HIDE DEF old
<1>6. free_list' \in [1..NR_BUFFERS -> Buffer]
  BY <1>1 DEF ToBack, TypeOK, p
<1>7. \A m, n \in 1..NR_BUFFERS : free_list'[m] = free_list'[n] => m = n
  <2> TAKE m, n \in 1..NR_BUFFERS
  <2> HAVE free_list'[m] = free_list'[n]
  <2>1. old[m] = old[n]
    BY <1>2, <1>3 DEF ListInv
  <2> QED
    BY <2>1, <1>4
<1>8. \A y \in Buffer : \E n \in 1..NR_BUFFERS : free_list'[n] = y
  <2> TAKE y \in Buffer
  <2>1. PICK k \in 1..NR_BUFFERS : free_list[k] = y
    BY DEF ListInv
  <2>2. PICK n \in 1..NR_BUFFERS : old[n] = k
    BY <1>5
  <2> QED
    BY <2>1, <2>2, <1>3
<1> QED
  BY <1>6, <1>7, <1>8 DEF ListInv

\* What t does to its own place changes the counted users only by t.
Uses(t, x) == bh[t] = x /\ pc[t] \notin {"chosen", "sync_dev"}
Ones(P) == IF P THEN 1 ELSE 0

LEMMA CountsStep ==
    ASSUME CountsAccounted, TypeOK', NEW t \in Task,
           \A u \in Task \ {t} : bh'[u] = bh[u] /\ pc'[u] = pc[u],
           \A x \in Buffer : b_count'[x] = b_count[x] + Ones(Uses(t, x)') - Ones(Uses(t, x))
    PROVE  CountsAccounted'
<1> SUFFICES ASSUME NEW x \in Buffer PROVE b_count'[x] = Cardinality(Users(x)')
  BY DEF CountsAccounted
<1>1. IsFiniteSet(Users(x)) /\ Cardinality(Users(x)) \in Nat
  BY FS_Subset, FS_CardinalityType DEF Users
<1>2. Users(x)' = IF Uses(t, x)' THEN Users(x) \cup {t} ELSE Users(x) \ {t}
  BY DEF Users, Uses
<1>3. t \in Users(x) <=> Uses(t, x)
  BY DEF Users, Uses
<1>4. b_count[x] = Cardinality(Users(x))
  BY DEF CountsAccounted
<1>5. /\ Cardinality(Users(x) \cup {t}) = IF t \in Users(x) THEN Cardinality(Users(x))
                                          ELSE Cardinality(Users(x)) + 1
      /\ Cardinality(Users(x) \ {t}) = IF t \in Users(x) THEN Cardinality(Users(x)) - 1
                                       ELSE Cardinality(Users(x))
  BY <1>1, FS_AddElement, FS_RemoveElement
<1>6. b_count'[x] = b_count[x] + Ones(Uses(t, x)') - Ones(Uses(t, x))
  OBVIOUS
<1> HIDE DEF Users, Uses
<1>7. CASE Uses(t, x)'
  BY <1>1, <1>2, <1>3, <1>4, <1>5, <1>6, <1>7 DEF Ones
<1>8. CASE ~ Uses(t, x)'
  BY <1>1, <1>2, <1>3, <1>4, <1>5, <1>6, <1>8 DEF Ones
<1> QED
  BY <1>7, <1>8

LEMMA NullNoBuffer == NULL \notin Buffer
<1>1. Buffer \subseteq Nat
  BY DEF Buffer
<1> QED
  BY <1>1

LEMMA UsersFinite == ASSUME NEW x PROVE IsFiniteSet(Users(x))
<1>1. Users(x) \subseteq Task
  BY DEF Users
<1> QED
  BY <1>1, FS_Subset

\* Whoever has found or taken a buffer is counted.
LEMMA UserCounts ==
    ASSUME CacheInv, NEW t \in Task, pc[t] \in Counted
    PROVE  b_count[bh[t]] \in Nat \ {0}
<1>1. bh[t] \in Buffer /\ t \in Users(bh[t])
  BY DEF CacheInv, PlaceInv, PlaceOK, Counted, Users
<1>3. Cardinality(Users(bh[t])) \in Nat \ {0}
  BY <1>1, UsersFinite, FS_CardinalityType, FS_EmptySet
<1> QED
  BY <1>1, <1>3 DEF CacheInv, CountsAccounted

\* What one task does: only the task t moves.
OnlyMoves(t) ==
    \A u \in Task \ {t} : pc'[u] = pc[u] /\ call'[u] = call[u] /\ bh'[u] = bh[u]

\* The places of the other tasks, when only t moves and nobody loses the block
\* of the buffer that it has.
LEMMA OthersPlaces ==
    ASSUME PlaceInv, NEW t \in Task, PlaceOK(t)', OnlyMoves(t),
           \A u \in Task : pc[u] \in Counted => blocknr'[bh[u]] = blocknr[bh[u]]
    PROVE  PlaceInv'
<1> SUFFICES ASSUME NEW u \in Task \ {t} PROVE PlaceOK(u)'
  BY DEF PlaceInv
<1> QED
  BY DEF PlaceInv, PlaceOK, OnlyMoves

LEMMA FreeKept ==
    ASSUME FreeInv, NEW t \in Task, OnlyMoves(t),
           pc'[t] # "idle" => pc[t] # "idle" /\ call'[t] = call[t]
    PROVE  FreeInv'
<1>1. \A u \in Task : pc'[u] # "idle" => pc[u] # "idle" /\ call'[u] = call[u]
  BY DEF OnlyMoves
<1> QED
  BY <1>1 DEF FreeInv

\* A step in which t moves, and the count of a buffer changes as t begins or
\* ends to use it.
LEMMA MoveInv ==
    ASSUME CacheInv, NEW t \in Task, TypeOK', OnlyMoves(t),
           UNCHANGED <<free_list, blocknr, b_dirt, b_uptodate, b_lock, data, disk>>,
           PlaceOK(t)', FreeInv',
           pc'[t] = "hold" => b_uptodate[bh'[t]],
           \A x \in Buffer : b_count'[x] = b_count[x] + Ones(Uses(t, x)') - Ones(Uses(t, x))
    PROVE  CacheInv'
<1>1. CountsAccounted'
  BY CountsStep DEF CacheInv, OnlyMoves
<1>2. OneBufferPerBlock'
  BY DEF CacheInv, OneBufferPerBlock
<1>3. ListInv' /\ BufferInv'
  BY DEF CacheInv, ListInv, BufferInv, BufferOK, Locked
<1>4. PlaceInv'
  BY OthersPlaces DEF CacheInv
<1>5. HoldInv'
  BY DEF CacheInv, HoldInv, OnlyMoves
<1> QED
  BY <1>1, <1>2, <1>3, <1>4, <1>5 DEF CacheInv

\* A step in which a buffer changes and nobody moves.
LEMMA BitsInv ==
    ASSUME CacheInv, TypeOK', BufferInv', HoldInv',
           UNCHANGED <<free_list, blocknr, b_count, pc, call, bh>>
    PROVE  CacheInv'
<1>1. OneBufferPerBlock' /\ ListInv' /\ FreeInv' /\ PlaceInv'
  BY DEF CacheInv, OneBufferPerBlock, ListInv, FreeInv, PlaceInv, PlaceOK
<1>2. \A x \in Buffer : Users(x)' = Users(x)
  BY DEF Users
<1> QED
  BY <1>1, <1>2 DEF CacheInv, CountsAccounted

LEMMA SleepInv == ASSUME CacheInv, Sleep PROVE CacheInv'
<1>1. TypeOK'
  BY DEF CacheInv, CountsAccounted, TypeOK, Sleep, buffers
<1>2. BufferInv' /\ HoldInv' /\ UNCHANGED <<free_list, blocknr, b_count, pc, call, bh>>
  BY DEF CacheInv, BufferInv, BufferOK, Locked, HoldInv, Sleep, buffers
<1> QED
  BY <1>1, <1>2, BitsInv

LEMMA CallInv ==
    ASSUME CacheInv, NEW t \in Task, NEW op \in {"bread", "free", "sync"},
           NEW b \in Block \cup {NULL}, op # "sync" => b \in Block, Call(t, op, b)
    PROVE  CacheInv'
<1>1. TypeOK /\ PlaceOK(t)
  BY DEF CacheInv, CountsAccounted, PlaceInv
<1>2. TypeOK'
  BY <1>1 DEF TypeOK, Call, Goto, buffers, Places
<1>3. /\ pc[t] = "idle" /\ UNCHANGED <<buffers, disk, bh>>
      /\ call' = [call EXCEPT ![t] = [op |-> op, block |-> b]]
      /\ pc' = [pc EXCEPT ![t] = IF op = "sync" THEN "sync_dev" ELSE "getblk"]
  BY DEF Call, Goto
<1>4. bh[t] = NULL
  BY <1>1, <1>3 DEF PlaceOK
<1>5. OnlyMoves(t)
  BY <1>1, <1>3 DEF OnlyMoves, TypeOK
<1>6. PlaceOK(t)'
  BY <1>1, <1>3, <1>4 DEF PlaceOK, Operation, Counted, TypeOK
<1>7. \A x \in Buffer : b_count'[x] = b_count[x] + Ones(Uses(t, x)') - Ones(Uses(t, x))
  <2> TAKE x \in Buffer
  <2>1. x # NULL /\ b_count[x] \in Nat
    BY <1>1, NullNoBuffer DEF TypeOK
  <2>2. ~ Uses(t, x) /\ ~ Uses(t, x)'
    BY <1>3, <1>4, <2>1 DEF Uses
  <2> QED
    BY <2>1, <2>2, <1>3 DEF Ones, buffers
<1>8. FreeInv'
  <2>1. \A u \in Task \ {t} : pc[u] # "idle" => 
             /\ call[u].op = "free" => call[u].block # b
             /\ op = "free" => call[u].block # b
    <3> TAKE u \in Task \ {t}
    <3> HAVE pc[u] # "idle"
    <3>1. call[u] \in Operation
      BY DEF CacheInv, PlaceInv, PlaceOK
    <3> QED
      BY <3>1 DEF Operation, Call
  <2> QED
    BY <1>1, <1>3, <2>1 DEF CacheInv, FreeInv, TypeOK
<1> QED
  BY <1>1, <1>2, <1>3, <1>5, <1>6, <1>7, <1>8, MoveInv DEF buffers

\* The counts, when the task goes on with the buffer that it has, or without.
LEMMA CountsKept ==
    ASSUME TypeOK, NEW t \in Task, b_count' = b_count,
           \A x \in Buffer : Uses(t, x)' <=> Uses(t, x)
    PROVE  \A x \in Buffer : b_count'[x] = b_count[x] + Ones(Uses(t, x)') - Ones(Uses(t, x))
<1> TAKE x \in Buffer
<1>1. b_count[x] \in Nat /\ (Uses(t, x)' <=> Uses(t, x))
  BY DEF TypeOK
<1> HIDE DEF Uses
<1> QED
  BY <1>1 DEF Ones

LEMMA GetblkInv ==
    ASSUME CacheInv, NEW t \in Task, Getblk(t)
    PROVE  CacheInv'
<1>1. TypeOK /\ PlaceOK(t)
  BY DEF CacheInv, CountsAccounted, PlaceInv
<1>2. /\ pc[t] = "getblk" /\ bh[t] = NULL
      /\ call[t].op \in {"bread", "free"} /\ call[t].block \in Block
  BY <1>1 DEF Getblk, At, PlaceOK, Operation
<1>3. ASSUME NEW x \in Cached(call[t].block), b_count' = Use(x),
             bh' = [bh EXCEPT ![t] = x], Goto(t, "get_hash_table"),
             UNCHANGED <<free_list, blocknr, b_dirt, b_uptodate, b_lock, data, disk, call, i>>
      PROVE  CacheInv'
  <2>1. x \in Buffer /\ blocknr[x] = call[t].block
    BY DEF Cached
  <2>2. TypeOK'
    <3>1. b_count' \in [Buffer -> Nat]
      BY <1>1, <1>3, <2>1 DEF TypeOK, Use
    <3>2. /\ pc' \in [Task -> Places] /\ cpu' \in Task \cup {NULL}
          /\ bh' \in [Task -> Buffer \cup {NULL}]
      BY <1>1, <1>3, <2>1 DEF TypeOK, Goto, Places
    <3> QED
      BY ONLY <1>1, <1>3, <3>1, <3>2 DEF TypeOK
  <2>3. /\ pc' = [pc EXCEPT ![t] = "get_hash_table"] /\ OnlyMoves(t)
    BY <1>1, <1>3 DEF TypeOK, Goto, OnlyMoves
  <2>4. PlaceOK(t)'
    BY <1>1, <1>2, <1>3, <2>1, <2>3 DEF PlaceOK, Counted, TypeOK
  <2>5. \A y \in Buffer : b_count'[y] = b_count[y] + Ones(Uses(t, y)') - Ones(Uses(t, y))
    <3> TAKE y \in Buffer
    <3>1. y # NULL /\ b_count[y] \in Nat
      BY <1>1, NullNoBuffer DEF TypeOK
    <3>2. ~ Uses(t, y) /\ (Uses(t, y)' <=> y = x)
      BY <1>1, <1>2, <1>3, <2>3, <3>1 DEF Uses, TypeOK
    <3>3. b_count'[y] = IF y = x THEN b_count[y] + 1 ELSE b_count[y]
      BY <1>1, <1>3 DEF Use, TypeOK
    <3> QED
      BY <3>1, <3>2, <3>3 DEF Ones
  <2>6. FreeInv' /\ pc'[t] # "hold"
    BY <1>1, <1>2, <1>3, <2>3, FreeKept DEF CacheInv, TypeOK
  <2> QED
    BY <1>3, <2>2, <2>3, <2>4, <2>5, <2>6, MoveInv
<1>4. ASSUME Return(t), UNCHANGED <<buffers, disk>>
      PROVE  CacheInv'
  <2>1. TypeOK'
    BY <1>1, <1>4 DEF TypeOK, Return, buffers, Places
  <2>2. /\ pc'[t] = "idle" /\ call'[t] = NULL /\ bh'[t] = NULL /\ OnlyMoves(t)
    BY <1>1, <1>4 DEF TypeOK, Return, OnlyMoves
  <2>3. PlaceOK(t)'
    BY <2>2 DEF PlaceOK, Counted
  <2>4. \A x \in Buffer : Uses(t, x)' <=> Uses(t, x)
    BY <1>2, <2>2, NullNoBuffer DEF Uses
  <2>5. FreeInv'
    BY <2>2, FreeKept DEF CacheInv
  <2> QED
    BY <1>1, <1>4, <2>1, <2>2, <2>3, <2>4, <2>5, CountsKept, MoveInv DEF buffers
<1>5. ASSUME call[t].op = "bread", Unused # {}, bh' = [bh EXCEPT ![t] = Chosen],
             Goto(t, "chosen"), UNCHANGED <<buffers, disk, call, i>>
      PROVE  CacheInv'
  <2>1. Chosen \in Buffer
    BY <1>1, <1>5, ChosenProps DEF CacheInv, Unused
  <2>2. TypeOK'
    BY <1>1, <1>5, <2>1 DEF TypeOK, Goto, buffers, Places
  <2>3. /\ pc'[t] = "chosen" /\ bh'[t] = Chosen /\ OnlyMoves(t)
    BY <1>1, <1>5 DEF TypeOK, Goto, OnlyMoves
  <2>4. PlaceOK(t)'
    BY <1>1, <1>2, <1>5, <2>1, <2>3 DEF PlaceOK, Counted
  <2>5. \A x \in Buffer : Uses(t, x)' <=> Uses(t, x)
    BY <1>2, <2>3, NullNoBuffer DEF Uses
  <2>6. FreeInv'
    BY <1>2, <1>5, <2>3, FreeKept DEF CacheInv
  <2> QED
    BY <1>1, <1>5, <2>2, <2>3, <2>4, <2>5, <2>6, CountsKept, MoveInv DEF buffers
<1> QED
  BY <1>3, <1>4, <1>5, SleepInv DEF Getblk

LEMMA BreadInv ==
    ASSUME CacheInv, NEW t \in Task, Bread(t)
    PROVE  CacheInv'
<1>1. TypeOK /\ PlaceOK(t)
  BY DEF CacheInv, CountsAccounted, PlaceInv
<1>2. TypeOK'
  <2>1. UNCHANGED <<buffers, disk, call, bh, i>>
    BY DEF Bread, Sleep
  <2>2. pc' \in [Task -> Places]
    BY <1>1 DEF TypeOK, Bread, Goto, Sleep, Places
  <2>3. cpu' \in Task \cup {NULL}
    BY DEF Bread, Goto, Sleep
  <2> QED
    BY ONLY <1>1, <2>1, <2>2, <2>3 DEF TypeOK, buffers
<1>3. CASE ~Sleep
  <2>1. /\ pc[t] = "bread" /\ pc'[t] \in {"hold", "brelse"} /\ OnlyMoves(t)
        /\ UNCHANGED <<buffers, disk, call, bh>>
    BY <1>1, <1>3 DEF Bread, At, Goto, OnlyMoves, TypeOK
  <2>2. PlaceOK(t)'
    BY <1>1, <2>1 DEF PlaceOK, Counted, buffers
  <2>3. \A x \in Buffer : Uses(t, x)' <=> Uses(t, x)
    BY <2>1 DEF Uses
  <2>4. pc'[t] = "hold" => b_uptodate[bh'[t]]
    BY <1>1, <1>3, <2>1 DEF Bread, Goto, TypeOK
  <2>5. FreeInv'
    BY <2>1, FreeKept DEF CacheInv
  <2> QED
    BY <1>1, <1>2, <2>1, <2>2, <2>3, <2>4, <2>5, CountsKept, MoveInv DEF buffers
<1> QED
  BY <1>3, SleepInv

LEMMA FinishInv ==
    ASSUME CacheInv, NEW t \in Task, Finish(t)
    PROVE  CacheInv'
<1>1. TypeOK /\ PlaceOK(t)
  BY DEF CacheInv, CountsAccounted, PlaceInv
<1>2. TypeOK'
  BY <1>1 DEF TypeOK, Finish, Goto, buffers, Places
<1>3. /\ pc[t] = "hold" /\ pc'[t] = "brelse" /\ OnlyMoves(t)
      /\ UNCHANGED <<buffers, disk, call, bh>>
  BY <1>1 DEF Finish, Goto, OnlyMoves, TypeOK
<1>4. PlaceOK(t)'
  BY <1>1, <1>3 DEF PlaceOK, Counted, buffers
<1>5. \A x \in Buffer : Uses(t, x)' <=> Uses(t, x)
  BY <1>3 DEF Uses
<1>6. FreeInv'
  BY <1>3, FreeKept DEF CacheInv
<1> QED
  BY <1>1, <1>2, <1>3, <1>4, <1>5, <1>6, CountsKept, MoveInv DEF buffers

LEMMA BrelseInv ==
    ASSUME CacheInv, NEW t \in Task, Brelse(t)
    PROVE  CacheInv'
<1>1. TypeOK /\ PlaceOK(t)
  BY DEF CacheInv, CountsAccounted, PlaceInv
<1>2. pc[t] = "brelse" /\ bh[t] \in Buffer /\ b_count[bh[t]] \in Nat \ {0}
  BY <1>1, UserCounts DEF Brelse, At, PlaceOK, Counted
<1>3. CASE ~Sleep
  <2>1. /\ b_count' = [b_count EXCEPT ![bh[t]] = @ - 1] /\ Return(t)
        /\ UNCHANGED <<free_list, blocknr, b_dirt, b_uptodate, b_lock, data, disk>>
    BY <1>3 DEF Brelse
  <2>2. TypeOK'
    BY <1>1, <1>2, <2>1 DEF TypeOK, Return, Places
  <2>3. /\ pc'[t] = "idle" /\ call'[t] = NULL /\ bh'[t] = NULL /\ OnlyMoves(t)
    BY <1>1, <2>1 DEF TypeOK, Return, OnlyMoves
  <2>4. PlaceOK(t)'
    BY <2>3 DEF PlaceOK, Counted
  <2>5. \A x \in Buffer : b_count'[x] = b_count[x] + Ones(Uses(t, x)') - Ones(Uses(t, x))
    <3> TAKE x \in Buffer
    <3>1. x # NULL /\ b_count[x] \in Nat
      BY <1>1, NullNoBuffer DEF TypeOK
    <3>2. ~ Uses(t, x)' /\ (Uses(t, x) <=> x = bh[t])
      BY <1>2, <2>3, <3>1 DEF Uses
    <3>3. b_count'[x] = IF x = bh[t] THEN b_count[x] - 1 ELSE b_count[x]
      BY <1>1, <2>1 DEF TypeOK
    <3> QED
      BY <3>1, <3>2, <3>3 DEF Ones
  <2>6. FreeInv'
    BY <2>3, FreeKept DEF CacheInv
  <2> QED
    BY <2>1, <2>2, <2>3, <2>4, <2>5, <2>6, MoveInv
<1> QED
  BY <1>3, SleepInv

LEMMA GetHashTableInv ==
    ASSUME CacheInv, NEW t \in Task, GetHashTable(t)
    PROVE  CacheInv'
<1>1. TypeOK /\ PlaceOK(t)
  BY DEF CacheInv, CountsAccounted, PlaceInv
<1>2. /\ pc[t] = "get_hash_table" /\ bh[t] \in Buffer /\ blocknr[bh[t]] = call[t].block
      /\ b_count[bh[t]] \in Nat \ {0}
  BY <1>1, UserCounts DEF GetHashTable, At, PlaceOK, Counted
<1>3. ASSUME call[t].op = "bread", Got(t, bh[t]), UNCHANGED <<buffers, disk, call, bh, i>>
      PROVE  CacheInv'
  <2>1. TypeOK'
    BY <1>1, <1>3 DEF TypeOK, Got, Goto, buffers, Places
  <2>2. pc'[t] \in {"hold", "ll_rw_block"} /\ OnlyMoves(t)
    BY <1>1, <1>3 DEF TypeOK, Got, Goto, OnlyMoves
  <2>3. PlaceOK(t)'
    BY <1>1, <1>2, <1>3, <2>2 DEF PlaceOK, Counted, buffers
  <2>4. \A x \in Buffer : Uses(t, x)' <=> Uses(t, x)
    BY <1>2, <1>3, <2>2 DEF Uses
  <2>5. pc'[t] = "hold" => b_uptodate[bh'[t]]
    BY <1>1, <1>3 DEF Got, Goto, TypeOK
  <2>6. FreeInv'
    BY <1>2, <1>3, <2>2, FreeKept DEF CacheInv
  <2> QED
    BY <1>1, <1>3, <2>1, <2>2, <2>3, <2>4, <2>5, <2>6, CountsKept, MoveInv DEF buffers
<1>4. ASSUME call[t].op = "free", ~Locked(bh[t]),
             b_dirt' = [b_dirt EXCEPT ![bh[t]] = FALSE],
             b_uptodate' = [b_uptodate EXCEPT ![bh[t]] = FALSE],
             Goto(t, "brelse"),
             UNCHANGED <<free_list, blocknr, b_count, b_lock, data, disk, call, bh, i>>
      PROVE  CacheInv'
  <2>1. TypeOK'
    BY <1>1, <1>4 DEF TypeOK, Goto, Places
  <2>2. pc'[t] = "brelse" /\ OnlyMoves(t)
    BY <1>1, <1>4 DEF TypeOK, Goto, OnlyMoves
  <2>3. PlaceOK(t)'
    BY <1>1, <1>2, <1>4, <2>2 DEF PlaceOK, Counted
  <2>4. PlaceInv'
    BY <1>4, <2>2, <2>3, OthersPlaces DEF CacheInv
  <2>5. \A x \in Buffer : Uses(t, x)' <=> Uses(t, x)
    BY <1>2, <1>4, <2>2 DEF Uses
  <2>6. CountsAccounted'
    BY <1>1, <1>4, <2>1, <2>2, <2>5, CountsKept, CountsStep DEF CacheInv, OnlyMoves
  <2>7. FreeInv'
    BY <1>2, <1>4, <2>2, FreeKept DEF CacheInv
  <2>8. ListInv' /\ OneBufferPerBlock'
    BY <1>4 DEF CacheInv, ListInv, OneBufferPerBlock
  <2>9. BufferInv'
    BY <1>1, <1>2, <1>4 DEF CacheInv, BufferInv, BufferOK, Locked, TypeOK
  <2>10. HoldInv'
    <3> SUFFICES ASSUME NEW u \in Task, pc'[u] = "hold" PROVE b_uptodate'[bh[u]]
      BY <1>4 DEF HoldInv
    <3>1. u # t /\ pc[u] = "hold" /\ b_uptodate[bh[u]]
      BY <2>2 DEF OnlyMoves, CacheInv, HoldInv
    <3>2. bh[u] \in Buffer /\ blocknr[bh[u]] = call[u].block
      BY <3>1 DEF CacheInv, PlaceInv, PlaceOK, Counted
    <3>3. call[u].block # call[t].block
      BY <1>2, <1>4, <3>1 DEF CacheInv, FreeInv
    <3> QED
      BY <1>1, <1>2, <1>4, <3>1, <3>2, <3>3 DEF TypeOK
  <2> QED
    BY <2>4, <2>6, <2>7, <2>8, <2>9, <2>10 DEF CacheInv
<1> QED
  BY <1>2, <1>3, <1>4, SleepInv DEF GetHashTable

LEMMA TakeCacheInv ==
    ASSUME CacheInv, NEW t \in Task, pc[t] = "chosen",
           ~Locked(bh[t]), ~Taken(bh[t]), ~HasToSync(bh[t]), ~Overtaken(call[t].block),
           Take(t, bh[t])
    PROVE  CacheInv'
<1> DEFINE x == bh[t]
           b == call[t].block
<1>1. TypeOK /\ PlaceOK(t)
  BY DEF CacheInv, CountsAccounted, PlaceInv
<1>2. x \in Buffer /\ b \in Block /\ call[t].op = "bread" /\ b_count[x] = 0
  BY <1>1 DEF PlaceOK, Taken, TypeOK
<1>3. \A u \in Task : pc[u] \in Counted => bh[u] # x
  BY <1>2, UserCounts
<1>4. free_list' \in [1..NR_BUFFERS -> Buffer] /\ ListInv'
  BY <1>1, <1>2, ToBackProps DEF CacheInv, Take
<1> HIDE DEF x, b
<1>5. /\ b_count' = [b_count EXCEPT ![x] = 1]
      /\ b_dirt' = [b_dirt EXCEPT ![x] = FALSE]
      /\ b_uptodate' = [b_uptodate EXCEPT ![x] = FALSE]
      /\ blocknr' = [blocknr EXCEPT ![x] = b]
      /\ pc' = [pc EXCEPT ![t] = "ll_rw_block"] /\ cpu' = t
      /\ UNCHANGED <<b_lock, data, disk, call, bh, i>>
  BY DEF Take, Goto, x, b
<1>6. TypeOK'
  BY <1>1, <1>2, <1>4, <1>5 DEF TypeOK, Places
<1>7. pc'[t] = "ll_rw_block" /\ OnlyMoves(t)
  BY <1>1, <1>5 DEF TypeOK, OnlyMoves
<1>8. PlaceOK(t)'
  <2>1. blocknr'[bh'[t]] = call'[t].block
    BY <1>1, <1>2, <1>5 DEF TypeOK, x, b
  <2> QED
    BY <1>1, <1>2, <1>5, <1>7, <2>1 DEF PlaceOK, Counted, x
<1>9. PlaceInv'
  BY <1>1, <1>3, <1>5, <1>7, <1>8, OthersPlaces DEF CacheInv, TypeOK
<1>10. \A y \in Buffer : b_count'[y] = b_count[y] + Ones(Uses(t, y)') - Ones(Uses(t, y))
  <2> TAKE y \in Buffer
  <2>1. ~ Uses(t, y) /\ (Uses(t, y)' <=> y = x)
    BY <1>5, <1>7 DEF Uses, x
  <2>2. b_count[y] \in Nat /\ b_count'[y] = IF y = x THEN 1 ELSE b_count[y]
    BY <1>1, <1>5 DEF TypeOK
  <2> QED
    BY <1>2, <2>1, <2>2 DEF Ones
<1>11. CountsAccounted'
  BY <1>6, <1>7, <1>10, CountsStep DEF CacheInv, OnlyMoves
<1>12. FreeInv'
  BY <1>5, <1>7, FreeKept DEF CacheInv
<1>13. OneBufferPerBlock'
  BY TakeInv, <1>1 DEF CacheInv, BlockInv, TypeOK
<1>14. BufferInv'
  BY <1>1, <1>2, <1>5 DEF CacheInv, BufferInv, BufferOK, Locked, TypeOK, x
<1>15. HoldInv'
  BY <1>1, <1>3, <1>5, <1>7 DEF CacheInv, HoldInv, OnlyMoves, TypeOK, Counted
<1> QED
  BY <1>4, <1>9, <1>11, <1>12, <1>13, <1>14, <1>15 DEF CacheInv

LEMMA ChosenBufferInv ==
    ASSUME CacheInv, NEW t \in Task, ChosenBuffer(t)
    PROVE  CacheInv'
<1>1. TypeOK /\ PlaceOK(t)
  BY DEF CacheInv, CountsAccounted, PlaceInv
<1>2. pc[t] = "chosen" /\ call[t].op = "bread" /\ bh[t] \in Buffer
  BY <1>1 DEF ChosenBuffer, At, PlaceOK
<1>3. ASSUME \/ bh' = [bh EXCEPT ![t] = NULL] /\ Goto(t, "getblk")
             \/ bh' = bh /\ Goto(t, "sync_dev"),
             UNCHANGED <<buffers, disk, call, i>>
      PROVE  CacheInv'
  <2>1. TypeOK'
    BY <1>1, <1>3 DEF TypeOK, Goto, buffers, Places
  <2>2. /\ OnlyMoves(t)
        /\ \/ pc'[t] = "getblk" /\ bh'[t] = NULL
           \/ pc'[t] = "sync_dev" /\ bh'[t] = bh[t]
    BY <1>1, <1>3 DEF TypeOK, Goto, OnlyMoves
  <2>3. PlaceOK(t)'
    BY <1>1, <1>2, <1>3, <2>2 DEF PlaceOK, Counted, buffers
  <2>4. \A x \in Buffer : Uses(t, x)' <=> Uses(t, x)
    BY <1>2, <2>2, NullNoBuffer DEF Uses
  <2>5. FreeInv'
    BY <1>2, <1>3, <2>2, FreeKept DEF CacheInv
  <2> QED
    BY <1>1, <1>3, <2>1, <2>2, <2>3, <2>4, <2>5, CountsKept, MoveInv DEF buffers
<1> QED
  BY <1>2, <1>3, SleepInv, TakeCacheInv DEF ChosenBuffer

LEMMA SyncDevInv ==
    ASSUME CacheInv, NEW t \in Task, SyncDev(t)
    PROVE  CacheInv'
<1> DEFINE x == (i[t] % NR_BUFFERS) + 1
           Writes == /\ Locked(x) = FALSE /\ b_dirt[x]
                     /\ b_lock' = [b_lock EXCEPT ![x] = "WRITE"]
                     /\ b_dirt' = [b_dirt EXCEPT ![x] = FALSE]
                     /\ UNCHANGED <<free_list, blocknr, b_count, b_uptodate, data, disk>>
<1>1. TypeOK /\ PlaceOK(t)
  BY DEF CacheInv, CountsAccounted, PlaceInv
<1>2. i[t] \in 0..2 * NR_BUFFERS - 1 /\ pc[t] = "sync_dev"
  BY <1>1 DEF TypeOK, SyncDev, At
<1>3. x \in Buffer
  BY <1>2 DEF Buffer
<1> HIDE DEF x
<1>4. ASSUME ~Sleep
      PROVE  /\ Writes \/ UNCHANGED <<buffers, disk>>
             /\ i' = [i EXCEPT ![t] = IF i[t] = Last THEN 0 ELSE i[t] + 1]
             /\ \/ /\ i[t] = Last /\ call[t].op = "sync"
                   /\ pc' = [pc EXCEPT ![t] = "idle"]
                   /\ call' = [call EXCEPT ![t] = NULL]
                \/ /\ i[t] = Last /\ call[t].op # "sync"
                   /\ pc' = [pc EXCEPT ![t] = "chosen"] /\ call' = call
                \/ pc' = [pc EXCEPT ![t] = "sync_dev"] /\ call' = call
             /\ bh' = bh /\ cpu' \in {t, NULL}
  BY <1>2, <1>4 DEF SyncDev, x
<1>5. CASE ~Sleep
  <2>1. i' \in [Task -> 0..2 * NR_BUFFERS - 1]
    <3>1. (IF i[t] = Last THEN 0 ELSE i[t] + 1) \in 0..2 * NR_BUFFERS - 1
      BY <1>2 DEF Last
    <3> QED
      BY <1>1, <1>4, <1>5, <3>1 DEF TypeOK
  <2>2. TypeOK'
    <3>1. /\ UNCHANGED <<free_list, blocknr, b_count, b_uptodate, data, disk, bh>>
          /\ b_lock' \in [Buffer -> {"no", "READ", "WRITE"}] /\ b_dirt' \in [Buffer -> BOOLEAN]
      <4>1. CASE Writes
        BY <1>1, <1>4, <1>5, <4>1 DEF TypeOK
      <4>2. CASE UNCHANGED <<buffers, disk>>
        BY <1>1, <1>4, <1>5, <4>2 DEF TypeOK, buffers
      <4> QED
        BY <1>4, <1>5, <4>1, <4>2
    <3>2. /\ pc' \in [Task -> Places] /\ cpu' \in Task \cup {NULL}
          /\ call' = call \/ call' = [call EXCEPT ![t] = NULL]
      <4> HIDE DEF Writes
      <4> QED
        BY <1>1, <1>4, <1>5 DEF TypeOK, Places
    <3> QED
      BY ONLY <1>1, <2>1, <3>1, <3>2 DEF TypeOK
  <2>3. /\ OnlyMoves(t)
        /\ \/ pc'[t] = "idle" /\ call'[t] = NULL /\ call[t].op = "sync"
           \/ pc'[t] = "chosen" /\ call'[t] = call[t] /\ call[t].op # "sync"
           \/ pc'[t] = "sync_dev" /\ call'[t] = call[t]
    BY <1>1, <1>4, <1>5 DEF TypeOK, OnlyMoves
  <2>4. PlaceOK(t)'
    BY <1>1, <1>2, <1>4, <1>5, <2>3 DEF PlaceOK, Counted
  <2>5. /\ UNCHANGED <<free_list, blocknr, b_count, b_uptodate, data, disk, bh>>
    BY <1>4, <1>5 DEF buffers
  <2>6. \A y \in Buffer : Uses(t, y)' <=> Uses(t, y)
    BY <1>1, <1>2, <2>3, <2>5, NullNoBuffer DEF Uses, PlaceOK
  <2>7. CountsAccounted'
    BY <1>1, <2>2, <2>3, <2>5, <2>6, CountsKept, CountsStep DEF CacheInv, OnlyMoves
  <2>8. FreeInv'
    BY <1>2, <2>3, FreeKept DEF CacheInv
  <2>9. PlaceInv'
    BY <2>3, <2>4, <2>5, OthersPlaces DEF CacheInv
  <2>10. ListInv' /\ OneBufferPerBlock'
    BY <2>5 DEF CacheInv, ListInv, OneBufferPerBlock
  <2>11. HoldInv'
    BY <2>3, <2>5 DEF CacheInv, HoldInv, OnlyMoves
  <2>12. BufferInv'
    <3>1. CASE Writes
      BY <1>1, <1>3, <3>1 DEF CacheInv, BufferInv, BufferOK, Locked, TypeOK
    <3>2. CASE UNCHANGED <<buffers, disk>>
      BY <3>2 DEF CacheInv, BufferInv, BufferOK, Locked, buffers
    <3> QED
      BY <1>4, <1>5, <3>1, <3>2
  <2> QED
    BY <2>7, <2>8, <2>9, <2>10, <2>11, <2>12 DEF CacheInv
<1> QED
  BY <1>5, SleepInv

LEMMA LlRwBlockInv ==
    ASSUME CacheInv, NEW t \in Task, LlRwBlock(t)
    PROVE  CacheInv'
<1> DEFINE x == bh[t]
<1>1. TypeOK /\ PlaceOK(t)
  BY DEF CacheInv, CountsAccounted, PlaceInv
<1>2. pc[t] = "ll_rw_block" /\ x \in Buffer /\ blocknr[x] \in Block
  BY <1>1 DEF LlRwBlock, At, PlaceOK, Counted
<1>3. CASE ~Sleep
  <2>1. /\ ~Locked(x)
        /\ b_lock' = [b_lock EXCEPT ![x] = IF b_uptodate[x] THEN "no" ELSE "READ"]
        /\ b_dirt' = [b_dirt EXCEPT ![x] = b_uptodate[x] /\ @]
        /\ Goto(t, "bread")
        /\ UNCHANGED <<free_list, blocknr, b_count, b_uptodate, data, disk, call, bh, i>>
    BY <1>3 DEF LlRwBlock
  <2> HIDE DEF x
  <2>2. TypeOK'
    BY <1>1, <1>2, <2>1 DEF TypeOK, Goto, Places
  <2>3. pc'[t] = "bread" /\ OnlyMoves(t)
    BY <1>1, <2>1 DEF TypeOK, Goto, OnlyMoves
  <2>4. PlaceOK(t)'
    BY <1>1, <1>2, <2>1, <2>3 DEF PlaceOK, Counted
  <2>5. \A y \in Buffer : Uses(t, y)' <=> Uses(t, y)
    BY <1>2, <2>1, <2>3 DEF Uses
  <2>6. CountsAccounted'
    BY <1>1, <2>1, <2>2, <2>3, <2>5, CountsKept, CountsStep DEF CacheInv, OnlyMoves
  <2>7. FreeInv'
    BY <1>2, <2>1, <2>3, FreeKept DEF CacheInv
  <2>8. PlaceInv'
    BY <2>1, <2>3, <2>4, OthersPlaces DEF CacheInv
  <2>9. ListInv' /\ OneBufferPerBlock'
    BY <2>1 DEF CacheInv, ListInv, OneBufferPerBlock
  <2>10. HoldInv'
    BY <2>1, <2>3 DEF CacheInv, HoldInv, OnlyMoves
  <2>11. BufferInv'
    BY <1>1, <1>2, <2>1 DEF CacheInv, BufferInv, BufferOK, Locked, TypeOK
  <2> QED
    BY <2>6, <2>7, <2>8, <2>9, <2>10, <2>11 DEF CacheInv
<1> QED
  BY <1>3, SleepInv

LEMMA ChangeInv ==
    ASSUME CacheInv, NEW t \in Task, NEW v \in Value, Change(t, v)
    PROVE  CacheInv'
<1>1. TypeOK /\ bh[t] \in Buffer /\ b_uptodate[bh[t]]
  BY DEF CacheInv, CountsAccounted, PlaceInv, PlaceOK, HoldInv, Change, Counted
<1>2. TypeOK'
  BY <1>1 DEF TypeOK, Change
<1>3. BufferInv' /\ HoldInv'
  BY <1>1 DEF CacheInv, BufferInv, BufferOK, HoldInv, Locked, TypeOK, Change
<1> QED
  BY <1>2, <1>3, BitsInv DEF Change

LEMMA EndReadInv ==
    ASSUME CacheInv, NEW x \in Buffer, NEW good \in BOOLEAN, EndRead(x, good)
    PROVE  CacheInv'
<1>1. TypeOK /\ blocknr[x] \in Block /\ ~b_uptodate[x]
  BY DEF CacheInv, CountsAccounted, BufferInv, BufferOK, EndRead, Locked
<1>2. TypeOK'
  BY <1>1 DEF TypeOK, EndRead
<1>3. BufferInv'
  BY <1>1 DEF CacheInv, BufferInv, BufferOK, Locked, TypeOK, EndRead
<1>4. HoldInv'
  BY <1>1 DEF CacheInv, HoldInv, TypeOK, EndRead
<1> QED
  BY <1>2, <1>3, <1>4, BitsInv DEF EndRead

LEMMA EndWriteInv ==
    ASSUME CacheInv, NEW x \in Buffer, EndWrite(x)
    PROVE  CacheInv'
<1>1. TypeOK /\ blocknr[x] \in Block /\ b_uptodate[x]
  BY DEF CacheInv, CountsAccounted, BufferInv, BufferOK, EndWrite, Locked
<1>2. TypeOK'
  BY <1>1 DEF TypeOK, EndWrite
<1>3. BufferInv'
  <2> SUFFICES ASSUME NEW y \in Buffer PROVE BufferOK(y)'
    BY DEF BufferInv
  <2>1. CASE y = x
    BY <1>1, <2>1 DEF CacheInv, BufferInv, BufferOK, Locked, TypeOK, EndWrite
  <2>2. CASE y # x
    <3>1. blocknr[y] # blocknr[x]
      BY <1>1, <2>2 DEF CacheInv, OneBufferPerBlock
    <3> QED
      BY <1>1, <2>2, <3>1 DEF CacheInv, BufferInv, BufferOK, Locked, TypeOK, EndWrite
  <2> QED
    BY <2>1, <2>2
<1>4. HoldInv'
  BY <1>1 DEF CacheInv, HoldInv, TypeOK, EndWrite
<1> QED
  BY <1>2, <1>3, <1>4, BitsInv DEF EndWrite

\* Every step keeps the invariant.
LEMMA CacheNext == CacheInv /\ [Next]_vars => CacheInv'
<1>1. ASSUME CacheInv, NEW t \in Task, Step(t) PROVE CacheInv'
  <2>1. ASSUME NEW b \in Block, Call(t, "bread", b) PROVE CacheInv'
    BY <1>1, <2>1, CallInv
  <2>2. ASSUME NEW b \in Changed, Call(t, "free", b) PROVE CacheInv'
    BY <1>1, <2>2, CallInv
  <2>3. CASE Call(t, "sync", NULL)
    BY <1>1, <2>3, CallInv
  <2> QED
    BY <1>1, <2>1, <2>2, <2>3, GetblkInv, GetHashTableInv, ChosenBufferInv, SyncDevInv,
       LlRwBlockInv, BreadInv, FinishInv, BrelseInv, ChangeInv DEF Step
<1>2. ASSUME CacheInv, NEW x \in Buffer,
             EndWrite(x) \/ \E good \in BOOLEAN : EndRead(x, good)
      PROVE  CacheInv'
  BY <1>2, EndWriteInv, EndReadInv
<1>3. ASSUME CacheInv, UNCHANGED vars PROVE CacheInv'
  <2>1. TypeOK'
    BY <1>3 DEF CacheInv, CountsAccounted, TypeOK, vars, buffers
  <2>2. BufferInv' /\ HoldInv' /\ UNCHANGED <<free_list, blocknr, b_count, pc, call, bh>>
    BY <1>3 DEF CacheInv, BufferInv, BufferOK, Locked, HoldInv, vars, buffers
  <2> QED
    BY <1>3, <2>1, <2>2, BitsInv
<1> QED
  BY <1>1, <1>2, <1>3 DEF Next

LEMMA CacheInit == Init => CacheInv
<1> SUFFICES ASSUME Init PROVE CacheInv
  OBVIOUS
<1>1. TypeOK
  BY DEF Init, TypeOK, Places, Buffer
<1>2. \A x \in Buffer : Users(x) = {}
  BY NullNoBuffer DEF Init, Users
<1>3. CountsAccounted
  BY <1>1, <1>2, FS_EmptySet DEF CountsAccounted, Init
<1>4. ListInv
  BY DEF Init, ListInv, Buffer
<1>5. PlaceInv /\ FreeInv /\ HoldInv
  BY DEF Init, PlaceInv, PlaceOK, Counted, FreeInv, HoldInv
<1>6. BufferInv /\ OneBufferPerBlock
  BY DEF Init, BufferInv, BufferOK, Locked, OneBufferPerBlock
<1> QED
  BY <1>3, <1>4, <1>5, <1>6 DEF CacheInv

LEMMA Cache == Spec => []CacheInv
  BY CacheInit, CacheNext, PTL DEF Spec

\* The count of a buffer is the number of tasks that have found or taken it and
\* not yet released it, for any number of tasks that sleep in getblk(), get_hash_table(),
\* bread() and sync_dev().
THEOREM CountsAreRight == Spec => []CountsAccounted
<1>1. CacheInv => CountsAccounted
  BY DEF CacheInv
<1> QED
  BY <1>1, Cache, PTL

\* Whoever has a block has that block and valid data in it, until it calls
\* brelse(): neither a failed read nor free_block() nor sync_dev() of others
\* takes it away.
THEOREM DataIsHeld == Spec => []HoldersHaveData
<1>1. CacheInv => HoldersHaveData
  BY DEF CacheInv, HoldersHaveData, HoldInv, PlaceInv, PlaceOK, Counted
<1> QED
  BY <1>1, Cache, PTL

(***************************************************************************)
(* The refinement of BlockStore.                                           *)
(***************************************************************************)

\* What a block holds is in its valid buffer, of which there is one at most, or
\* else on the disk.
LEMMA MemAtValid ==
    /\ \A b \in Block, x \in Buffer :
           OneBufferPerBlock /\ blocknr[x] = b /\ b_uptodate[x] => MemAt(b) = data[x]
    /\ \A b \in Block, x \in Buffer :
           OneBufferPerBlock' /\ blocknr'[x] = b /\ b_uptodate'[x] => MemAt(b)' = data'[x]
<1>1. ASSUME NEW b \in Block, NEW x \in Buffer,
             OneBufferPerBlock, blocknr[x] = b, b_uptodate[x]
      PROVE  MemAt(b) = data[x]
  <2>1. x \in Valid(b) /\ \A y \in Valid(b) : y = x
    BY <1>1 DEF Valid, Cached, OneBufferPerBlock
  <2> QED
    BY <2>1 DEF MemAt
<1>2. ASSUME NEW b \in Block, NEW x \in Buffer,
             OneBufferPerBlock', blocknr'[x] = b, b_uptodate'[x]
      PROVE  MemAt(b)' = data'[x]
  <2>1. x \in Valid(b)' /\ \A y \in Valid(b)' : y = x
    BY <1>2 DEF Valid, Cached, OneBufferPerBlock
  <2> QED
    BY <2>1 DEF MemAt
<1> QED
  BY <1>1, <1>2

LEMMA MemAtDisk ==
    /\ \A b \in Block : (\A x \in Buffer : blocknr[x] = b => ~b_uptodate[x]) => MemAt(b) = disk[b]
    /\ \A b \in Block : (\A x \in Buffer : blocknr'[x] = b => ~b_uptodate'[x]) => MemAt(b)' = disk'[b]
  BY DEF MemAt, Valid, Cached

LEMMA MemType == CacheInv => Mem \in [Block -> Value]
<1> SUFFICES ASSUME CacheInv, NEW b \in Block PROVE MemAt(b) \in Value
  BY DEF Mem
<1>1. TypeOK /\ OneBufferPerBlock
  BY DEF CacheInv, CountsAccounted
<1>2. CASE \E x \in Buffer : blocknr[x] = b /\ b_uptodate[x]
  BY <1>1, <1>2, MemAtValid DEF TypeOK
<1>3. CASE \A x \in Buffer : blocknr[x] = b => ~b_uptodate[x]
  <2>1. MemAt(b) = disk[b]
    BY <1>3, MemAtDisk
  <2> QED
    BY <1>1, <2>1 DEF TypeOK
<1> QED
  BY <1>2, <1>3

\* Where all that is valid stays so, and nothing else becomes valid, only the
\* contents can change.
LEMMA MemKept ==
    ASSUME UNCHANGED <<blocknr, b_uptodate, data, disk>>
    PROVE  Mem' = Mem
<1>1. \A b \in Block : MemAt(b)' = MemAt(b)
  BY DEF MemAt, Valid, Cached
<1> QED
  BY <1>1 DEF Mem

StoreStep == [Store!StoreNext]_(Store!storeVars)

\* A step of t that changes no block is a step of BlockStore if t gets what it
\* did not have or gives it up.
LEMMA MoveStep ==
    ASSUME CacheInv', NEW t \in Task, OnlyMoves(t), Mem' = Mem,
           RoleOf(t)' \in {NULL, RoleOf(t)} \/ RoleOf(t) = NULL
    PROVE  StoreStep
<1>1. Role' = [Role EXCEPT ![t] = RoleOf(t)']
  <2>1. \A u \in Task \ {t} : RoleOf(u)' = RoleOf(u)
    BY DEF RoleOf, OnlyMoves
  <2> QED
    BY <2>1 DEF Role
<1>2. Role[t] = RoleOf(t)
  BY DEF Role
<1>3. CASE RoleOf(t)' = RoleOf(t)
  <2>1. Role' = Role
    BY <1>1, <1>2, <1>3 DEF Role
  <2> QED
    BY <2>1 DEF StoreStep, Store!storeVars
<1>4. CASE RoleOf(t)' = NULL
  <2>1. Store!Close(t)
    BY <1>1, <1>4 DEF Store!Close
  <2> QED
    BY <2>1 DEF StoreStep, Store!StoreNext
<1>5. CASE RoleOf(t) = NULL /\ RoleOf(t)' # NULL
  <2>1. PICK do \in {"use", "free"} : RoleOf(t)' = <<do, call'[t].block>>
    BY <1>5 DEF RoleOf
  <2>2. call'[t].block \in Block
    BY <1>5 DEF CacheInv, PlaceInv, PlaceOK, Counted, RoleOf
  <2>3. Store!Open(t, <<do, call'[t].block>>)
    BY <1>1, <1>2, <1>5, <2>1 DEF Store!Open
  <2> QED
    BY <2>2, <2>3 DEF StoreStep, Store!StoreNext
<1> QED
  BY <1>3, <1>4, <1>5

\* Steps in which nobody moves.
LEMMA RoleKept == UNCHANGED <<pc, call>> => Role' = Role
  BY DEF Role, RoleOf

LEMMA QuietStep ==
    ASSUME UNCHANGED <<blocknr, b_uptodate, data, disk, pc, call>>
    PROVE  StoreStep
  BY MemKept, RoleKept DEF StoreStep, Store!storeVars

\* A buffer is taken for another block only when the disk has what was in it.
LEMMA TakeStep ==
    ASSUME CacheInv, CacheInv', NEW t \in Task, pc[t] = "chosen",
           ~Locked(bh[t]), ~HasToSync(bh[t]), ~Overtaken(call[t].block), Take(t, bh[t])
    PROVE  StoreStep
<1> DEFINE x == bh[t]
           c == call[t].block
<1>1. TypeOK /\ OneBufferPerBlock /\ OneBufferPerBlock' /\ PlaceOK(t)
  BY DEF CacheInv, CountsAccounted, PlaceInv
<1>2. x \in Buffer /\ c \in Block /\ call[t].op = "bread" /\ BufferOK(x)
  BY <1>1 DEF PlaceOK, CacheInv, BufferInv
<1>3. \A y \in Buffer : blocknr[y] # c
  BY DEF Overtaken, Cached
<1>4. ~Locked(x) /\ ~b_dirt[x]
  BY DEF HasToSync
<1> HIDE DEF x, c
<1>5. /\ b_uptodate' = [b_uptodate EXCEPT ![x] = FALSE]
      /\ blocknr' = [blocknr EXCEPT ![x] = c]
      /\ pc' = [pc EXCEPT ![t] = "ll_rw_block"]
      /\ UNCHANGED <<data, disk, call, bh>>
  BY DEF Take, Goto, x, c
<1>6. OnlyMoves(t) /\ RoleOf(t)' = NULL
  BY <1>1, <1>2, <1>5 DEF TypeOK, OnlyMoves, RoleOf
<1>7. ASSUME NEW b \in Block PROVE MemAt(b)' = MemAt(b)
  <2>1. CASE b = c
    <3>1. MemAt(b) = disk[b]
      BY <1>3, <2>1, MemAtDisk
    <3>2. MemAt(b)' = disk'[b]
      BY <1>1, <1>3, <1>5, <2>1, MemAtDisk DEF TypeOK
    <3> QED
      BY <1>5, <3>1, <3>2
  <2>2. CASE b # c /\ b = blocknr[x] /\ b_uptodate[x]
    <3>1. MemAt(b) = disk[b]
      BY <1>1, <1>2, <1>4, <2>2, MemAtValid DEF BufferOK
    <3>2. \A y \in Buffer : blocknr'[y] = b => ~b_uptodate'[y]
      BY <1>1, <1>2, <1>5, <2>2 DEF TypeOK, OneBufferPerBlock
    <3> QED
      BY <1>5, <3>1, <3>2, MemAtDisk
  <2>3. CASE b # c /\ ~(b = blocknr[x] /\ b_uptodate[x])
    <3>1. Valid(b)' = Valid(b)
      BY <1>1, <1>2, <1>5, <2>3 DEF Valid, Cached, TypeOK
    <3> QED
      BY <1>5, <3>1 DEF MemAt
  <2> QED
    BY <2>1, <2>2, <2>3
<1>8. Mem' = Mem
  BY <1>7 DEF Mem
<1> QED
  BY <1>6, <1>8, MoveStep

\* The disk's steps, which leave what a block holds as it is.
LEMMA EndReadStep ==
    ASSUME CacheInv, CacheInv', NEW x \in Buffer, NEW good \in BOOLEAN, EndRead(x, good)
    PROVE  StoreStep
<1>1. TypeOK /\ OneBufferPerBlock /\ OneBufferPerBlock' /\ BufferOK(x)
  BY DEF CacheInv, CountsAccounted, BufferInv
<1>2. blocknr[x] \in Block /\ ~b_uptodate[x]
  BY <1>1 DEF EndRead, BufferOK, Locked
<1>3. ASSUME NEW b \in Block PROVE MemAt(b)' = MemAt(b)
  <2>1. CASE b = blocknr[x]
    <3>1. \A y \in Buffer : blocknr[y] = b => y = x
      BY <1>2, <2>1, <1>1 DEF OneBufferPerBlock
    <3>2. MemAt(b) = disk[b]
      BY <1>2, <3>1, MemAtDisk
    <3>3. CASE good
      <4>1. blocknr'[x] = b /\ b_uptodate'[x] /\ data'[x] = disk[b]
        BY <1>1, <2>1, <3>3 DEF EndRead, TypeOK
      <4> QED
        BY <1>1, <3>2, <4>1, MemAtValid
    <3>4. CASE ~good
      <4>1. b_uptodate' = b_uptodate /\ blocknr' = blocknr /\ disk' = disk
        BY <1>1, <1>2, <3>4 DEF EndRead, TypeOK
      <4> QED
        BY <1>2, <3>1, <3>2, <4>1, MemAtDisk
    <3> QED
      BY <3>3, <3>4
  <2>2. CASE b # blocknr[x]
    <3>1. Valid(b)' = Valid(b) /\ x \notin Valid(b)
      BY <1>1, <2>2 DEF Valid, Cached, TypeOK, EndRead
    <3>2. CASE Valid(b) = {}
      BY <3>1, <3>2 DEF MemAt, EndRead
    <3>3. ASSUME NEW y \in Valid(b) PROVE MemAt(b)' = MemAt(b)
      <4>1. /\ y \in Buffer /\ y # x /\ blocknr[y] = b /\ b_uptodate[y]
            /\ blocknr'[y] = b /\ b_uptodate'[y]
        BY <3>1, <1>1, <2>2 DEF Valid, Cached, EndRead, TypeOK
      <4>2. data'[y] = data[y]
        BY <1>1, <4>1 DEF EndRead, TypeOK
      <4> QED
        BY <1>1, <4>1, <4>2, MemAtValid
    <3> QED
      BY <3>2, <3>3
  <2> QED
    BY <2>1, <2>2
<1>4. Mem' = Mem /\ Role' = Role
  BY <1>3, RoleKept DEF Mem, EndRead
<1> QED
  BY <1>4 DEF StoreStep, Store!storeVars

LEMMA EndWriteStep ==
    ASSUME CacheInv, CacheInv', NEW x \in Buffer, EndWrite(x)
    PROVE  StoreStep
<1>1. TypeOK /\ OneBufferPerBlock /\ OneBufferPerBlock' /\ BufferOK(x)
  BY DEF CacheInv, CountsAccounted, BufferInv
<1>2. blocknr[x] \in Block /\ b_uptodate[x]
  BY <1>1 DEF EndWrite, BufferOK, Locked
<1>3. UNCHANGED <<blocknr, b_uptodate, data>>
  BY <1>1, <1>2 DEF EndWrite, TypeOK
<1>4. ASSUME NEW b \in Block PROVE MemAt(b)' = MemAt(b)
  <2>1. CASE b = blocknr[x]
    BY <1>1, <1>2, <1>3, <2>1, MemAtValid
  <2>2. CASE b # blocknr[x]
    <3>1. disk'[b] = disk[b]
      BY <1>1, <2>2 DEF EndWrite, TypeOK
    <3>2. Valid(b)' = Valid(b)
      BY <1>3 DEF Valid, Cached
    <3> QED
      BY <1>3, <3>1, <3>2 DEF MemAt
  <2> QED
    BY <2>1, <2>2
<1>5. Mem' = Mem /\ Role' = Role
  BY <1>4, RoleKept DEF Mem, EndWrite
<1> QED
  BY <1>5 DEF StoreStep, Store!storeVars

LEMMA ChangeStep ==
    ASSUME CacheInv, CacheInv', NEW t \in Task, NEW v \in Value, Change(t, v)
    PROVE  StoreStep
<1>1. TypeOK /\ OneBufferPerBlock /\ OneBufferPerBlock' /\ pc[t] = "hold"
  BY DEF CacheInv, CountsAccounted, Change
<1>2. PICK x \in Buffer, c \in Block :
        x = bh[t] /\ c = call[t].block /\ blocknr[x] = c /\ b_uptodate[x]
  BY <1>1 DEF CacheInv, PlaceInv, PlaceOK, HoldInv, Counted
<1>3. /\ data' = [data EXCEPT ![x] = v]
      /\ UNCHANGED <<blocknr, b_uptodate, disk, pc, call>>
  BY <1>2 DEF Change
<1>4. MemAt(c)' = v
  BY <1>1, <1>2, <1>3, MemAtValid DEF TypeOK
<1>5. ASSUME NEW b \in Block \ {c} PROVE MemAt(b)' = MemAt(b)
  <2>1. CASE Valid(b) = {}
    BY <1>3, <2>1 DEF MemAt, Valid, Cached
  <2>2. ASSUME NEW y \in Valid(b) PROVE MemAt(b)' = MemAt(b)
    <3>1. y \in Buffer /\ y # x /\ blocknr[y] = b /\ b_uptodate[y]
      BY <1>2 DEF Valid, Cached
    <3>2. data'[y] = data[y]
      BY <1>1, <1>3, <3>1 DEF TypeOK
    <3> QED
      BY <1>1, <1>3, <3>1, <3>2, MemAtValid
  <2> QED
    BY <2>1, <2>2
<1>6. Mem' = [Mem EXCEPT ![c] = v]
  BY <1>2, <1>4, <1>5 DEF Mem
<1>7. Role[t] = <<"use", c>> /\ Role' = Role
  BY <1>1, <1>2, <1>3, RoleKept DEF Role, RoleOf
<1>8. Store!Store(t, c, v)
  BY <1>6, <1>7 DEF Store!Store
<1> QED
  BY <1>2, <1>8 DEF StoreStep, Store!StoreNext

\* The block leaves the cache while it is freed.
LEMMA FreeStep ==
    ASSUME CacheInv, CacheInv', NEW t \in Task, pc[t] = "get_hash_table",
           call[t].op = "free", ~Locked(bh[t]),
           b_uptodate' = [b_uptodate EXCEPT ![bh[t]] = FALSE],
           Goto(t, "brelse"), UNCHANGED <<blocknr, data, disk, call>>
    PROVE  StoreStep
<1>1. TypeOK /\ OneBufferPerBlock /\ OneBufferPerBlock'
  BY DEF CacheInv, CountsAccounted
<1>2. PICK x \in Buffer, c \in Block : x = bh[t] /\ c = call[t].block /\ blocknr[x] = c
  BY DEF CacheInv, PlaceInv, PlaceOK, Counted
<1>3. b_uptodate' = [b_uptodate EXCEPT ![x] = FALSE] /\ pc' = [pc EXCEPT ![t] = "brelse"]
  BY <1>2 DEF Goto
<1>4. MemAt(c)' = disk[c]
  <2>1. \A y \in Buffer : blocknr'[y] = c => ~b_uptodate'[y]
    BY <1>1, <1>2, <1>3 DEF OneBufferPerBlock, TypeOK
  <2> QED
    BY <2>1, MemAtDisk
<1>5. ASSUME NEW b \in Block \ {c} PROVE MemAt(b)' = MemAt(b)
  <2>1. Valid(b)' = Valid(b)
    BY <1>1, <1>2, <1>3 DEF Valid, Cached, TypeOK
  <2> QED
    BY <2>1 DEF MemAt
<1>6. Mem' = [Mem EXCEPT ![c] = disk[c]] /\ disk[c] \in Value
  BY <1>1, <1>2, <1>4, <1>5 DEF Mem, TypeOK
<1>7. Role[t] = <<"free", c>> /\ Role' = Role
  <2>1. \A u \in Task : RoleOf(u)' = RoleOf(u)
    BY <1>1, <1>2, <1>3 DEF RoleOf, TypeOK
  <2> QED
    BY <1>2, <2>1 DEF Role, RoleOf
<1>8. \A u \in Task : Role[u] # <<"use", c>>
  <2> SUFFICES ASSUME NEW u \in Task, pc[u] = "hold", call[u].block = c PROVE FALSE
    BY DEF Role, RoleOf
  <2> QED
    BY <1>2 DEF CacheInv, FreeInv
<1>9. Store!Drop(t, c, disk[c])
  BY <1>6, <1>7, <1>8 DEF Store!Drop
<1> QED
  BY <1>2, <1>6, <1>9 DEF StoreStep, Store!StoreNext

LEMMA SleepStep == Sleep => StoreStep
  BY QuietStep DEF Sleep, buffers

\* What a task does in getblk(), bread(), sync_dev() and brelse() is, where it
\* is no change of a block, to get a block or to have done with it.
LEMMA TaskStep ==
    ASSUME CacheInv, CacheInv', NEW t \in Task, Step(t)
    PROVE  StoreStep
<1>1. TypeOK /\ PlaceOK(t)
  BY DEF CacheInv, CountsAccounted, PlaceInv
<1>2. ASSUME OnlyMoves(t), UNCHANGED <<blocknr, b_uptodate, data, disk>>,
             RoleOf(t)' \in {NULL, RoleOf(t)} \/ RoleOf(t) = NULL
      PROVE  StoreStep
  BY <1>2, MemKept, MoveStep
<1>3. ASSUME NEW op \in {"bread", "free", "sync"}, NEW b, Call(t, op, b)
      PROVE  StoreStep
  <2>1. OnlyMoves(t) /\ RoleOf(t) = NULL
    BY <1>1, <1>3 DEF Call, Goto, OnlyMoves, RoleOf, TypeOK
  <2> QED
    BY <1>2, <1>3, <2>1 DEF Call, buffers
<1>4. CASE Getblk(t)
  <2>1. CASE ~Sleep
    <3>1. OnlyMoves(t) /\ UNCHANGED <<blocknr, b_uptodate, data, disk>>
      BY <1>1, <1>4, <2>1 DEF Getblk, Goto, Return, OnlyMoves, TypeOK, buffers
    <3>2. /\ pc[t] = "getblk" /\ pc'[t] \in {"get_hash_table", "chosen", "idle"}
          /\ pc'[t] # "idle" => call'[t] = call[t]
      BY <1>1, <1>4, <2>1 DEF Getblk, At, Goto, Return, TypeOK
    <3> QED
      BY <1>2, <3>1, <3>2 DEF RoleOf
  <2> QED
    BY <2>1, SleepStep
<1>5. CASE GetHashTable(t)
  <2>1. ASSUME call[t].op = "bread", Got(t, bh[t]), UNCHANGED <<buffers, disk, call, bh, i>>
        PROVE  StoreStep
    <3>1. OnlyMoves(t)
      BY <1>1, <2>1 DEF Got, Goto, OnlyMoves, TypeOK
    <3>2. RoleOf(t) = NULL
      BY <1>5, <2>1 DEF RoleOf, GetHashTable, At
    <3> QED
      BY <1>2, <2>1, <3>1, <3>2 DEF buffers
  <2>2. pc[t] = "get_hash_table" /\ blocknr[bh[t]] = call[t].block
    BY <1>1, <1>5 DEF GetHashTable, At, PlaceOK, Counted
  <2> QED
    BY <1>5, <2>1, <2>2, SleepStep, FreeStep DEF GetHashTable
<1>6. CASE ChosenBuffer(t)
  <2>1. pc[t] = "chosen" /\ call[t].op = "bread"
    BY <1>1, <1>6 DEF ChosenBuffer, At, PlaceOK
  <2>2. ASSUME Goto(t, "getblk") \/ Goto(t, "sync_dev"),
               bh' = [bh EXCEPT ![t] = NULL] \/ bh' = bh, UNCHANGED <<buffers, disk, call, i>>
        PROVE  StoreStep
    <3>1. OnlyMoves(t) /\ RoleOf(t) = NULL
      BY <1>1, <2>1, <2>2 DEF Goto, OnlyMoves, TypeOK, RoleOf
    <3> QED
      BY <1>2, <2>2, <3>1 DEF buffers
  <2> QED
    BY <1>6, <2>1, <2>2, SleepStep, TakeStep DEF ChosenBuffer
<1>7. CASE SyncDev(t)
  <2>1. CASE ~Sleep
    <3>1. /\ OnlyMoves(t) /\ UNCHANGED <<blocknr, b_uptodate, data, disk>>
      BY <1>1, <1>7, <2>1 DEF SyncDev, OnlyMoves, TypeOK, buffers
    <3>2. RoleOf(t) = NULL
      BY <1>1, <1>7 DEF SyncDev, At, PlaceOK, RoleOf
    <3> QED
      BY <1>2, <3>1, <3>2
  <2> QED
    BY <2>1, SleepStep
<1>8. CASE LlRwBlock(t) \/ Bread(t)
  <2>1. CASE ~Sleep
    <3>1. /\ OnlyMoves(t) /\ UNCHANGED <<blocknr, b_uptodate, data, disk>>
      BY <1>1, <1>8, <2>1 DEF LlRwBlock, Bread, Goto, OnlyMoves, TypeOK, buffers
    <3>2. RoleOf(t) = NULL
      BY <1>1, <1>8 DEF LlRwBlock, Bread, At, PlaceOK, RoleOf
    <3> QED
      BY <1>2, <3>1, <3>2
  <2> QED
    BY <2>1, SleepStep
<1>9. CASE Finish(t) 
  <2>1. /\ OnlyMoves(t) /\ UNCHANGED <<blocknr, b_uptodate, data, disk, call>>
        /\ pc[t] = "hold" /\ pc'[t] = "brelse"
    BY <1>1, <1>9 DEF Finish, Goto, OnlyMoves, TypeOK, buffers
  <2>2. RoleOf(t)' = NULL
    BY <1>1, <2>1 DEF PlaceOK, RoleOf
  <2> QED
    BY <1>2, <2>1, <2>2
<1>10. CASE Brelse(t)
  <2>1. CASE ~Sleep
    <3>1. /\ OnlyMoves(t) /\ UNCHANGED <<blocknr, b_uptodate, data, disk>>
          /\ pc'[t] = "idle"
      BY <1>1, <1>10, <2>1 DEF Brelse, Return, OnlyMoves, TypeOK, buffers
    <3> QED
      BY <1>2, <3>1 DEF RoleOf
  <2> QED
    BY <2>1, SleepStep
<1> QED
  BY <1>3, <1>4, <1>5, <1>6, <1>7, <1>8, <1>9, <1>10, ChangeStep DEF Step

\* What is written to a block is found there by all later readers, though its
\* buffer may be written back, taken for another block and read again, however
\* many buffers there are and whoever sleeps meanwhile.
THEOREM StoreImplemented == Spec => ImplementsBlockStore
<1>1. Init => Store!StoreInit
  <2> SUFFICES ASSUME Init PROVE Store!StoreInit
    OBVIOUS
  <2>1. Mem \in [Block -> Value]
    BY CacheInit, MemType
  <2>2. Role = [t \in Task |-> NULL]
    BY DEF Init, Role, RoleOf
  <2> QED
    BY <2>1, <2>2 DEF Store!StoreInit
<1>2. CacheInv /\ CacheInv' /\ [Next]_vars => StoreStep
  <2>1. ASSUME UNCHANGED vars PROVE StoreStep
    BY <2>1, QuietStep DEF vars, buffers
  <2>2. ASSUME CacheInv, CacheInv', NEW x \in Buffer,
               EndWrite(x) \/ \E good \in BOOLEAN : EndRead(x, good)
        PROVE  StoreStep
    BY <2>2, EndWriteStep, EndReadStep
  <2> QED
    BY <2>1, <2>2, TaskStep DEF Next
<1> QED
  BY <1>1, <1>2, Cache, PTL DEF Spec, ImplementsBlockStore, Store!StoreSpec, StoreStep
=============================================================================
