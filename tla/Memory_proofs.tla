--------------------------- MODULE Memory_proofs ---------------------------
(***************************************************************************)
(* Theorems about Memory, for any number of tasks, frames and pages.       *)
(***************************************************************************)
EXTENDS Memory, FiniteSetTheorems, TLAPS

-----------------------------------------------------------------------------
(***************************************************************************)
(* Counting.                                                               *)
(***************************************************************************)
Ones(P) == IF P THEN 1 ELSE 0

\* How often a value occurs in a table of the slots, when one slot changes.
Is(g, t, f) == g[t] = f
CountOf(S, g, f) == Cardinality({t \in S : g[t] = f})
OnlyAt(S, g, h, c) == \A u \in S \ {c} : h[u] = g[u]
CountMoves(S, g, h, c, f) ==
    /\ CountOf(S, g, f) \in Nat /\ CountOf(S, h, f) \in Nat
    /\ CountOf(S, h, f) = CountOf(S, g, f) + Ones(Is(h, c, f)) - Ones(Is(g, c, f))
LEMMA CountStep ==
    ASSUME NEW S, IsFiniteSet(S), NEW g, NEW h, NEW c \in S, NEW f, OnlyAt(S, g, h, c)
    PROVE  CountMoves(S, g, h, c, f)
<1> DEFINE G == {t \in S : g[t] = f}
           H == {t \in S : h[t] = f}
<1>1. IsFiniteSet(G) /\ IsFiniteSet(H)
  BY FS_Subset
<1>2. Cardinality(G) \in Nat /\ Cardinality(H) \in Nat
  BY <1>1, FS_CardinalityType
<1>3. G \ {c} = H \ {c}
  BY DEF OnlyAt
<1>4. /\ Cardinality(G \ {c}) = IF c \in G THEN Cardinality(G) - 1 ELSE Cardinality(G)
      /\ Cardinality(H \ {c}) = IF c \in H THEN Cardinality(H) - 1 ELSE Cardinality(H)
  BY <1>1, FS_RemoveElement
<1>5. Cardinality(G \ {c}) = Cardinality(H \ {c})
  BY <1>3
<1>6. (c \in G) = Is(g, c, f) /\ (c \in H) = Is(h, c, f)
  BY DEF Is
<1> HIDE DEF G, H
<1>7. Cardinality(H) = Cardinality(G) + Ones(c \in H) - Ones(c \in G)
  BY <1>2, <1>4, <1>5 DEF Ones
<1> QED
  BY <1>2, <1>6, <1>7 DEF CountMoves, CountOf, G, H

\* How often it occurs in the rows of the slots, in each at most once.
PairsOf(S, V, g, f) == Cardinality({e \in S \X V : g[e[1]][e[2]] = f})
In(V, row, f) == \E v \in V : row[v] = f
OnceIn(V, row, f) == \A v, w \in V : row[v] = f /\ row[w] = f => v = w
PairsMove(S, V, g, h, c, f) ==
    /\ PairsOf(S, V, g, f) \in Nat /\ PairsOf(S, V, h, f) \in Nat
    /\ PairsOf(S, V, h, f) = PairsOf(S, V, g, f)
                             + Ones(In(V, h[c], f)) - Ones(In(V, g[c], f))
LEMMA PairsStep ==
    ASSUME NEW S, IsFiniteSet(S), NEW V, IsFiniteSet(V), NEW g, NEW h, NEW c \in S, NEW f,
           OnlyAt(S, g, h, c), OnceIn(V, g[c], f), OnceIn(V, h[c], f)
    PROVE  PairsMove(S, V, g, h, c, f)
<1> DEFINE G == {e \in S \X V : g[e[1]][e[2]] = f}
           H == {e \in S \X V : h[e[1]][e[2]] = f}
           R == {e \in S \X V : e[1] # c /\ g[e[1]][e[2]] = f}
<1>0. IsFiniteSet(S \X V)
  BY FS_Product
<1>1. IsFiniteSet(G) /\ IsFiniteSet(H) /\ IsFiniteSet(R)
  BY <1>0, FS_Subset
<1>2. Cardinality(G) \in Nat /\ Cardinality(H) \in Nat /\ Cardinality(R) \in Nat
  BY <1>1, FS_CardinalityType
<1>3. Cardinality(G) = Cardinality(R) + Ones(In(V, g[c], f))
  <2>1. CASE In(V, g[c], f)
    <3>1. PICK v \in V : g[c][v] = f
      BY <2>1 DEF In
    <3>2. G = R \cup {<<c, v>>} /\ <<c, v>> \notin R
      BY <3>1 DEF OnceIn
    <3> HIDE DEF G, R
    <3>3. Cardinality(R \cup {<<c, v>>}) = Cardinality(R) + 1
      BY <1>1, <3>2, FS_AddElement
    <3> QED
      BY <2>1, <3>2, <3>3 DEF Ones
  <2>2. CASE ~In(V, g[c], f)
    <3>1. G = R
      BY <2>2 DEF In
    <3> HIDE DEF G, R
    <3> QED
      BY <1>2, <2>2, <3>1 DEF Ones
  <2> QED
    BY <2>1, <2>2
<1>4. Cardinality(H) = Cardinality(R) + Ones(In(V, h[c], f))
  <2>1. CASE In(V, h[c], f)
    <3>1. PICK v \in V : h[c][v] = f
      BY <2>1 DEF In
    <3>2. H = R \cup {<<c, v>>} /\ <<c, v>> \notin R
      BY <3>1 DEF OnceIn, OnlyAt
    <3> HIDE DEF H, R
    <3>3. Cardinality(R \cup {<<c, v>>}) = Cardinality(R) + 1
      BY <1>1, <3>2, FS_AddElement
    <3> QED
      BY <2>1, <3>2, <3>3 DEF Ones
  <2>2. CASE ~In(V, h[c], f)
    <3>1. H = R
      BY <2>2 DEF In, OnlyAt
    <3> HIDE DEF H, R
    <3> QED
      BY <1>2, <2>2, <3>1 DEF Ones
  <2> QED
    BY <2>1, <2>2
<1> HIDE DEF G, H, R
<1>5. Cardinality(H) = Cardinality(G) + Ones(In(V, h[c], f)) - Ones(In(V, g[c], f))
  BY <1>2, <1>3, <1>4 DEF Ones
<1> QED
  BY <1>2, <1>5 DEF PairsMove, PairsOf, G, H

\* A value that all rows have at the same place occurs at most once in a row.
LEMMA PairsBound ==
    ASSUME NEW S, IsFiniteSet(S), NEW V, NEW g, NEW f, NEW p \in V,
           \A t \in S : \A v \in V : g[t][v] = f => v = p
    PROVE  PairsOf(S, V, g, f) <= Cardinality(S)
<1> DEFINE G == {e \in S \X V : g[e[1]][e[2]] = f}
<1>1. IsFiniteSet(S \X {p}) /\ Cardinality(S \X {p}) = Cardinality(S) * Cardinality({p})
  BY FS_Product, FS_Singleton
<1>2. Cardinality({p}) = 1 /\ Cardinality(S) \in Nat
  BY FS_Singleton, FS_CardinalityType
<1>3. Cardinality(S \X {p}) = Cardinality(S)
  BY <1>1, <1>2
<1>4. G \subseteq S \X {p}
  OBVIOUS
<1> HIDE DEF G
<1>5. Cardinality(G) <= Cardinality(S \X {p})
  BY <1>1, <1>4, FS_Subset
<1> QED
  BY <1>3, <1>5 DEF PairsOf, G

-----------------------------------------------------------------------------
(***************************************************************************)
(* The inductive invariant.                                                *)
(***************************************************************************)

\* Who uses a frame, as CountsRight counts it.
Refs(f) == CountOf(Slot, task, f) + CountOf(Slot, dir, f) + PairsOf(Slot, VPage, entry, f)
RefsOf(t, f) == Ones(Is(task, t, f)) + Ones(Is(dir, t, f)) + Ones(In(VPage, entry[t], f))

\* A task has a page table only with a task_struct, and pages only with a page
\* table.
Alive(t) ==
    /\ dir[t] # NULL => task[t] # NULL
    /\ dir[t] = NULL => writable[t] = {} /\ \A v \in VPage : entry[t][v] = NULL

\* A task_struct or page table is used by nobody else and for nothing else.
Apart(t, u) ==
    /\ task[t] # NULL => /\ task[t] # dir[u] /\ (task[t] = task[u] => t = u)
                         /\ \A v \in VPage : entry[u][v] # task[t]
    /\ dir[t] # NULL => /\ (dir[t] = dir[u] => t = u)
                        /\ \A v \in VPage : entry[u][v] # dir[t]

\* Whoever shares a frame has it at the same place: fork() copies the whole
\* table, and all other entries are new frames.
SamePlace(t, u) ==
    \A v, w \in VPage : entry[t][v] \in Frame /\ entry[t][v] = entry[u][w] => v = w

\* Nobody else has what a task may write.
Own(t, u) ==
    \A v \in writable[t] :
        /\ entry[t][v] \in Frame
        /\ u # t => \A w \in VPage : entry[u][w] # entry[t][v]

MemInv ==
    /\ TypeOK /\ CountsRight
    /\ \A t \in Slot : Alive(t)
    /\ \A t, u \in Slot : Apart(t, u) /\ SamePlace(t, u) /\ Own(t, u)

-----------------------------------------------------------------------------
LEMMA Finite == /\ IsFiniteSet(Slot) /\ Cardinality(Slot) = NR_TASKS - 1
                /\ IsFiniteSet(VPage)
<1>1. NR_TASKS - 1 \in Int /\ Segment - 1 \in Int /\ 1 <= NR_TASKS - 1
  BY MemoryAssumption
<1> QED
  BY <1>1, FS_Interval DEF Slot, VPage

\* get_free_page() finds a free page if there is one.
LEMMA LastProps ==
    ASSUME NEW S, S \subseteq Frame, S # {}
    PROVE  Last(S) \in S
<1> DEFINE R == OpToRel(<, Nat)
           back == [f \in Frame |-> HIGH_MEMORY - f]
           B == {back[f] : f \in S}
<1>1. \A f \in Frame : f \in Nat /\ back[f] \in Nat
  BY MemoryAssumption DEF Frame
<1>2. B \in SUBSET Nat /\ B # {}
  BY <1>1
<1>3. \E m \in B : \A n \in B : ~ (<<n, m>> \in R)
  <2>1. IsWellFoundedOn(R, Nat)
    BY NatLessThanWellFounded
  <2> HIDE DEF R, B
  <2> QED
    BY <1>2, <2>1, WFMin
<1>4. PICK x \in S : \A y \in S : ~ (<<back[y], back[x]>> \in R)
  BY <1>3
<1>5. \A y \in S : y <= x
  <2> TAKE y \in S
  <2>1. x \in Frame /\ y \in Frame
    OBVIOUS
  <2>2. ~ (back[y] < back[x])
    BY <1>1, <1>4, <2>1 DEF OpToRel
  <2> HIDE DEF R
  <2> QED
    BY <1>1, <2>1, <2>2, MemoryAssumption DEF Frame
<1> QED
  BY <1>5 DEF Last

\* What changes when only the slot c changes.
OnlySlot(c) ==
    \A u \in Slot \ {c} : task'[u] = task[u] /\ dir'[u] = dir[u] /\ entry'[u] = entry[u]

LEMMA RefsStep ==
    ASSUME \A t \in Slot : SamePlace(t, t), NEW c \in Slot, OnlySlot(c), SamePlace(c, c)',
           NEW f \in Frame
    PROVE  /\ Refs(f) \in Nat
           /\ Refs(f)' = Refs(f) + RefsOf(c, f)' - RefsOf(c, f)
<1>0. IsFiniteSet(Slot) /\ IsFiniteSet(VPage)
  BY Finite
<1>1. CountMoves(Slot, task, task', c, f)
  <2>1. OnlyAt(Slot, task, task', c)
    BY DEF OnlySlot, OnlyAt
  <2> QED
    BY <1>0, <2>1, CountStep
<1>2. CountMoves(Slot, dir, dir', c, f)
  <2>1. OnlyAt(Slot, dir, dir', c)
    BY DEF OnlySlot, OnlyAt
  <2> QED
    BY <1>0, <2>1, CountStep
<1>3. PairsMove(Slot, VPage, entry, entry', c, f)
  <2>1. OnceIn(VPage, entry[c], f) /\ OnceIn(VPage, entry'[c], f)
    BY DEF SamePlace, OnceIn
  <2>2. OnlyAt(Slot, entry, entry', c)
    BY DEF OnlySlot, OnlyAt
  <2> QED
    BY <1>0, <2>1, <2>2, PairsStep
<1>4. \A P : Ones(P) \in Nat
  BY DEF Ones
<1> HIDE DEF Ones
<1> QED
  BY <1>1, <1>2, <1>3, <1>4 DEF CountMoves, PairsMove, Refs, RefsOf

\* Each user is counted.
LEMMA RefsOfCounted ==
    ASSUME MemInv, NEW t \in Slot, NEW f \in Frame
    PROVE  Refs(f) \in Nat /\ RefsOf(t, f) \in 0..Refs(f)
<1>0. IsFiniteSet(Slot \X VPage)
  BY Finite, FS_Product
<1>1. /\ CountOf(Slot, task, f) \in Nat
      /\ task[t] = f => CountOf(Slot, task, f) # 0
  BY Finite, FS_Subset, FS_CardinalityType, FS_EmptySet DEF CountOf
<1>2. /\ CountOf(Slot, dir, f) \in Nat
      /\ dir[t] = f => CountOf(Slot, dir, f) # 0
  BY Finite, FS_Subset, FS_CardinalityType, FS_EmptySet DEF CountOf
<1>3. /\ PairsOf(Slot, VPage, entry, f) \in Nat
      /\ In(VPage, entry[t], f) => PairsOf(Slot, VPage, entry, f) # 0
  <2> DEFINE G == {e \in Slot \X VPage : entry[e[1]][e[2]] = f}
  <2>1. IsFiniteSet(G)
    BY <1>0, FS_Subset
  <2>2. ASSUME NEW v \in VPage, entry[t][v] = f PROVE <<t, v>> \in G
    BY <2>2
  <2> HIDE DEF G
  <2>3. In(VPage, entry[t], f) => G # {}
    BY <2>2 DEF In
  <2> QED
    BY <2>1, <2>3, FS_CardinalityType, FS_EmptySet DEF PairsOf, G
<1> QED
  BY <1>1, <1>2, <1>3 DEF Refs, RefsOf, Ones, Is

LEMMA MapIsRefs == MemInv => \A f \in Frame : mem_map[f] = Refs(f)
  BY DEF MemInv, CountsRight, Refs, CountOf, PairsOf

\* Nobody uses a free frame.
LEMMA FreeUnused ==
    ASSUME MemInv, NEW f \in Free, NEW t \in Slot
    PROVE  task[t] # f /\ dir[t] # f /\ \A v \in VPage : entry[t][v] # f
<1>1. f \in Frame /\ Refs(f) = 0
  BY MapIsRefs DEF Free
<1>2. RefsOf(t, f) = 0
  BY <1>1, RefsOfCounted
<1> QED
  BY <1>2 DEF RefsOf, Ones, In, Is

\* A step in which one slot changes, and the map by the frames that it begins
\* and ends to use.
LEMMA SlotStep ==
    ASSUME MemInv, TypeOK', panicked' # "free", NEW c \in Slot, OnlySlot(c),
           \A f \in Frame : mem_map'[f] = mem_map[f] + RefsOf(c, f)' - RefsOf(c, f),
           Alive(c)', SamePlace(c, c)',
           \A u \in Slot \ {c} : writable'[u] \subseteq writable[u],
           \A u \in Slot : /\ Apart(c, u)' /\ SamePlace(c, u)' /\ Own(c, u)'
                          /\ Apart(u, c)' /\ SamePlace(u, c)' /\ Own(u, c)'
    PROVE  MemInv'
<1>1. \A f \in Frame : mem_map'[f] = Refs(f)'
  <2> TAKE f \in Frame
  <2>1. Refs(f) \in Nat /\ Refs(f)' = Refs(f) + RefsOf(c, f)' - RefsOf(c, f)
    BY RefsStep DEF MemInv
  <2> QED
    BY <2>1, MapIsRefs
<1>2. CountsRight'
  BY <1>1 DEF CountsRight, Refs, CountOf, PairsOf
<1>3. ASSUME NEW t \in Slot \ {c} PROVE Alive(t)'
  <2>1. Alive(t) /\ writable'[t] \subseteq writable[t]
    BY DEF MemInv
  <2> QED
    BY <2>1 DEF Alive, OnlySlot
<1>4. ASSUME NEW t \in Slot \ {c}, NEW u \in Slot \ {c}
      PROVE  Apart(t, u)' /\ SamePlace(t, u)' /\ Own(t, u)'
  <2>1. Apart(t, u) /\ SamePlace(t, u) /\ Own(t, u) /\ writable'[t] \subseteq writable[t]
    BY DEF MemInv
  <2>2. UNCHANGED <<task[t], task[u], dir[t], dir[u], entry[t], entry[u]>>
    BY DEF OnlySlot
  <2> QED
    BY <2>1, <2>2 DEF Apart, SamePlace, Own
<1> QED
  BY <1>2, <1>3, <1>4 DEF MemInv

LEMMA NullNoPage == NULL \notin Frame /\ NULL \notin 0..HIGH_MEMORY - 1
<1>1. Frame \subseteq Nat /\ 0..HIGH_MEMORY - 1 \subseteq Nat
  BY MemoryAssumption DEF Frame
<1> QED
  BY <1>1, MemoryAssumption

LEMMA MapType ==
    ASSUME TypeOK, NEW f \in Frame
    PROVE  mem_map[f] \in Nat /\ mem_map[f] \in 0..255
<1>1. mem_map[f] \in 0..255
  BY DEF TypeOK
<1> QED
  BY <1>1

LEMMA UsesOnce ==
    ASSUME NEW row, NEW f, \A v, w \in VPage : row[v] = f /\ row[w] = f => v = w
    PROVE  Uses(row, f) = Ones(In(VPage, row, f))
<1>1. CASE In(VPage, row, f)
  <2>1. PICK v \in VPage : row[v] = f
    BY <1>1 DEF In
  <2>2. {w \in VPage : row[w] = f} = {v}
    BY <2>1
  <2> QED
    BY <1>1, <2>2, FS_Singleton DEF Uses, Ones
<1>2. CASE ~In(VPage, row, f)
  <2>1. {w \in VPage : row[w] = f} = {}
    BY <1>2 DEF In
  <2> QED
    BY <1>2, <2>1, FS_EmptySet DEF Uses, Ones
<1> QED
  BY <1>1, <1>2

\* A page that two tasks have is counted twice.
LEMMA TwoUsers ==
    ASSUME MemInv, NEW t \in Slot, NEW u \in Slot, t # u, NEW v \in VPage, NEW w \in VPage,
           NEW f \in Frame, entry[t][v] = f, entry[u][w] = f
    PROVE  mem_map[f] > 1
<1> DEFINE G == {e \in Slot \X VPage : entry[e[1]][e[2]] = f}
           T == {<<t, v>>} \cup {<<u, w>>}
<1>1. IsFiniteSet(G)
  BY Finite, FS_Product, FS_Subset
<1>2. T \subseteq G /\ <<u, w>> \notin {<<t, v>>}
  OBVIOUS
<1>3. IsFiniteSet(T) /\ Cardinality(T) = 2
  <2>1. IsFiniteSet({<<t, v>>}) /\ Cardinality({<<t, v>>}) = 1
    BY FS_Singleton
  <2>2. /\ IsFiniteSet(T)
        /\ Cardinality(T) = IF <<u, w>> \in {<<t, v>>} THEN Cardinality({<<t, v>>})
                            ELSE Cardinality({<<t, v>>}) + 1
    BY <2>1, FS_AddElement
  <2> HIDE DEF T
  <2> QED
    BY <1>2, <2>1, <2>2
<1> HIDE DEF G, T
<1>4. Cardinality(T) <= Cardinality(G) /\ Cardinality(G) \in Nat
  BY <1>1, <1>2, FS_Subset, FS_CardinalityType
<1>5. PairsOf(Slot, VPage, entry, f) > 1
  BY <1>3, <1>4 DEF PairsOf, G
<1>6. CountOf(Slot, task, f) \in Nat /\ CountOf(Slot, dir, f) \in Nat
  BY Finite, FS_Subset, FS_CardinalityType DEF CountOf
<1>7. mem_map[f] = Refs(f)
  BY MapIsRefs
<1> QED
  BY <1>4, <1>5, <1>6, <1>7 DEF Refs, PairsOf, G

\* Steps that change only the contents of pages, or end in a panic.
LEMMA DataInv ==
    ASSUME MemInv, TypeOK', UNCHANGED <<mem_map, task, dir, entry, writable>>, panicked' # "free"
    PROVE  MemInv'
<1>1. CountsRight'
  BY DEF MemInv, CountsRight
<1>2. \A t \in Slot : Alive(t)'
  BY DEF MemInv, Alive
<1>3. \A t, u \in Slot : Apart(t, u)' /\ SamePlace(t, u)' /\ Own(t, u)'
  BY DEF MemInv, Apart, SamePlace, Own
<1> QED
  BY <1>1, <1>2, <1>3 DEF MemInv

\* An entry gets a new frame g in place of the page f, which is a frame that is
\* shared, a page of the kernel or no page.
Gets(t, v, g) ==
    /\ dir[t] # NULL
    /\ entry' = [entry EXCEPT ![t][v] = g]
    /\ writable' = [writable EXCEPT ![t] = @ \cup {v}]
    /\ UNCHANGED <<task, dir>>
    /\ \A h \in Frame : mem_map'[h] = IF h = g THEN 1
                                       ELSE mem_map[h] - Ones(entry[t][v] = h)
LEMMA NewPage ==
    ASSUME MemInv, TypeOK', panicked' # "free", NEW t \in Slot, NEW v \in VPage,
           NEW g \in Free, Gets(t, v, g)
    PROVE  MemInv'
<1> USE DEF Gets
<1>1. TypeOK /\ g \in Frame /\ mem_map[g] = 0
  BY DEF MemInv, Free
<1>2. OnlySlot(t) /\ task' = task /\ dir' = dir
  BY <1>1 DEF OnlySlot, TypeOK
<1>3. \A w \in VPage : entry'[t][w] = IF w = v THEN g ELSE entry[t][w]
  BY <1>1 DEF TypeOK
<1>4. \A u \in Slot : /\ task[u] # g /\ dir[u] # g 
                      /\ \A w \in VPage : entry[u][w] # g
  BY FreeUnused
<1>5. \A h \in Frame : mem_map'[h] = mem_map[h] + RefsOf(t, h)' - RefsOf(t, h)
  <2> TAKE h \in Frame
  <2>1. mem_map[h] \in Nat
    BY <1>1, MapType
  <2>2. /\ Is(task, t, h)' = Is(task, t, h) /\ Is(dir, t, h)' = Is(dir, t, h)
    BY <1>2 DEF Is
  <2>3. Ones(In(VPage, entry'[t], h)) - Ones(In(VPage, entry[t], h))
         = IF h = g THEN 1 ELSE 0 - Ones(entry[t][v] = h)
    <3>1. CASE h = g
      <4>1. In(VPage, entry'[t], h) /\ ~In(VPage, entry[t], h)
        BY <1>3, <1>4, <3>1 DEF In
      <4> QED
        BY <3>1, <4>1 DEF Ones
    <3>2. CASE h # g /\ entry[t][v] = h
      <4>1. ~In(VPage, entry'[t], h) /\ In(VPage, entry[t], h)
        BY <1>3, <3>2 DEF In, MemInv, SamePlace
      <4> QED
        BY <3>2, <4>1 DEF Ones
    <3>3. CASE h # g /\ entry[t][v] # h
      <4>1. In(VPage, entry'[t], h) = In(VPage, entry[t], h)
        BY <1>3, <3>3 DEF In
      <4> QED
        BY <3>3, <4>1 DEF Ones
    <3> QED
      BY <3>1, <3>2, <3>3
  <2>4. \A P : Ones(P) \in Nat
    BY DEF Ones
  <2>5. RefsOf(t, h)' - RefsOf(t, h)
        = Ones(In(VPage, entry'[t], h)) - Ones(In(VPage, entry[t], h))
    BY <2>2, <2>4 DEF RefsOf
  <2> HIDE DEF Ones
  <2> QED
    BY <1>1, <2>1, <2>3, <2>4, <2>5 DEF RefsOf
<1>6. Alive(t)'
  BY <1>2 DEF MemInv, Alive
<1>7. \A u \in Slot \ {t} : writable'[u] \subseteq writable[u]
  BY <1>1 DEF TypeOK
<1>8. \A u \in Slot : \A w, x \in VPage :
        entry'[t][w] \in Frame /\ entry'[t][w] = entry'[u][x]
        => w = x /\ (w = v => u = t)
  <2> TAKE u \in Slot
  <2>1. SamePlace(t, u)
    BY DEF MemInv
  <2>2. u # t => entry'[u] = entry[u]
    BY <1>2 DEF OnlySlot
  <2> QED
    BY <1>3, <1>4, <2>1, <2>2 DEF SamePlace
<1>9. ASSUME NEW u \in Slot
      PROVE  /\ Apart(t, u)' /\ SamePlace(t, u)' /\ Own(t, u)'
             /\ Apart(u, t)' /\ SamePlace(u, t)' /\ Own(u, t)'
  <2>1. /\ Apart(t, u) /\ SamePlace(t, u) /\ Own(t, u)
        /\ Apart(u, t) /\ SamePlace(u, t) /\ Own(u, t)
    BY DEF MemInv
  <2>2. u # t => entry'[u] = entry[u] /\ writable'[u] = writable[u]
    BY <1>1, <1>2 DEF OnlySlot, TypeOK
  <2>3. Apart(t, u)' /\ Apart(u, t)'
    BY <1>2, <1>3, <1>4, <2>1, <2>2 DEF Apart
  <2>4. SamePlace(t, u)' /\ SamePlace(u, t)'
    BY <1>8 DEF SamePlace
  <2>5. writable'[t] = writable[t] \cup {v}
    BY <1>1 DEF TypeOK
  <2>6. Own(t, u)'
    BY <1>1, <1>3, <1>4, <2>1, <2>2, <2>5 DEF Own, TypeOK
  <2>7. Own(u, t)'
    <3>1. CASE u = t
      BY <2>6, <3>1
    <3>2. CASE u # t
      BY <1>3, <1>4, <2>1, <2>2, <3>2, <1>1 DEF Own, TypeOK
    <3> QED
      BY <3>1, <3>2
  <2> QED
    BY <2>3, <2>4, <2>6, <2>7
<1> QED
  BY <1>2, <1>5, <1>6, <1>7, <1>9, SlotStep

\* The free page that get_free_page() takes.
LEMMA LastFree == ASSUME Free # {} PROVE Last(Free) \in Free
<1>1. Free \subseteq Frame
  BY DEF Free
<1> QED
  BY <1>1, LastProps

LEMMA FrameIsPage == Frame \subseteq 0..HIGH_MEMORY - 1
  BY MemoryAssumption DEF Frame

LEMMA RunningSlot == ASSUME NEW t \in Running PROVE t \in Slot /\ dir[t] # NULL
  BY DEF Running

\* ... and the types are kept.
LEMMA PageTypes ==
    ASSUME TypeOK, NEW t \in Slot, NEW v \in VPage, NEW g \in 0..HIGH_MEMORY - 1, NEW y \in Value,
           entry' = [entry EXCEPT ![t][v] = g], data' = [data EXCEPT ![g] = y],
           writable' = [writable EXCEPT ![t] = @ \cup {v}]
    PROVE  /\ entry' \in [Slot -> [VPage -> (0..HIGH_MEMORY - 1) \cup {NULL}]]
           /\ data' \in [0..HIGH_MEMORY - 1 -> Value]
           /\ writable' \in [Slot -> SUBSET VPage]
<1>1. entry' \in [Slot -> [VPage -> (0..HIGH_MEMORY - 1) \cup {NULL}]]
  BY DEF TypeOK
<1>2. data' \in [0..HIGH_MEMORY - 1 -> Value]
  BY DEF TypeOK
<1>3. writable' \in [Slot -> SUBSET VPage]
  BY DEF TypeOK
<1> QED
  BY <1>1, <1>2, <1>3

LEMMA NoPageInv ==
    ASSUME MemInv, panicked = "no", NEW t \in Running, NEW v \in VPage, NoPage(t, v)
    PROVE  MemInv'
<1>1. TypeOK /\ t \in Slot /\ dir[t] # NULL
  BY RunningSlot DEF MemInv
<1>2. CASE Free = {} /\ panicked' = "oom" /\ UNCHANGED <<mem_map, task, dir, entry, writable, data>>
  <2>1. TypeOK'
    BY <1>1, <1>2 DEF TypeOK
  <2> QED
    BY <1>2, <2>1, DataInv
<1>3. ASSUME NEW g \in Free, g = Last(Free), entry[t][v] = NULL,
             mem_map' = [mem_map EXCEPT ![g] = 1],
             entry' = [entry EXCEPT ![t][v] = g],
             data' = [data EXCEPT ![g] = Zero],
             writable' = [writable EXCEPT ![t] = @ \cup {v}],
             UNCHANGED <<task, dir, panicked>>
      PROVE  MemInv'
  <2>1. g \in Frame /\ g \in 0..HIGH_MEMORY - 1 /\ Zero \in Value
    BY FrameIsPage, MemoryAssumption DEF Free
  <2>2. TypeOK'
    <3>1. mem_map \in [Frame -> 0..255]
      BY <1>1 DEF TypeOK
    <3>2. mem_map' \in [Frame -> 0..255]
      BY <1>3, <2>1, <3>1
    <3>3. /\ entry' \in [Slot -> [VPage -> (0..HIGH_MEMORY - 1) \cup {NULL}]]
          /\ data' \in [0..HIGH_MEMORY - 1 -> Value]
          /\ writable' \in [Slot -> SUBSET VPage]
      BY <1>1, <1>3, <2>1, PageTypes
    <3> QED
      BY <1>1, <1>3, <3>2, <3>3 DEF TypeOK
  <2>3. \A h \in Frame : mem_map'[h] = IF h = g THEN 1
                                       ELSE mem_map[h] - Ones(entry[t][v] = h)
    <3> TAKE h \in Frame
    <3>1. entry[t][v] # h /\ mem_map[h] \in Nat
      BY <1>1, <1>3, NullNoPage, MapType
    <3>2. mem_map'[h] = IF h = g THEN 1 ELSE mem_map[h]
      BY <1>1, <1>3, <2>1 DEF TypeOK
    <3> QED
      BY <3>1, <3>2 DEF Ones
  <2>4. panicked' # "free"
    BY <1>3, panicked = "no"
  <2>5. Gets(t, v, g)
    BY <1>1, <1>3, <2>3 DEF Gets
  <2> QED
    BY <1>1, <2>2, <2>4, <2>5, NewPage
<1> QED
  BY <1>2, <1>3, LastFree DEF NoPage

LEMMA WriteProtectedInv ==
    ASSUME MemInv, panicked = "no", NEW t \in Running, NEW v \in VPage, WriteProtected(t, v)
    PROVE  MemInv'
<1>1. TypeOK /\ t \in Slot /\ dir[t] # NULL
  BY RunningSlot DEF MemInv
<1>2. PICK f \in 0..HIGH_MEMORY - 1 : f = entry[t][v]
  BY <1>1 DEF TypeOK, WriteProtected
<1>3. CASE panicked' = "oom" /\ UNCHANGED <<mem_map, task, dir, entry, writable, data>>
  <2>1. TypeOK'
    BY <1>1, <1>3 DEF TypeOK
  <2> QED
    BY <1>3, <2>1, DataInv
<1>4. CASE /\ Unshared(f)
           /\ writable' = [writable EXCEPT ![t] = @ \cup {v}]
           /\ UNCHANGED <<mem_map, task, dir, entry, data, panicked>>
  <2>1. f \in Frame /\ mem_map[f] = 1
    BY <1>4 DEF Unshared
  <2>2. TypeOK'
    <3>1. writable' \in [Slot -> SUBSET VPage]
      BY <1>1, <1>4 DEF TypeOK
    <3> QED
      BY <1>1, <1>4, <3>1 DEF TypeOK
  <2>3. CountsRight' /\ \A x \in Slot : \A u \in Slot : Apart(x, u)' /\ SamePlace(x, u)'
    <3>1. CountsRight'
      <4>1. CountsRight
        BY DEF MemInv
      <4> QED
        BY <1>4, <4>1 DEF CountsRight
    <3>2. ASSUME NEW x \in Slot, NEW u \in Slot PROVE Apart(x, u)' /\ SamePlace(x, u)'
      <4>1. Apart(x, u) /\ SamePlace(x, u)
        BY DEF MemInv
      <4> QED
        BY <1>4, <4>1 DEF Apart, SamePlace
    <3> QED
      BY <3>1, <3>2
  <2>4. \A u \in Slot : Alive(u)'
    BY <1>1, <1>4 DEF MemInv, Alive, TypeOK
  <2>5. \A u \in Slot \ {t} : \A w \in VPage : entry[u][w] # f
    BY <1>1, <1>2, <2>1, TwoUsers
  <2>6. ASSUME NEW x \in Slot, NEW u \in Slot PROVE Own(x, u)'
    <3>1. Own(x, u)
      BY DEF MemInv
    <3>2. CASE x = t
      <4>1. writable'[x] = writable[x] \cup {v}
        BY <1>1, <1>4, <3>2 DEF TypeOK
      <4> QED
        BY <1>2, <1>4, <2>1, <2>5, <3>1, <3>2, <4>1 DEF Own
    <3>3. CASE x # t
      <4>1. writable'[x] = writable[x]
        BY <1>1, <1>4, <3>3 DEF TypeOK
      <4> QED
        BY <1>4, <3>1, <4>1 DEF Own
    <3> QED
      BY <3>2, <3>3
  <2> QED
    BY <2>2, <2>3, <2>4, <2>6 DEF MemInv
<1>5. ASSUME ~Unshared(f), NEW g \in Free, g = Last(Free),
             mem_map' = Copied(f, g),
             entry' = [entry EXCEPT ![t][v] = g],
             data' = [data EXCEPT ![g] = data[f]],
             writable' = [writable EXCEPT ![t] = @ \cup {v}],
             UNCHANGED <<task, dir, panicked>>
      PROVE  MemInv'
  <2>1. g \in Frame /\ g \in 0..HIGH_MEMORY - 1 /\ data[f] \in Value
    BY <1>1, FrameIsPage DEF Free, TypeOK
  <2>2. f \in Frame => mem_map[f] \in 2..255
    <3> HAVE f \in Frame
    <3>1. In(VPage, entry[t], f)
      BY <1>2 DEF In
    <3>2. RefsOf(t, f) # 0
      BY <3>1 DEF RefsOf, Ones
    <3>3. mem_map[f] # 0
      BY <1>1, <3>2, RefsOfCounted, MapIsRefs
    <3>4. mem_map[f] # 1
      BY <1>5 DEF Unshared
    <3> QED
      BY <1>1, <3>3, <3>4, MapType
  <2>3. \A h \in Frame : mem_map'[h] = IF h = g THEN 1
                                       ELSE mem_map[h] - Ones(entry[t][v] = h)
    <3> TAKE h \in Frame
    <3>1. mem_map[h] \in Nat /\ mem_map[g] = 0
      BY <1>1, MapType DEF Free
    <3>2. mem_map'[h] = IF h = g THEN 1 
                        ELSE IF h = f THEN Byte(mem_map[f] - 1) ELSE mem_map[h]
      BY <1>5 DEF Copied
    <3>3. h = f => Byte(mem_map[f] - 1) = mem_map[f] - 1
      BY <2>2 DEF Byte
    <3> QED
      BY <1>2, <3>1, <3>2, <3>3 DEF Ones
  <2>4. mem_map' \in [Frame -> 0..255]
    <3> SUFFICES ASSUME NEW h \in Frame PROVE mem_map'[h] \in 0..255
      BY <1>5 DEF Copied
    <3>1. mem_map[h] \in 0..255 /\ (h = f => mem_map[h] # 0)
      BY <1>1, <2>2, MapType
    <3> QED
      BY <1>2, <2>3, <3>1 DEF Ones
  <2>5. TypeOK'
    <3>1. /\ entry' \in [Slot -> [VPage -> (0..HIGH_MEMORY - 1) \cup {NULL}]]
          /\ data' \in [0..HIGH_MEMORY - 1 -> Value]
          /\ writable' \in [Slot -> SUBSET VPage]
      BY <1>1, <1>5, <2>1, PageTypes
    <3> QED
      BY <1>1, <1>5, <2>4, <3>1 DEF TypeOK
  <2>6. panicked' # "free"
    BY <1>5, panicked = "no"
  <2>7. Gets(t, v, g)
    BY <1>1, <1>5, <2>3 DEF Gets
  <2> QED
    BY <1>1, <2>5, <2>6, <2>7, NewPage
<1> QED
  BY <1>2, <1>3, <1>4, <1>5, LastFree DEF WriteProtected

LEMMA WriteInv ==
    ASSUME MemInv, panicked = "no", NEW t \in Slot, NEW v \in VPage, NEW x \in Value,
           Write(t, v, x) \/ ReadInto(t, v, x)
    PROVE  MemInv'
<1>1. TypeOK
  BY DEF MemInv
<1>2. \E p : data' = [data EXCEPT ![p] = x]
  BY DEF Write, ReadInto
<1>3. UNCHANGED <<mem_map, task, dir, entry, writable, panicked>>
  BY DEF Write, ReadInto
<1>4. data' \in [0..HIGH_MEMORY - 1 -> Value]
  <2>1. data \in [0..HIGH_MEMORY - 1 -> Value]
    BY <1>1 DEF TypeOK
  <2>2. PICK p : data' = [data EXCEPT ![p] = x]
    BY <1>2
  <2> QED
    BY <2>1, <2>2
<1>5. TypeOK'
  BY <1>1, <1>3, <1>4 DEF TypeOK
<1> QED
  BY <1>3, <1>5, DataInv, panicked = "no"

LEMMA ForkFailsInv ==
    ASSUME MemInv, panicked = "no", NEW s \in Frame, ForkFails(s)
    PROVE  MemInv'
<1>1. TypeOK
  BY DEF MemInv
<1>2. TypeOK' 
  BY <1>1, MemoryAssumption DEF TypeOK, ForkFails
<1>3. UNCHANGED <<mem_map, task, dir, entry, writable>> /\ panicked' # "free"
  BY DEF ForkFails
<1> QED
  BY <1>2, <1>3, DataInv

LEMMA Lower == ASSUME NEW m \in 0..255, NEW n \in 0..m PROVE m - n \in 0..255
  OBVIOUS

LEMMA NotMore == ASSUME NEW m \in Nat, NEW n \in 0..m PROVE ~(n > m)
  OBVIOUS

LEMMA ExitInv ==
    ASSUME MemInv, panicked = "no", NEW t \in Running, Exit(t)
    PROVE  MemInv'
<1>1. TypeOK /\ t \in Slot /\ dir[t] # NULL
  BY RunningSlot DEF MemInv
<1>2. /\ OnlySlot(t) /\ task' = task /\ dir'[t] = NULL /\ writable'[t] = {}
      /\ \A v \in VPage : entry'[t][v] = NULL
      /\ \A u \in Slot \ {t} : writable'[u] = writable[u]
  BY <1>1 DEF Exit, OnlySlot, TypeOK
<1>3. ASSUME NEW f \in Frame
      PROVE  /\ Used(t, f) = RefsOf(t, f) - RefsOf(t, f)'
             /\ Used(t, f) \in 0..mem_map[f]
  <2>1. Uses(entry[t], f) = Ones(In(VPage, entry[t], f))
    <3>1. \A v, w \in VPage : entry[t][v] = f /\ entry[t][w] = f => v = w
      BY <1>1 DEF MemInv, SamePlace
    <3> QED
      BY <3>1, UsesOnce
  <2>2. Used(t, f) = Ones(In(VPage, entry[t], f)) + Ones(Is(dir, t, f))
    BY <2>1 DEF Used, Ones, Is
  <2>3. /\ Is(task, t, f)' = Is(task, t, f) /\ ~Is(dir, t, f)'
        /\ ~In(VPage, entry[t], f)'
    BY <1>2, NullNoPage DEF Is, In
  <2>4. RefsOf(t, f)' = Ones(Is(task, t, f))
    BY <2>3 DEF RefsOf, Ones
  <2>5. \A P : Ones(P) \in Nat
    BY DEF Ones
  <2>6. RefsOf(t, f) \in 0..mem_map[f] /\ mem_map[f] \in Nat
    BY <1>1, RefsOfCounted, MapIsRefs
  <2> HIDE DEF Ones
  <2> QED
    BY <2>2, <2>4, <2>5, <2>6 DEF RefsOf
<1>4. mem_map' = [f \in Frame |-> mem_map[f] - Used(t, f)] /\ UNCHANGED panicked
  <2> DEFINE n == [f \in Frame |-> Used(t, f)]
  <2>1. \A f \in Frame : n[f] \in 0..mem_map[f] /\ mem_map[f] \in Nat
    BY <1>1, <1>3, MapType
  <2>2. FreePages(n) /\ \A f \in Frame : n[f] = Used(t, f)
    BY DEF Exit
  <2> HIDE DEF n
  <2>3. ~ \E f \in Frame : n[f] > mem_map[f]
    <3> SUFFICES ASSUME NEW f \in Frame PROVE ~(n[f] > mem_map[f])
      OBVIOUS
    <3>1. n[f] \in 0..mem_map[f] /\ mem_map[f] \in Nat
      BY <2>1
    <3> QED
      BY ONLY <3>1, NotMore
  <2> QED
    BY <2>2, <2>3 DEF FreePages
<1>5. mem_map' \in [Frame -> 0..255]
  <2> SUFFICES ASSUME NEW f \in Frame PROVE mem_map[f] - Used(t, f) \in 0..255
    BY <1>4
  <2>1. Used(t, f) \in 0..mem_map[f] /\ mem_map[f] \in 0..255
    BY <1>1, <1>3, MapType
  <2> QED
    BY <2>1, Lower
<1>6. TypeOK'
  <2>1. entry' \in [Slot -> [VPage -> (0..HIGH_MEMORY - 1) \cup {NULL}]]
    BY <1>1 DEF TypeOK, Exit
  <2>2. writable' \in [Slot -> SUBSET VPage] /\ dir' \in [Slot -> Frame \cup {NULL}]
    BY <1>1 DEF TypeOK, Exit
  <2>3. UNCHANGED <<task, data>>
    BY DEF Exit
  <2> QED
    BY <1>1, <1>4, <1>5, <2>1, <2>2, <2>3 DEF TypeOK
<1>7. \A f \in Frame : mem_map'[f] = mem_map[f] + RefsOf(t, f)' - RefsOf(t, f)
  <2> TAKE f \in Frame
  <2>1. RefsOf(t, f) \in Nat /\ RefsOf(t, f)' \in Nat /\ mem_map[f] \in Nat
    BY <1>1, MapType DEF RefsOf, Ones
  <2> QED
    BY <1>3, <1>4, <2>1
<1>8. Alive(t)' /\ SamePlace(t, t)'
  BY <1>2, NullNoPage DEF Alive, SamePlace
<1>9. ASSUME NEW u \in Slot
      PROVE  /\ Apart(t, u)' /\ SamePlace(t, u)' /\ Own(t, u)'
             /\ Apart(u, t)' /\ SamePlace(u, t)' /\ Own(u, t)'
  <2>1. /\ Apart(t, u) /\ SamePlace(t, u) /\ Own(t, u)
        /\ Apart(u, t) /\ SamePlace(u, t) /\ Own(u, t)
    BY <1>1 DEF MemInv
  <2>2. u # t => entry'[u] = entry[u] /\ writable'[u] = writable[u] /\ dir'[u] = dir[u]
    BY <1>2 DEF OnlySlot
  <2>3. Apart(t, u)' /\ Apart(u, t)'
    BY <1>2, <2>1, <2>2, NullNoPage DEF Apart
  <2>4. SamePlace(t, u)' /\ SamePlace(u, t)'
    BY <1>2, <2>2, NullNoPage, <1>8 DEF SamePlace
  <2>5. Own(t, u)' /\ Own(u, t)'
    BY <1>2, <2>1, <2>2, NullNoPage DEF Own
  <2> QED
    BY <2>3, <2>4, <2>5
<1> QED
  BY <1>1, <1>2, <1>4, <1>6, <1>7, <1>8, <1>9, SlotStep

LEMMA ReleaseInv ==
    ASSUME MemInv, panicked = "no", NEW z \in Zombie, Release(z)
    PROVE  MemInv'
<1>1. TypeOK /\ z \in Slot /\ task[z] # NULL /\ dir[z] = NULL /\ task[z] \in Frame
  <2>1. TypeOK /\ z \in Slot /\ task[z] # NULL /\ dir[z] = NULL
    BY DEF MemInv, Zombie
  <2>2. task[z] \in Frame \cup {NULL}
    BY <2>1 DEF TypeOK
  <2> QED
    BY <2>1, <2>2
<1>2. /\ OnlySlot(z) /\ task'[z] = NULL 
      /\ UNCHANGED <<dir, entry, writable, data>>
  BY <1>1 DEF Release, OnlySlot, TypeOK
<1>3. /\ writable[z] = {} /\ \A v \in VPage : entry[z][v] = NULL
  BY <1>1 DEF MemInv, Alive
<1>4. ASSUME NEW f \in Frame
      PROVE  /\ RefsOf(z, f) = (IF f = task[z] THEN 1 ELSE 0) /\ RefsOf(z, f)' = 0
             /\ RefsOf(z, f) \in 0..mem_map[f]
  <2>1. /\ ~Is(dir, z, f) /\ ~In(VPage, entry[z], f) /\ (Is(task, z, f) <=> f = task[z])
        /\ ~Is(dir, z, f)' /\ ~In(VPage, entry[z], f)' /\ ~Is(task, z, f)'
    BY <1>1, <1>2, <1>3, NullNoPage DEF Is, In
  <2>2. RefsOf(z, f) \in 0..mem_map[f]
    BY <1>1, RefsOfCounted, MapIsRefs
  <2> QED
    BY <2>1, <2>2 DEF RefsOf, Ones
<1>5. mem_map' = [f \in Frame |-> mem_map[f] - RefsOf(z, f)] /\ UNCHANGED panicked
  <2> DEFINE n == [f \in Frame |-> IF f = task[z] THEN 1 ELSE 0]
  <2>1. \A f \in Frame : n[f] \in 0..mem_map[f] /\ mem_map[f] \in Nat /\ n[f] = RefsOf(z, f)
    BY <1>1, <1>4, MapType
  <2>2. FreePages(n)
    BY DEF Release
  <2> HIDE DEF n
  <2>3. ~ \E f \in Frame : n[f] > mem_map[f]
    <3> SUFFICES ASSUME NEW f \in Frame PROVE ~(n[f] > mem_map[f])
      OBVIOUS
    <3>1. n[f] \in 0..mem_map[f] /\ mem_map[f] \in Nat
      BY <2>1
    <3> QED
      BY ONLY <3>1, NotMore
  <2> QED
    BY <2>1, <2>2, <2>3 DEF FreePages
<1>6. mem_map' \in [Frame -> 0..255]
  <2> SUFFICES ASSUME NEW f \in Frame PROVE mem_map[f] - RefsOf(z, f) \in 0..255
    BY <1>5
  <2>1. RefsOf(z, f) \in 0..mem_map[f] /\ mem_map[f] \in 0..255
    BY <1>1, <1>4, MapType
  <2> QED
    BY <2>1, Lower
<1>7. TypeOK'
  <2>1. task' \in [Slot -> Frame \cup {NULL}]
    BY <1>1 DEF TypeOK, Release
  <2> QED
    BY <1>1, <1>2, <1>5, <1>6, <2>1 DEF TypeOK
<1>8. \A f \in Frame : mem_map'[f] = mem_map[f] + RefsOf(z, f)' - RefsOf(z, f)
  BY <1>1, <1>4, <1>5, MapType
<1>9. Alive(z)' /\ SamePlace(z, z)'
  BY <1>1, <1>2, <1>3, NullNoPage DEF Alive, SamePlace
<1>10. ASSUME NEW u \in Slot
      PROVE  /\ Apart(z, u)' /\ SamePlace(z, u)' /\ Own(z, u)'
             /\ Apart(u, z)' /\ SamePlace(u, z)' /\ Own(u, z)'
  <2>1. /\ Apart(z, u) /\ SamePlace(z, u) /\ Own(z, u)
        /\ Apart(u, z) /\ SamePlace(u, z) /\ Own(u, z)
    BY <1>1 DEF MemInv
  <2>2. u # z => task'[u] = task[u]
    BY <1>2 DEF OnlySlot
  <2>3. Apart(z, u)' /\ Apart(u, z)'
    BY <1>1, <1>2, <1>3, <2>1, <2>2, NullNoPage DEF Apart
  <2>4. SamePlace(z, u)' /\ SamePlace(u, z)' /\ Own(z, u)' /\ Own(u, z)'
    BY <1>2, <2>1 DEF SamePlace, Own
  <2> QED
    BY <2>3, <2>4
<1> QED
  BY <1>1, <1>2, <1>5, <1>7, <1>8, <1>9, <1>10, SlotStep

\* The two pages that fork() takes.
LEMMA TwoFree ==
    ASSUME Cardinality(Free) > 1
    PROVE  /\ Last(Free) \in Free
           /\ Last(Free \ {Last(Free)}) \in Free \ {Last(Free)}
<1>1. Free \subseteq Frame
  BY DEF Free
<1>2. Free # {}
  BY FS_EmptySet
<1>3. Last(Free) \in Free
  BY <1>1, <1>2, LastProps
<1>4. Free # {Last(Free)}
  BY FS_Singleton
<1> QED
  BY <1>1, <1>3, <1>4, LastProps

\* No frame is shared by more tasks than a count can hold.
LEMMA SharersBound ==
    ASSUME NEW f, NEW v \in VPage, NEW table,
           \A t \in Slot : \A w \in VPage : table[t][w] = f => w = v
    PROVE  PairsOf(Slot, VPage, table, f) <= 255
<1>1. IsFiniteSet(Slot) /\ Cardinality(Slot) <= 255
  BY Finite, MemoryAssumption
<1>2. PairsOf(Slot, VPage, table, f) <= Cardinality(Slot)
  BY <1>1, PairsBound
<1>3. PairsOf(Slot, VPage, table, f) \in Nat /\ Cardinality(Slot) \in Nat
  BY <1>1, Finite, FS_Product, FS_Subset, FS_CardinalityType DEF PairsOf
<1> QED
  BY <1>1, <1>2, <1>3

LEMMA ForkInv ==
    ASSUME MemInv, panicked = "no", NEW p \in Running \cup {0}, NEW c \in Slot, Fork(p, c)
    PROVE  MemInv'
<1>1. TypeOK /\ task[c] = NULL /\ dir[c] = NULL /\ Cardinality(Free) > 1
  BY DEF MemInv, Fork, FirstEmpty, Alive
<1>2. PICK s \in Free, d \in Free : s # d /\ s = Last(Free) /\ d = Last(Free \ {s})
  BY <1>1, TwoFree
<1> DEFINE row == Table(p)
<1>3. p = 0 \/ (p \in Slot /\ dir[p] # NULL /\ row = entry[p])
  <2>1. 0 \notin Slot
    BY DEF Slot
  <2> QED
    BY <2>1, RunningSlot DEF Table
<1>4. \A v \in VPage : /\ entry[c][v] = NULL /\ writable[c] = {}
                       /\ p # 0 => row[v] = entry[p][v]
                       /\ p = 0 => row[v] \notin Frame
  <2>1. \A v \in VPage : entry[c][v] = NULL /\ writable[c] = {}
    BY <1>1 DEF MemInv, Alive
  <2>2. p # 0 => row = entry[p]
    BY <1>3
  <2>3. ASSUME p = 0, NEW v \in VPage PROVE row[v] \notin Frame
    <3>1. row[v] = NULL \/ (v < Image /\ row[v] = v)
      BY <2>3 DEF Table
    <3>2. v < Image => v \notin Frame
      BY MemoryAssumption DEF VPage, Frame
    <3> QED
      BY <3>1, <3>2, NullNoPage
  <2> QED
    BY <2>1, <2>2, <2>3
<1>5. row \in [VPage -> (0..HIGH_MEMORY - 1) \cup {NULL}]
  <2>1. CASE p # 0
    BY <1>1, <1>3, <2>1 DEF TypeOK
  <2>2. CASE p = 0
    <3>1. \A v \in VPage : v < Image => v \in 0..HIGH_MEMORY - 1
      <4>1. s \in LOW_MEM..HIGH_MEMORY - 1
        BY DEF Free, Frame
      <4> QED
        BY <4>1, MemoryAssumption DEF VPage
    <3> QED
      BY <2>2, <3>1 DEF Table
  <2> QED
    BY <2>1, <2>2
<1>6. /\ task' = [task EXCEPT ![c] = s] /\ dir' = [dir EXCEPT ![c] = d]
      /\ mem_map' = [f \in Frame |-> IF f \in {s, d} THEN 1
                                     ELSE Byte(mem_map[f] + Uses(row, f))]
      /\ data' = [data EXCEPT ![s] = Zero, ![d] = Zero]
      /\ entry' = [entry EXCEPT ![c] = row]
      /\ writable' = [t \in Slot |-> IF t = c THEN {}
                                     ELSE IF t = p THEN StillWritable(t) ELSE writable[t]]
      /\ panicked' = panicked
  BY <1>2 DEF Fork
<1>7. /\ OnlySlot(c) /\ task'[c] = s /\ dir'[c] = d /\ entry'[c] = row /\ writable'[c] = {}
      /\ s \in Frame /\ d \in Frame /\ s # d
  BY <1>1, <1>2, <1>6 DEF OnlySlot, TypeOK, Free
<1> HIDE DEF row
<1>8. \A f \in {s, d} : \A u \in Slot : /\ task[u] # f /\ dir[u] # f
                                        /\ \A v \in VPage : entry[u][v] # f
  BY FreeUnused
<1>9. \A f \in {s, d} : \A v \in VPage : row[v] # f
  <2> TAKE f \in {s, d}
  <2> TAKE v \in VPage
  <2>1. CASE p = 0
    BY <1>4, <1>7, <2>1
  <2>2. CASE p # 0
    BY <1>3, <1>4, <1>8, <2>2
  <2> QED
    BY <2>1, <2>2
<1>10. \A u \in Slot \ {c} : 
         /\ writable'[u] \subseteq writable[u]
         /\ u = p => writable'[u] = {}
  BY <1>6 DEF StillWritable, MemInv, Own
<1>11. \A u \in Slot : \A v, w \in VPage : row[v] \in Frame /\ row[v] = entry'[u][w] => v = w
  <2> TAKE u \in Slot
  <2> TAKE v, w \in VPage
  <2> HAVE row[v] \in Frame /\ row[v] = entry'[u][w]
  <2>1. p \in Slot /\ row[v] = entry[p][v] /\ row[w] = entry[p][w]
    BY <1>3, <1>4
  <2>2. CASE u = c
    BY <1>7, <2>1, <2>2 DEF MemInv, SamePlace
  <2>3. CASE u # c
    <3>1. entry'[u][w] = entry[u][w]
      BY <1>7, <2>3 DEF OnlySlot
    <3>2. SamePlace(p, u)
      BY <2>1 DEF MemInv
    <3> QED
      BY <2>1, <3>1, <3>2 DEF SamePlace
  <2> QED
    BY <2>2, <2>3
<1>12. SamePlace(c, c)'
  BY <1>7, <1>11 DEF SamePlace
<1>13. ASSUME NEW f \in Frame \ {s, d}
       PROVE  /\ RefsOf(c, f) = 0 
              /\ RefsOf(c, f)' = Uses(row, f)
              /\ mem_map[f] + Uses(row, f) \in 0..255
  <2>1. ~Is(task, c, f) /\ ~Is(dir, c, f) /\ ~In(VPage, entry[c], f)
    BY <1>1, <1>4, NullNoPage DEF Is, In
  <2>2. ~Is(task, c, f)' /\ ~Is(dir, c, f)' /\ (In(VPage, entry[c], f)' <=> In(VPage, row, f))
    BY <1>7 DEF Is, In
  <2>3. Uses(row, f) = Ones(In(VPage, row, f))
    <3>1. \A v, w \in VPage : row[v] = f /\ row[w] = f => v = w
      BY <1>7, <1>11
    <3> QED
      BY <3>1, UsesOnce
  <2>4. RefsOf(c, f) = 0 /\ RefsOf(c, f)' = Uses(row, f)
    BY <2>1, <2>2, <2>3 DEF RefsOf, Ones
  <2>5. mem_map[f] \in 0..255
    BY <1>1, MapType
  <2>6. CASE ~In(VPage, row, f)
    BY <2>3, <2>4, <2>5, <2>6 DEF Ones
  <2>7. CASE In(VPage, row, f)
    <3>1. PICK v \in VPage : row[v] = f
      BY <2>7 DEF In
    <3>2. p \in Slot /\ entry[p][v] = f
      BY <1>3, <1>4, <3>1
    <3>3. \A u \in Slot : task'[u] # f /\ dir'[u] # f
      <4> TAKE u \in Slot
      <4>1. task[u] # f /\ dir[u] # f
        BY <3>2, NullNoPage DEF MemInv, Apart
      <4> QED
        BY <1>7, <4>1 DEF OnlySlot
    <3>4. CountOf(Slot, task', f) = 0 /\ CountOf(Slot, dir', f) = 0
      <4>1. {t \in Slot : task'[t] = f} = {} /\ {t \in Slot : dir'[t] = f} = {}
        BY <3>3
      <4> QED
        BY <4>1, FS_EmptySet DEF CountOf
    <3>5. PairsOf(Slot, VPage, entry', f) <= 255
      BY <1>11, <3>1, SharersBound
    <3>6. Refs(f)' = mem_map[f] + Uses(row, f)
      <4>1. Refs(f) \in Nat /\ Refs(f)' = Refs(f) + RefsOf(c, f)' - RefsOf(c, f)
        BY <1>7, <1>12, RefsStep DEF MemInv
      <4>2. Uses(row, f) = 1
        BY <2>3, <2>7 DEF Ones
      <4> QED
        BY <2>4, <4>1, <4>2, MapIsRefs
    <3>7. Refs(f)' = PairsOf(Slot, VPage, entry', f)
      <4>1. Uses(row, f) = 1
        BY <2>3, <2>7 DEF Ones
      <4>2. PairsOf(Slot, VPage, entry', f) \in Nat
        BY Finite, FS_Product, FS_Subset, FS_CardinalityType DEF PairsOf
      <4> QED
        BY <3>4, <4>2 DEF Refs
    <3>8. Uses(row, f) = 1
      BY <2>3, <2>7 DEF Ones
    <3> QED
      BY <2>4, <2>5, <3>5, <3>6, <3>7, <3>8
  <2> QED
    BY <2>4, <2>6, <2>7
<1>14. ASSUME NEW f \in Frame
       PROVE  /\ mem_map'[f] = mem_map[f] + RefsOf(c, f)' - RefsOf(c, f)
              /\ mem_map'[f] \in 0..255
  <2>1. CASE f \in {s, d}
    <3>1. mem_map[f] = 0 /\ mem_map'[f] = 1
      BY <1>6, <2>1 DEF Free
    <3>2. ~Is(task, c, f) /\ ~Is(dir, c, f) /\ ~In(VPage, entry[c], f)
      BY <1>8, <2>1 DEF Is, In
    <3>3. ~In(VPage, entry[c], f)' /\ (Is(task, c, f)' <=> f = s) /\ (Is(dir, c, f)' <=> f = d)
      BY <1>7, <1>9, <2>1 DEF Is, In
    <3> QED
      BY <1>7, <2>1, <3>1, <3>2, <3>3 DEF RefsOf, Ones
  <2>2. CASE f \notin {s, d}
    <3>1. mem_map[f] + Uses(row, f) \in 0..255 /\ RefsOf(c, f) = 0 /\ RefsOf(c, f)' = Uses(row, f)
      BY <1>13, <2>2
    <3>2. mem_map'[f] = mem_map[f] + Uses(row, f)
      BY <1>6, <2>2, <3>1 DEF Byte
    <3>3. mem_map[f] \in Nat /\ RefsOf(c, f)' \in Nat
      BY <1>1, MapType DEF RefsOf, Ones
    <3> QED
      BY <3>1, <3>2, <3>3
  <2> QED
    BY <2>1, <2>2
<1>15. TypeOK'
  <2>1. mem_map' \in [Frame -> 0..255]
    BY <1>6, <1>14
  <2>2. s \in 0..HIGH_MEMORY - 1 /\ d \in 0..HIGH_MEMORY - 1 /\ Zero \in Value
    BY <1>7, FrameIsPage, MemoryAssumption
  <2>3. data' \in [0..HIGH_MEMORY - 1 -> Value]
    BY <1>1, <1>6, <2>2 DEF TypeOK
  <2>4. writable' \in [Slot -> SUBSET VPage]
    BY <1>1, <1>6 DEF TypeOK, StillWritable
  <2>5. entry' \in [Slot -> [VPage -> (0..HIGH_MEMORY - 1) \cup {NULL}]]
    BY <1>1, <1>5, <1>6 DEF TypeOK
  <2> QED
    BY <1>1, <1>6, <1>7, <2>1, <2>3, <2>4, <2>5 DEF TypeOK
<1>16. Alive(c)'
  BY <1>7, NullNoPage DEF Alive
<1>17. ASSUME NEW u \in Slot
       PROVE  /\ Apart(c, u)' /\ SamePlace(c, u)' /\ Own(c, u)'
              /\ Apart(u, c)' /\ SamePlace(u, c)' /\ Own(u, c)'
  <2>1. u # c => UNCHANGED <<task[u], dir[u], entry[u]>>
    BY <1>7 DEF OnlySlot
  <2>2. Apart(c, u)'
    BY <1>7, <1>8, <1>9, <2>1 DEF Apart
  <2>3. Apart(u, c)'
    <3>1. CASE u = c
      BY <2>2, <3>1
    <3>2. CASE u # c
      <4>1. ASSUME NEW v \in VPage
            PROVE  /\ task[u] # NULL => row[v] # task[u]
                   /\ dir[u] # NULL => row[v] # dir[u]
        <5>1. CASE p = 0
          BY <1>1, <1>4, <5>1 DEF TypeOK
        <5>2. CASE p # 0
          <6>1. p \in Slot /\ row[v] = entry[p][v]
            BY <1>3, <1>4, <5>2
          <6> QED
            BY <6>1 DEF MemInv, Apart
        <5> QED
          BY <5>1, <5>2
      <4>2. Apart(u, u)
        BY DEF MemInv
      <4> QED
        BY <1>7, <1>8, <2>1, <3>2, <4>1, <4>2 DEF Apart
    <3> QED
      BY <3>1, <3>2
  <2>4. SamePlace(c, u)'
    BY <1>7, <1>11 DEF SamePlace
  <2>5. SamePlace(u, c)'
    BY <1>7, <1>11 DEF SamePlace
  <2>6. Own(c, u)'
    BY <1>7 DEF Own
  <2>7. Own(u, c)'
    <3>1. CASE u = c
      BY <2>6, <3>1
    <3>2. CASE u # c
      <4> SUFFICES ASSUME NEW v \in writable'[u]
                   PROVE  entry'[u][v] \in Frame /\ \A w \in VPage : entry'[c][w] # entry'[u][v]
        BY DEF Own
      <4>1. v \in writable[u] /\ u # p /\ v \in VPage
        BY <1>1, <1>10, <3>2 DEF TypeOK
      <4>2. entry[u][v] \in Frame
        BY <4>1 DEF MemInv, Own
      <4>3. \A w \in VPage : row[w] # entry[u][v]
        <5>1. CASE p = 0
          BY <1>4, <4>2, <5>1
        <5>2. CASE p # 0
          BY <1>3, <1>4, <4>1, <5>2 DEF MemInv, Own
        <5> QED
          BY <5>1, <5>2
      <4> QED
        BY <1>7, <2>1, <3>2, <4>2, <4>3
    <3> QED
      BY <3>1, <3>2
  <2> QED
    BY <2>2, <2>3, <2>4, <2>5, <2>6, <2>7
<1>18. panicked' # "free"
  BY <1>6, panicked = "no"
<1>19. \A u \in Slot \ {c} : writable'[u] \subseteq writable[u]
  BY <1>10
<1> QED
  BY <1>7, <1>12, <1>14, <1>15, <1>16, <1>17, <1>18, <1>19, SlotStep

LEMMA MemInit == Init => MemInv
<1> SUFFICES ASSUME Init PROVE MemInv
  OBVIOUS
<1>1. TypeOK
  <2>1. Zero \in Value /\ Code \in Value
    BY MemoryAssumption
  <2> QED
    BY <2>1 DEF Init, TypeOK
<1>2. CountsRight
  <2> SUFFICES ASSUME NEW f \in Frame
               PROVE  mem_map[f] = Cardinality({t \in Slot : task[t] = f})
                       + Cardinality({t \in Slot : dir[t] = f})
                       + Cardinality({e \in Slot \X VPage : entry[e[1]][e[2]] = f})
    BY DEF CountsRight, Init
  <2>1. /\ {t \in Slot : task[t] = f} = {} /\ {t \in Slot : dir[t] = f} = {}
        /\ {e \in Slot \X VPage : entry[e[1]][e[2]] = f} = {}
    BY NullNoPage DEF Init
  <2>2. mem_map[f] = 0
    BY DEF Init
  <2>3. /\ Cardinality({t \in Slot : task[t] = f}) = 0
        /\ Cardinality({t \in Slot : dir[t] = f}) = 0
        /\ Cardinality({e \in Slot \X VPage : entry[e[1]][e[2]] = f}) = 0
    BY <2>1, FS_EmptySet
  <2> QED
    BY <2>2, <2>3
<1>3. \A t \in Slot : Alive(t)
  BY DEF Init, Alive
<1>4. \A t, u \in Slot : Apart(t, u) /\ SamePlace(t, u) /\ Own(t, u)
  BY NullNoPage DEF Init, Apart, SamePlace, Own
<1> QED
  BY <1>1, <1>2, <1>3, <1>4 DEF MemInv

\* Every step keeps the invariant, that of read() included.
LEMMA MemNext == MemInv /\ [Next]_vars => MemInv'
<1>1. ASSUME MemInv, QuietNext PROVE MemInv'
  <2>0. panicked = "no" /\ \A t \in Running : t \in Slot
    BY <1>1, RunningSlot DEF QuietNext
  <2> QED
    BY <1>1, <2>0, ForkInv, ForkFailsInv, ExitInv, ReleaseInv, NoPageInv, WriteProtectedInv, WriteInv
    DEF QuietNext
<1>2. ASSUME MemInv, panicked = "no", NEW t \in Running, NEW v \in VPage, NEW x \in Value,
             ReadInto(t, v, x)
      PROVE  MemInv'
  BY <1>2, RunningSlot, WriteInv
<1>3. ASSUME MemInv, UNCHANGED vars PROVE MemInv'
  <2>1. TypeOK' /\ panicked' # "free"
    BY <1>3 DEF MemInv, TypeOK, CountsRight, vars
  <2> QED
    BY <1>3, <2>1, DataInv DEF vars
<1> QED
  BY <1>1, <1>2, <1>3 DEF Next

LEMMA MemAlways == Spec => []MemInv
  BY MemInit, MemNext, PTL DEF Spec

\* Types: a count never wraps, however many tasks fork() makes share a page.
THEOREM MemoryTypes == Spec => []TypeOK
<1>1. MemInv => TypeOK
  BY DEF MemInv
<1> QED
  BY <1>1, MemAlways, PTL

\* mem_map[] counts exactly the users of each frame, after any sequence of
\* forks, faults and exits, so free_page() never panics.
THEOREM MapCounts == Spec => []CountsRight
<1>1. MemInv => CountsRight
  BY DEF MemInv
<1> QED
  BY <1>1, MemAlways, PTL

\* What a task may write belongs to it alone: un_wp_page() makes a page
\* writable only for its last user, and fork() takes the right away from both.
THEOREM WritersAreAlone == Spec => []WritableIsPrivate
<1>1. MemInv => WritableIsPrivate
  <2> SUFFICES ASSUME MemInv, NEW t \in Slot, NEW v \in writable[t]
               PROVE  entry[t][v] \in Frame /\ mem_map[entry[t][v]] = 1
    BY DEF WritableIsPrivate
  <2>1. v \in VPage
    BY DEF MemInv, TypeOK
  <2>2. PICK f \in Frame : f = entry[t][v]
    BY DEF MemInv, Own
  <2>3. \A u \in Slot : task[u] # f /\ dir[u] # f
    BY <2>1, <2>2, NullNoPage DEF MemInv, Apart
  <2>4. \A u \in Slot : \A w \in VPage : entry[u][w] = f => u = t /\ w = v
    BY <2>1, <2>2 DEF MemInv, Own, SamePlace
  <2>5. {u \in Slot : task[u] = f} = {} /\ {u \in Slot : dir[u] = f} = {}
    BY <2>3
  <2>6. {e \in Slot \X VPage : entry[e[1]][e[2]] = f} = {<<t, v>>}
    BY <2>1, <2>2, <2>4
  <2>7. CountOf(Slot, task, f) = 0 /\ CountOf(Slot, dir, f) = 0
    BY <2>5, FS_EmptySet DEF CountOf
  <2>8. PairsOf(Slot, VPage, entry, f) = 1
    BY <2>6, FS_Singleton DEF PairsOf
  <2> QED
    BY <2>2, <2>7, <2>8, MapIsRefs DEF Refs
<1> QED
  BY <1>1, MemAlways, PTL

(***************************************************************************)
(* The refinement of PrivateMemory, by programs that do not call read().   *)
(***************************************************************************)

\* Nobody writes a page of the kernel, and what a task sees is a memory.
QuietInv == MemInv /\ \A p \in 0..HIGH_MEMORY - 1 : p < LOW_MEM => data[p] = Code

LEMMA ViewType ==
    ASSUME TypeOK, NEW t \in Slot
    PROVE  View(t) \in [VPage -> Value] /\ View(t) # NULL
<1>1. ASSUME NEW v \in VPage
      PROVE  (IF entry[t][v] = NULL THEN Zero ELSE data[entry[t][v]]) \in Value
  <2>1. CASE entry[t][v] = NULL
    BY <2>1, MemoryAssumption
  <2>2. CASE entry[t][v] # NULL
    <3>1. entry[t][v] \in 0..HIGH_MEMORY - 1
      BY <2>2 DEF TypeOK
    <3> QED
      BY <2>2, <3>1 DEF TypeOK
  <2> QED
    BY <2>1, <2>2
<1>2. View(t) \in [VPage -> Value]
  BY <1>1 DEF View
<1> QED
  BY <1>2, MemoryAssumption

\* What a task sees stays if its entries and what they point to stay.
LEMMA ViewKept ==
    ASSUME NEW t \in Slot, entry'[t] = entry[t],
           \A v \in VPage : entry[t][v] # NULL => data'[entry[t][v]] = data[entry[t][v]]
    PROVE  View(t)' = View(t)
  BY DEF View

\* New frames are seen by nobody, so filling them shows nowhere.
LEMMA FreshData ==
    ASSUME MemInv, NEW t \in Slot, NEW F, F \subseteq Free,
           \A p \in 0..HIGH_MEMORY - 1 : p \notin F => data'[p] = data[p]
    PROVE  \A v \in VPage : entry[t][v] # NULL => data'[entry[t][v]] = data[entry[t][v]]
<1> TAKE v \in VPage
<1> HAVE entry[t][v] # NULL
<1>1. entry[t][v] \in 0..HIGH_MEMORY - 1
  BY DEF MemInv, TypeOK
<1>2. entry[t][v] \notin F
  BY FreeUnused
<1> QED
  BY <1>1, <1>2

PrivateStep == [Private!PrivateNext]_Mem

LEMMA SameViews ==
    ASSUME dir' = dir, \A t \in Running : View(t)' = View(t)
    PROVE  PrivateStep
<1>1. Running' = Running
  BY DEF Running
<1>2. Mem' = Mem
  BY <1>1 DEF Mem
<1> QED
  BY <1>2 DEF PrivateStep

LEMMA ForkStep ==
    ASSUME QuietInv, NEW p \in Running \cup {0}, NEW c \in Slot, Fork(p, c)
    PROVE  PrivateStep
<1>1. TypeOK /\ MemInv /\ dir[c] = NULL /\ Cardinality(Free) > 1
  BY DEF QuietInv, MemInv, Fork, FirstEmpty, Alive
<1>2. PICK s \in Free, d \in Free : s # d /\ s = Last(Free) /\ d = Last(Free \ {s})
  BY <1>1, TwoFree
<1>3. /\ dir' = [dir EXCEPT ![c] = d] /\ entry' = [entry EXCEPT ![c] = Table(p)]
      /\ data' = [data EXCEPT ![s] = Zero, ![d] = Zero]
  BY <1>2 DEF Fork
<1>4. s \in Frame /\ d \in Frame /\ d # NULL
  BY <1>2, NullNoPage DEF Free
<1>5. \A q \in 0..HIGH_MEMORY - 1 : q \notin {s, d} => data'[q] = data[q]
  BY <1>1, <1>3 DEF TypeOK
<1>6. \A t \in Slot \ {c} : View(t)' = View(t)
  <2> TAKE t \in Slot \ {c}
  <2>1. entry'[t] = entry[t]
    BY <1>1, <1>3 DEF TypeOK
  <2>2. \A v \in VPage : entry[t][v] # NULL => data'[entry[t][v]] = data[entry[t][v]]
    BY <1>1, <1>5, FreshData
  <2> QED
    BY <2>1, <2>2, ViewKept
<1>7. Running' = Running \cup {c} /\ c \notin Running
  BY <1>1, <1>3, <1>4 DEF Running, TypeOK
<1>8. Mem' = [Mem EXCEPT ![c] = View(c)'] /\ Mem[c] = NULL
  BY <1>6, <1>7 DEF Mem
<1>9. CASE p = 0
  <2>1. c = 1 /\ entry'[c] = Table(0)
    BY <1>1, <1>3, <1>9 DEF Fork, TypeOK
  <2>2. ASSUME NEW v \in VPage
        PROVE  (IF entry'[c][v] = NULL THEN Zero ELSE data'[entry'[c][v]])
               = IF v < Image THEN Code ELSE Zero
    <3>1. CASE v < Image
      <4>1. v \in 0..HIGH_MEMORY - 1 /\ v < LOW_MEM /\ v # NULL /\ v \notin {s, d}
        BY <1>4, <3>1, MemoryAssumption DEF VPage, Frame
      <4>2. entry'[c][v] = v
        BY <2>1, <3>1 DEF Table
      <4> QED
        BY <1>5, <3>1, <4>1, <4>2 DEF QuietInv
    <3>2. CASE ~(v < Image)
      BY <2>1, <3>2 DEF Table
    <3> QED
      BY <3>1, <3>2
  <2>3. View(c)' = FirstView
    BY <2>2 DEF View, FirstView
  <2>4. Private!Boot(c)
    BY <1>8, <2>3 DEF Private!Boot
  <2> QED
    BY <2>4 DEF PrivateStep, Private!PrivateNext
<1>10. CASE p # 0
  <2>1. p \in Slot /\ p \in Running /\ p # c /\ Table(p) = entry[p]
    BY <1>1, <1>7, <1>10, RunningSlot DEF Table
  <2>2. View(c)' = View(p)
    <3>1. entry'[c] = entry[p] /\ entry'[p] = entry[p]
      BY <1>1, <1>3, <2>1 DEF TypeOK
    <3>2. View(c)' = View(p)'
      BY <3>1 DEF View
    <3> QED
      BY <1>6, <2>1, <3>2
  <2>3. Mem[p] = View(p) /\ View(p) # NULL
    BY <1>1, <2>1, ViewType DEF Mem
  <2>4. Private!Clone(p, c)
    BY <1>8, <2>2, <2>3 DEF Private!Clone
  <2> QED
    BY <2>1, <2>4 DEF PrivateStep, Private!PrivateNext
<1> QED
  BY <1>9, <1>10

LEMMA ExitStep ==
    ASSUME QuietInv, NEW t \in Running, Exit(t)
    PROVE  PrivateStep
<1>1. TypeOK /\ t \in Slot
  BY RunningSlot DEF QuietInv, MemInv
<1>2. Running' = Running \ {t}
  BY <1>1 DEF Running, Exit, TypeOK
<1>3. \A u \in Slot \ {t} : View(u)' = View(u)
  BY <1>1 DEF View, Exit, TypeOK
<1>4. Mem' = [Mem EXCEPT ![t] = NULL]
  BY <1>1, <1>2, <1>3 DEF Mem
<1>5. Mem[t] # NULL
  BY <1>1, ViewType DEF Mem
<1>6. Private!Quit(t)
  BY <1>4, <1>5 DEF Private!Quit
<1> QED
  BY <1>1, <1>6 DEF PrivateStep, Private!PrivateNext

\* A new frame in place of nothing, with zeros, or of a page with its contents:
\* the task sees what it saw.
LEMMA PageStep ==
    ASSUME QuietInv, NEW t \in Running, NEW v \in VPage, NEW g \in Free,
           entry' = [entry EXCEPT ![t][v] = g], dir' = dir,
           data' = [data EXCEPT ![g] = IF entry[t][v] = NULL THEN Zero ELSE data[entry[t][v]]]
    PROVE  PrivateStep
<1>1. TypeOK /\ MemInv /\ t \in Slot /\ g \in 0..HIGH_MEMORY - 1 /\ g # NULL
  BY RunningSlot, FrameIsPage, NullNoPage DEF QuietInv, MemInv, Free
<1>2. \A q \in 0..HIGH_MEMORY - 1 : q \notin {g} => data'[q] = data[q]
  BY <1>1 DEF TypeOK
<1>3. ASSUME NEW u \in Slot
      PROVE  \A w \in VPage : entry[u][w] # NULL => data'[entry[u][w]] = data[entry[u][w]]
  BY <1>1, <1>2, FreshData
<1>4. ASSUME NEW u \in Slot \ {t} PROVE View(u)' = View(u)
  <2>1. entry'[u] = entry[u]
    BY <1>1 DEF TypeOK
  <2> QED
    BY <1>3, <2>1, ViewKept
<1>5. View(t)' = View(t)
  <2>1. \A w \in VPage : entry'[t][w] = IF w = v THEN g ELSE entry[t][w]
    BY <1>1 DEF TypeOK
  <2>2. data'[g] = IF entry[t][v] = NULL THEN Zero ELSE data[entry[t][v]]
    BY <1>1 DEF TypeOK
  <2>3. ASSUME NEW w \in VPage
        PROVE  (IF entry'[t][w] = NULL THEN Zero ELSE data'[entry'[t][w]])
               = (IF entry[t][w] = NULL THEN Zero ELSE data[entry[t][w]])
    BY <1>1, <1>3, <2>1, <2>2
  <2> QED
    BY <2>3 DEF View
<1>6. \A u \in Running : View(u)' = View(u)
  BY <1>4, <1>5, RunningSlot
<1> QED
  BY <1>6, SameViews

LEMMA WriteStep ==
    ASSUME QuietInv, NEW t \in Running, NEW v \in VPage, NEW x \in Value, Write(t, v, x)
    PROVE  PrivateStep
<1>1. TypeOK /\ MemInv /\ t \in Slot /\ v \in writable[t]
  BY RunningSlot DEF QuietInv, MemInv, Write
<1>2. PICK f \in Frame : f = entry[t][v]
  BY <1>1 DEF MemInv, Own
<1>3. data' = [data EXCEPT ![f] = x] /\ UNCHANGED <<dir, entry>>
  BY <1>2 DEF Write
<1>4. f \in 0..HIGH_MEMORY - 1 /\ f # NULL
  BY FrameIsPage, NullNoPage
<1>5. \A u \in Slot : \A w \in VPage : entry[u][w] = f => u = t /\ w = v
  BY <1>1, <1>2 DEF MemInv, Own, SamePlace
<1>6. \A q \in 0..HIGH_MEMORY - 1 : data'[q] = IF q = f THEN x ELSE data[q]
  BY <1>1, <1>3 DEF TypeOK
<1>7. \A u \in Slot : \A w \in VPage : entry[u][w] # NULL => entry[u][w] \in 0..HIGH_MEMORY - 1
  BY <1>1 DEF TypeOK
<1>8. ASSUME NEW u \in Slot \ {t} PROVE View(u)' = View(u)
  BY <1>3, <1>5, <1>6, <1>7, ViewKept
<1>9. View(t)' = [View(t) EXCEPT ![v] = x]
  <2>1. ASSUME NEW w \in VPage
        PROVE  (IF entry'[t][w] = NULL THEN Zero ELSE data'[entry'[t][w]])
               = IF w = v THEN x ELSE IF entry[t][w] = NULL THEN Zero ELSE data[entry[t][w]]
    BY <1>1, <1>2, <1>3, <1>4, <1>5, <1>6, <1>7
  <2> QED
    BY <2>1 DEF View
<1>10. Running' = Running
  BY <1>3 DEF Running
<1>11. Mem' = [Mem EXCEPT ![t][v] = x] /\ Mem[t] # NULL
  <2>1. Mem[t] = View(t)
    BY <1>1 DEF Mem
  <2>2. Mem' = [Mem EXCEPT ![t] = [View(t) EXCEPT ![v] = x]]
    BY <1>1, <1>8, <1>9, <1>10 DEF Mem
  <2> QED
    BY <1>1, <2>1, <2>2, ViewType
<1>12. Private!Store(t, v, x)
  BY <1>11 DEF Private!Store
<1> QED
  BY <1>1, <1>12 DEF PrivateStep, Private!PrivateNext

\* The steps of QuietSpec.
LEMMA QuietStep == QuietInv /\ [QuietNext]_vars => PrivateStep
<1>1. ASSUME QuietInv, NEW s \in Frame, ForkFails(s) PROVE PrivateStep
  <2>1. MemInv /\ dir' = dir /\ entry' = entry
    BY <1>1 DEF QuietInv, ForkFails
  <2>2. \A q \in 0..HIGH_MEMORY - 1 : q \notin {s} => data'[q] = data[q]
    BY <1>1 DEF QuietInv, MemInv, TypeOK, ForkFails
  <2>3. {s} \subseteq Free
    BY <1>1 DEF ForkFails
  <2>4. ASSUME NEW t \in Slot PROVE View(t)' = View(t)
    BY <2>1, <2>2, <2>3, FreshData, ViewKept
  <2> QED
    BY <2>1, <2>4, SameViews, RunningSlot
<1>2. ASSUME QuietInv, UNCHANGED <<dir, entry, data>> PROVE PrivateStep
  <2>1. \A t \in Slot : View(t)' = View(t)
    BY <1>2 DEF View
  <2> QED
    BY <1>2, <2>1, SameViews, RunningSlot
<1>3. ASSUME QuietInv, NEW t \in Running, NEW v \in VPage, NoPage(t, v) PROVE PrivateStep
  BY <1>2, <1>3, PageStep, LastFree DEF NoPage
<1>4. ASSUME QuietInv, NEW t \in Running, NEW v \in VPage, WriteProtected(t, v) PROVE PrivateStep
  BY <1>2, <1>4, PageStep, LastFree DEF WriteProtected
<1>5. ASSUME QuietInv, NEW z \in Zombie, Release(z) PROVE PrivateStep
  BY <1>2, <1>5 DEF Release
<1>6. ASSUME QuietInv, UNCHANGED vars PROVE PrivateStep
  BY <1>2, <1>6 DEF vars
<1> QED
  BY <1>1, <1>3, <1>4, <1>5, <1>6, ForkStep, ExitStep, WriteStep DEF QuietNext

LEMMA QuietInvInit == Init => QuietInv
  BY MemInit DEF QuietInv, Init

LEMMA QuietInvNext == QuietInv /\ [QuietNext]_vars => QuietInv'
<1> SUFFICES ASSUME QuietInv, [QuietNext]_vars PROVE QuietInv'
  OBVIOUS
<1>1. MemInv'
  BY MemNext DEF QuietInv, Next
<1>2. MemInv /\ TypeOK /\ \A t \in Running : t \in Slot
  BY RunningSlot DEF QuietInv, MemInv
<1> SUFFICES ASSUME NEW p \in 0..HIGH_MEMORY - 1, p < LOW_MEM PROVE data'[p] = data[p]
  BY <1>1 DEF QuietInv
<1>3. p \notin Frame
  BY MemoryAssumption DEF Frame
<1>4. ASSUME NEW q \in Frame, NEW x, data' = [data EXCEPT ![q] = x]
      PROVE  data'[p] = data[p]
  BY <1>2, <1>3, <1>4 DEF TypeOK
<1>5. Free # {} => Last(Free) \in Frame
  BY LastFree DEF Free
<1>6. ASSUME NEW q \in Running \cup {0}, NEW c \in Slot, Fork(q, c) PROVE data'[p] = data[p]
  <2>1. Last(Free) \in Frame /\ Last(Free \ {Last(Free)}) \in Frame
    BY <1>6, TwoFree DEF Fork, Free
  <2> QED
    BY <1>2, <1>3, <1>6, <2>1 DEF Fork, TypeOK
<1>7. ASSUME NEW s \in Frame, ForkFails(s) PROVE data'[p] = data[p]
  BY <1>4, <1>7 DEF ForkFails
<1>8. ASSUME NEW t \in Running, Exit(t) PROVE data'[p] = data[p]
  BY <1>8 DEF Exit
<1>9. ASSUME NEW z \in Zombie, Release(z) PROVE data'[p] = data[p]
  BY <1>9 DEF Release
<1>10. ASSUME NEW t \in Running, NEW v \in VPage, NoPage(t, v) \/ WriteProtected(t, v)
       PROVE  data'[p] = data[p]
  BY <1>4, <1>5, <1>10 DEF NoPage, WriteProtected
<1>11. ASSUME NEW t \in Running, NEW v \in VPage, NEW x \in Value, Write(t, v, x)
       PROVE  data'[p] = data[p]
  <2>1. entry[t][v] \in Frame
    BY <1>2, <1>11 DEF Write, MemInv, Own
  <2> QED
    BY <1>4, <1>11, <2>1 DEF Write
<1>12. CASE UNCHANGED vars
  BY <1>12 DEF vars
<1> QED
  BY <1>6, <1>7, <1>8, <1>9, <1>10, <1>11, <1>12 DEF QuietNext

LEMMA QuietAlways == QuietSpec => []QuietInv
  BY QuietInvInit, QuietInvNext, PTL DEF QuietSpec

\* Copy on write is invisible to programs that do not call read(): each task
\* has a memory of its own, which starts as a copy of its father's.
THEOREM MemoryIsPrivate == QuietSpec => ImplementsPrivateMemory
<1>1. Init => Private!PrivateInit
  BY DEF Init, Private!PrivateInit, Mem, Running
<1> QED
  BY <1>1, QuietStep, QuietAlways, PTL
  DEF QuietSpec, ImplementsPrivateMemory, Private!PrivateSpec, PrivateStep

-----------------------------------------------------------------------------
\* What two entries point to is not written, as long as nobody calls read():
\* it is not free, and no entry of it has the R/W bit.
Shared(p) ==
    \E t, u \in Slot : \E v, w \in VPage :
        <<t, v>> # <<u, w>> /\ entry[t][v] = p /\ entry[u][w] = p

LEMMA SharedStep ==
    ASSUME QuietInv, [QuietNext]_vars, NEW p \in 0..HIGH_MEMORY - 1, Shared(p)
    PROVE  data'[p] = data[p]
<1>1. MemInv /\ TypeOK /\ \A t \in Running : t \in Slot
  BY RunningSlot DEF QuietInv, MemInv
<1>2. p \notin Free
  BY <1>1, FreeUnused DEF Shared
<1>3. ASSUME NEW q \in Free, NEW x, data' = [data EXCEPT ![q] = x]
      PROVE  data'[p] = data[p]
  BY <1>1, <1>2, <1>3 DEF TypeOK
<1>4. ASSUME NEW q \in Running \cup {0}, NEW c \in Slot, Fork(q, c) PROVE data'[p] = data[p]
  <2>1. Last(Free) \in Free /\ Last(Free \ {Last(Free)}) \in Free
    BY <1>4, TwoFree DEF Fork
  <2> QED
    BY <1>1, <1>2, <1>4, <2>1 DEF Fork, TypeOK
<1>5. ASSUME NEW s \in Frame, ForkFails(s) PROVE data'[p] = data[p]
  BY <1>3, <1>5 DEF ForkFails
<1>6. ASSUME NEW t \in Running, NEW v \in VPage, NoPage(t, v) \/ WriteProtected(t, v)
      PROVE  data'[p] = data[p]
  BY <1>3, <1>6, LastFree DEF NoPage, WriteProtected
<1>7. ASSUME NEW t \in Running, NEW v \in VPage, NEW x \in Value, Write(t, v, x)
      PROVE  data'[p] = data[p]
  <2>1. t \in Slot /\ v \in writable[t] /\ data' = [data EXCEPT ![entry[t][v]] = x]
    BY <1>1, <1>7 DEF Write
  <2>2. /\ entry[t][v] \in Frame
        /\ \A u \in Slot : \A w \in VPage : entry[u][w] = entry[t][v] => u = t /\ w = v
    BY <1>1, <2>1 DEF MemInv, Own, SamePlace
  <2>3. p # entry[t][v]
    BY <2>2 DEF Shared
  <2> QED
    BY <1>1, <2>1, <2>2, <2>3 DEF TypeOK
<1>8. CASE UNCHANGED data
  BY <1>8
<1> QED
  BY <1>4, <1>5, <1>6, <1>7, <1>8 DEF QuietNext, Exit, Release, vars

\* Pages that two tasks have never change if no program calls read(): it alone
\* breaks the sharing that memory.c:447-448 describe.
THEOREM SharingIsKept == QuietSpec => SharedPagesKept
<1>1. ASSUME QuietInv, [QuietNext]_vars,
             NEW t \in Slot, NEW u \in Slot, NEW v \in VPage, NEW w \in VPage,
             <<t, v>> # <<u, w>>, entry[t][v] # NULL, entry[t][v] = entry[u][w]
      PROVE  data'[entry[t][v]] = data[entry[t][v]]
  <2>1. entry[t][v] \in 0..HIGH_MEMORY - 1
    BY <1>1 DEF QuietInv, MemInv, TypeOK
  <2>2. Shared(entry[t][v])
    BY <1>1 DEF Shared
  <2> QED
    BY <1>1, <2>1, <2>2, SharedStep
<1>2. QuietInv /\ [QuietNext]_vars =>
      [\A t, u \in Slot : \A v, w \in VPage :
          /\ <<t, v>> # <<u, w>>
          /\ entry[t][v] # NULL
          /\ entry[t][v] = entry[u][w]
          => data'[entry[t][v]] = data[entry[t][v]]]_vars
  BY <1>1
<1> QED
  BY <1>2, QuietAlways, PTL DEF QuietSpec, SharedPagesKept
=============================================================================
