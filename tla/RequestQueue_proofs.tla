------------------------ MODULE RequestQueue_proofs ------------------------
(***************************************************************************)
(* Proofs about the requests of the block device, for any number of tasks, *)
(* blocks and entries.                                                     *)
(***************************************************************************)
EXTENDS RequestQueue, FiniteSetTheorems, TLAPS

-----------------------------------------------------------------------------
(***************************************************************************)
(* Sequences and numbers.                                                  *)
(***************************************************************************)

\* A natural number that is the least of a set, by well-foundedness.
LEMMA LeastOf ==
    ASSUME NEW S \in SUBSET Nat, S # {}
    PROVE  \E m \in S : \A n \in S : m <= n
<1> DEFINE R == OpToRel(<, Nat)
<1>1. \E m \in S : \A n \in S : ~ (<<n, m>> \in R)
  <2>1. IsWellFoundedOn(R, Nat)
    BY NatLessThanWellFounded
  <2> HIDE DEF R
  <2> QED
    BY <2>1, WFMin
<1>2. PICK m \in S : \A n \in S : ~ (<<n, m>> \in R)
  BY <1>1
<1>3. \A n \in S : m <= n
  <2> TAKE n \in S
  <2>1. m \in Nat /\ n \in Nat
    OBVIOUS
  <2>2. ~ (n < m)
    BY <1>2, <2>1 DEF OpToRel
  <2> QED
    BY <2>1, <2>2
<1> QED
  BY <1>3

\* What is left of a sequence without its first k elements.
LEMMA RestProps ==
    ASSUME NEW S, NEW s \in Seq(S), NEW k \in 0..Len(s)
    PROVE  LET u == SubSeq(s, k + 1, Len(s))
           IN  /\ u \in Seq(S) /\ Len(u) = Len(s) - k
               /\ \A i \in 1..Len(u) : u[i] = s[k + i]
  OBVIOUS

LEMMA TailProps ==
    ASSUME NEW S, NEW s \in Seq(S), s # << >>
    PROVE  /\ Tail(s) \in Seq(S) /\ Len(Tail(s)) = Len(s) - 1 /\ Len(s) \in Nat \ {0}
           /\ \A i \in 1..Len(Tail(s)) : Tail(s)[i] = s[i + 1]
  OBVIOUS

LEMMA JoinProps ==
    ASSUME NEW S, NEW a \in Seq(S), NEW b \in Seq(S)
    PROVE  /\ a \o b \in Seq(S) /\ Len(a \o b) = Len(a) + Len(b)
           /\ Len(a) \in Nat /\ Len(b) \in Nat
           /\ \A i \in 1..Len(a) : (a \o b)[i] = a[i]
           /\ \A i \in 1..Len(b) : (a \o b)[Len(a) + i] = b[i]
  OBVIOUS

\* u is the sequence s with e behind its first k elements.
HasBehind(S, s, k, e, u) ==
    /\ u \in Seq(S) /\ Len(u) = Len(s) + 1
    /\ u[k + 1] = e
    /\ \A i \in 1..k : u[i] = s[i]
    /\ \A i \in k + 1..Len(s) : u[i + 1] = s[i]

LEMMA InsertProps ==
    ASSUME NEW S, NEW s \in Seq(S), NEW k \in 1..Len(s), NEW e \in S
    PROVE  HasBehind(S, s, k, e, SubSeq(s, 1, k) \o <<e>> \o SubSeq(s, k + 1, Len(s)))
<1> DEFINE a == SubSeq(s, 1, k)
           b == SubSeq(s, k + 1, Len(s))
           c == a \o <<e>>
<1>0. Len(s) \in Nat
  OBVIOUS
<1>1. a \in Seq(S) /\ Len(a) = k /\ \A i \in 1..k : a[i] = s[i]
  OBVIOUS
<1>2. b \in Seq(S) /\ Len(b) = Len(s) - k /\ \A i \in 1..Len(b) : b[i] = s[k + i]
  OBVIOUS
<1> HIDE DEF a, b
<1>3. c \in Seq(S) /\ Len(c) = k + 1 /\ c[k + 1] = e /\ \A i \in 1..k : c[i] = s[i]
  BY <1>1
<1> HIDE DEF c
<1>4. /\ c \o b \in Seq(S) /\ Len(c \o b) = Len(s) + 1
      /\ \A i \in 1..k + 1 : (c \o b)[i] = c[i]
      /\ \A i \in 1..Len(b) : (c \o b)[k + 1 + i] = b[i]
  <2>1. /\ c \o b \in Seq(S) /\ Len(c \o b) = Len(c) + Len(b)
        /\ \A i \in 1..Len(c) : (c \o b)[i] = c[i]
        /\ \A i \in 1..Len(b) : (c \o b)[Len(c) + i] = b[i]
    <3>1. c \in Seq(S) /\ b \in Seq(S)
      BY <1>2, <1>3
    <3> QED
      BY ONLY <3>1, JoinProps
  <2>2. Len(c) = k + 1 /\ Len(b) = Len(s) - k
    BY <1>2, <1>3
  <2> QED
    BY <1>0, <2>1, <2>2
<1>5. \A i \in k + 1..Len(s) : (c \o b)[i + 1] = s[i]
  <2> TAKE i \in k + 1..Len(s)
  <2>1. i - k \in 1..Len(b) /\ k + 1 + (i - k) = i + 1 /\ k + (i - k) = i
    BY <1>0, <1>2
  <2>2. (c \o b)[k + 1 + (i - k)] = b[i - k] /\ b[i - k] = s[k + (i - k)]
    BY <1>2, <1>4, <2>1
  <2> QED
    BY <2>1, <2>2
<1>6. \A i \in 1..k : (c \o b)[i] = s[i]
  BY <1>3, <1>4
<1>7. (c \o b)[k + 1] = e
  BY <1>3, <1>4
<1> QED
  BY <1>4, <1>5, <1>6, <1>7 DEF a, b, c, HasBehind

\* The refused requests at the head of a queue: they are its first k elements.
PrefixIn(n, P) == {i \in 1..n : \A j \in 1..i : j \in P}

LEMMA Prefix ==
    ASSUME NEW n \in Nat, NEW P
    PROVE  \E k \in 0..n : PrefixIn(n, P) = 1..k /\ Cardinality(PrefixIn(n, P)) = k
<1> DEFINE R == {i \in 1..n : \A j \in 1..i : j \in P}
           Out == {i \in 1..n : i \notin P}
<1>1. \E k \in 0..n : R = 1..k
  <2>1. CASE Out = {}
    <3>1. R = 1..n
      BY <2>1
    <3> QED
      BY <3>1
  <2>2. CASE Out # {}
    <3>0. Out \in SUBSET Nat
      OBVIOUS
    <3> HIDE DEF Out
    <3>1. PICK m \in Out : \A i \in Out : m <= i
      BY <2>2, <3>0, LeastOf
    <3> USE DEF Out
    <3>2. m \in 1..n /\ m \notin P /\ \A j \in 1..m - 1 : j \in P
      BY <3>1
    <3>3. R = 1..m - 1
      BY <3>2
    <3> QED
      BY <3>2, <3>3
  <2> QED
    BY <2>1, <2>2
<1>2. PICK k \in 0..n : R = 1..k
  BY <1>1
<1>3. Cardinality(1..k) = k
  BY ONLY FS_Interval
<1>4. PrefixIn(n, P) = R
  BY DEF PrefixIn
<1> QED
  BY <1>2, <1>3, <1>4

-----------------------------------------------------------------------------
(***************************************************************************)
(* The end of requests: those at the head of the queue go.                 *)
(***************************************************************************)
Kinds == {"READ", "WRITE"}
Request == [cmd : Kinds, buf : Block, errors : 0..MAX_ERRORS - 1, left : {1, 2}]
Calling == [cmd : Kinds, buf : Block]

LEMMA NullNoItem ==
    /\ NULL \notin Entry /\ NULL \notin Request /\ NULL \notin Calling
    /\ Block \subseteq WaitQueues /\ WaitForRequest \in WaitQueues
    /\ Entry \subseteq Nat /\ Block \subseteq Nat
<1>1. Request \subseteq [cmd : {"READ", "WRITE"}, buf : Block, errors : Nat, left : {1, 2}]
  BY RequestAssumption DEF Request, Kinds
<1>2. Entry \subseteq Nat
  BY RequestAssumption DEF Entry
<1> QED
  BY <1>1, <1>2, RequestAssumption DEF Calling, Kinds, WaitQueues

\* The table of requests: no two are for the same block.
TableOK(rq) ==
    /\ rq \in [Entry -> {NULL} \cup Request]
    /\ \A e, f \in Entry : rq[e] # NULL /\ rq[f] # NULL /\ rq[e].buf = rq[f].buf => e = f

\* The queue has each of its entries once.
Matches(q, rq) ==
    /\ q \in Seq(Entry)
    /\ \A i, j \in 1..Len(q) : q[i] = q[j] => i = j
    /\ {q[i] : i \in 1..Len(q)} = {e \in Entry : rq[e] # NULL}

\* The queue turns back at most once.
Turns(q, rq, i) == ~InOrder(rq[q[i]], rq[q[i + 1]])
OneTurn(q, rq) == \A i, j \in 1..Len(q) - 1 : Turns(q, rq, i) /\ Turns(q, rq, j) => i = j

\* The first m elements of q are ended.
EndShape(q, rq, m) ==
    LET ended == {q[i] : i \in 1..m}
        bufs  == {rq[x].buf : x \in ended}
    IN  /\ queue' \in Seq(Entry) /\ Len(queue') = Len(q) - m
        /\ \A i \in 1..Len(queue') : queue'[i] = q[m + i]
        /\ request' = [x \in Entry |-> IF x \in ended THEN NULL ELSE rq[x]]
        /\ lock' = [b \in Block |-> lock[b] /\ b \notin bufs]

LEMMA EndFirst ==
    ASSUME NEW q \in Seq(Entry), NEW rq, NEW e, NEW good,
           e = NULL \/ (q # << >> /\ e = q[1]),
           EndRequests(q, rq, e, good)
    PROVE  \E m \in 0..Len(q) : EndShape(q, rq, m)
<1> DEFINE rest    == IF e = NULL THEN q ELSE Tail(q)
           P       == {j \in 1..Len(rest) : Refused(rq[rest[j]])}
           refused == {i \in 1..Len(rest) : \A j \in 1..i : Refused(rq[rest[j]])}
           R       == PrefixIn(Len(rest), P)
           bad     == {rest[i] : i \in refused}
           ended   == bad \cup ({e} \ {NULL})
           left    == SubSeq(rest, Cardinality(refused) + 1, Len(rest))
           bufs    == {rq[x].buf : x \in ended}
<1>1. /\ request' = [x \in Entry |-> IF x \in ended THEN NULL ELSE rq[x]]
      /\ queue' = left
      /\ lock' = [b \in Block |-> lock[b] /\ b \notin bufs]
  BY DEF EndRequests
<1>2. PICK o \in 0..1 : /\ rest \in Seq(Entry) /\ Len(rest) = Len(q) - o /\ o <= Len(q)
                        /\ \A i \in 1..Len(rest) : rest[i] = q[i + o]
                        /\ {e} \ {NULL} = {q[i] : i \in 1..o}
  <2>1. CASE e = NULL
    <3>1. {e} \ {NULL} = {q[i] : i \in 1..0}
      BY <2>1
    <3> QED
      BY <2>1, <3>1
  <2>2. CASE q # << >> /\ e = q[1] /\ e # NULL
    <3>1. /\ rest \in Seq(Entry) /\ Len(rest) = Len(q) - 1 /\ Len(q) \in Nat \ {0}
          /\ \A i \in 1..Len(rest) : rest[i] = q[i + 1]
      BY <2>2, TailProps
    <3>2. {e} \ {NULL} = {q[i] : i \in 1..1}
      BY <2>2
    <3> QED
      BY <3>1, <3>2
  <2> QED
    BY <2>1, <2>2
<1>9. Len(rest) \in Nat
  <2> HIDE DEF rest
  <2> QED
    BY <1>2
<1> PICK n \in Nat : n = Len(rest)
  BY <1>9
<1>3. refused = R
  BY DEF P, PrefixIn
<1>4. PICK k \in 0..n : R = 1..k /\ Cardinality(R) = k
  <2> HIDE DEF P, rest
  <2>1. \E k \in 0..n : PrefixIn(n, P) = 1..k /\ Cardinality(PrefixIn(n, P)) = k
    BY ONLY n \in Nat, Prefix
  <2> QED
    BY <2>1
<1> HIDE DEF P, R
<1> DEFINE m == o + k
<1>5. m \in 0..Len(q) /\ Len(q) \in Nat
  <2>1. Len(q) \in Nat
    OBVIOUS
  <2> HIDE DEF rest
  <2>2. n = Len(q) - o /\ o <= Len(q)
    BY <1>2
  <2> QED
    BY ONLY <2>1, <2>2, <1>4
<1>6. /\ left \in Seq(Entry) /\ Len(left) = Len(q) - m
      /\ \A i \in 1..Len(left) : left[i] = q[m + i]
  <2>1. left = SubSeq(rest, k + 1, Len(rest)) /\ k \in 0..Len(rest) /\ rest \in Seq(Entry)
    BY <1>2, <1>3, <1>4
  <2> HIDE DEF left, rest
  <2>2. /\ left \in Seq(Entry) /\ Len(left) = Len(rest) - k
        /\ \A i \in 1..Len(left) : left[i] = rest[k + i]
    BY <2>1, RestProps
  <2>3. Len(rest) = n /\ Len(left) = n - k /\ n = Len(q) - o /\ Len(q) \in Nat
    BY <1>2, <2>2
  <2>4. \A i \in 1..n - k : k + i \in 1..n /\ k + i + o = m + i
    OBVIOUS
  <2>5. ASSUME NEW i \in 1..n - k PROVE left[i] = q[m + i]
    <3>1. left[i] = rest[k + i] /\ rest[k + i] = q[k + i + o]
      BY <1>2, <2>2, <2>3, <2>4
    <3> QED
      BY <2>4, <3>1
  <2>6. n - k = Len(q) - m
    BY <2>3
  <2> QED
    BY <2>2, <2>3, <2>5, <2>6
<1>7. ended = {q[i] : i \in 1..m}
  <2> HIDE DEF rest, refused
  <2>1. refused = 1..k /\ k <= Len(rest)
    BY <1>3, <1>4
  <2>2. bad = {q[i] : i \in o + 1..m}
    <3>1. \A i \in 1..k : i + o \in o + 1..m /\ rest[i] = q[i + o]
      BY <1>2, <2>1
    <3>2. \A i \in o + 1..m : i - o \in 1..k /\ rest[i - o] = q[i]
      BY <1>2, <2>1
    <3>3. bad = {rest[i] : i \in 1..k}
      BY <2>1
    <3> HIDE DEF bad, m
    <3>4. \A x \in bad : x \in {q[i] : i \in o + 1..m}
      BY <3>1, <3>3
    <3>5. ASSUME NEW i \in o + 1..m PROVE q[i] \in bad
      BY <3>2, <3>3
    <3> QED
      BY <3>4, <3>5
  <2>3. 1..m = (1..o) \cup (o + 1..m)
    OBVIOUS
  <2>4. {q[i] : i \in 1..m} = {q[i] : i \in 1..o} \cup {q[i] : i \in o + 1..m}
    <3> HIDE DEF m
    <3> QED
      BY ONLY <2>3
  <2> HIDE DEF m, bad
  <2> QED
    BY <1>2, <2>2, <2>4
<1> HIDE DEF ended, left, m
<1>8. EndShape(q, rq, m)
  BY <1>1, <1>6, <1>7 DEF EndShape
<1> QED
  BY <1>5, <1>8

\* What the first m elements leave is a queue and a table as before.
LEMMA EndKeeps ==
    ASSUME NEW q, NEW rq, NEW m \in 0..Len(q), q \in Seq(Entry),
           TableOK(rq), Matches(q, rq), OneTurn(q, rq), EndShape(q, rq, m)
    PROVE  TableOK(request') /\ Matches(queue', request') /\ OneTurn(queue', request')
<1> DEFINE ended == {q[i] : i \in 1..m}
<1>0. /\ Len(q) \in Nat /\ queue' \in Seq(Entry) /\ Len(queue') = Len(q) - m
      /\ \A i \in 1..Len(queue') : queue'[i] = q[m + i]
      /\ request' = [x \in Entry |-> IF x \in ended THEN NULL ELSE rq[x]]
  BY DEF EndShape
<1>1. /\ \A i, j \in 1..Len(q) : q[i] = q[j] => i = j
      /\ {q[i] : i \in 1..Len(q)} = {e \in Entry : rq[e] # NULL}
  BY DEF Matches
<1>9. Len(queue') \in Nat
  <2>1. queue' \in Seq(Entry)
    BY <1>0
  <2> QED
    BY ONLY <2>1
<1> PICK n \in Nat : n = Len(queue')
  BY <1>9
<1>2. \A i \in 1..n : /\ m + i \in 1..Len(q) /\ queue'[i] = q[m + i]
                      /\ q[m + i] \in Entry /\ rq[q[m + i]] # NULL
  <2>1. \A i \in 1..n : m + i \in 1..Len(q) /\ queue'[i] = q[m + i]
    BY <1>0
  <2>2. \A i \in 1..Len(q) : q[i] \in Entry /\ rq[q[i]] # NULL
    BY <1>1
  <2> QED
    BY ONLY <2>1, <2>2
<1>3. \A i \in 1..n : q[m + i] \notin ended /\ request'[q[m + i]] = rq[q[m + i]]
  <2> TAKE i \in 1..n
  <2>1. ASSUME NEW j \in 1..m PROVE q[m + i] # q[j]
    <3>1. m + i \in 1..Len(q)
      BY <1>2
    <3>2. j \in 1..Len(q) /\ j # m + i
      BY <1>0
    <3> QED
      BY ONLY <3>1, <3>2, <1>1
  <2>2. q[m + i] \notin ended
    BY <2>1
  <2>3. q[m + i] \in Entry
    BY <1>2
  <2> HIDE DEF ended
  <2> QED
    BY <2>2, <2>3, <1>0
<1>4. TableOK(request')
  <2>0. /\ rq \in [Entry -> {NULL} \cup Request]
        /\ \A e, f \in Entry : rq[e] # NULL /\ rq[f] # NULL /\ rq[e].buf = rq[f].buf => e = f
    BY DEF TableOK
  <2> HIDE DEF ended
  <2>1. request' \in [Entry -> {NULL} \cup Request]
    BY <1>0, <2>0
  <2>2. \A e \in Entry : request'[e] # NULL => request'[e] = rq[e]
    BY <1>0
  <2> QED
    BY ONLY <2>0, <2>1, <2>2 DEF TableOK
<1>5. Matches(queue', request')
  <2>1. \A i, j \in 1..n : queue'[i] = queue'[j] => i = j
    <3> TAKE i, j \in 1..n
    <3> HAVE queue'[i] = queue'[j]
    <3>1. q[m + i] = q[m + j] /\ m + i \in 1..Len(q) /\ m + j \in 1..Len(q)
      BY <1>2
    <3>2. m + i = m + j
      BY ONLY <1>1, <3>1
    <3> QED
      BY <3>2
  <2>2. \A i \in 1..n : queue'[i] \in {e \in Entry : request'[e] # NULL}
    <3> TAKE i \in 1..n
    <3>1. queue'[i] \in Entry /\ request'[queue'[i]] = rq[q[m + i]] /\ rq[q[m + i]] # NULL
      BY <1>2, <1>3
    <3> QED
      BY ONLY <3>1
  <2>3. ASSUME NEW e \in Entry, request'[e] # NULL
        PROVE  e \in {queue'[i] : i \in 1..n}
    <3>1. e \notin ended /\ rq[e] # NULL
      BY <2>3, <1>0
    <3>2. PICK j \in 1..Len(q) : e = q[j]
      BY <3>1, <1>1
    <3>3. ~(j \in 1..m)
      BY <3>1, <3>2
    <3>4. j - m \in 1..n /\ m + (j - m) = j
      BY <3>3, <1>0
    <3> QED
      BY <3>2, <3>4, <1>2
  <2>4. {queue'[i] : i \in 1..n} = {e \in Entry : request'[e] # NULL}
    BY ONLY <2>2, <2>3
  <2>5. queue' \in Seq(Entry) /\ n = Len(queue')
    BY <1>0
  <2> QED
    BY ONLY <2>1, <2>4, <2>5 DEF Matches
<1>6. OneTurn(queue', request')
  <2>1. \A i, j \in 1..Len(q) - 1 : Turns(q, rq, i) /\ Turns(q, rq, j) => i = j
    BY DEF OneTurn
  <2>2. ASSUME NEW i \in 1..n - 1
        PROVE  m + i \in 1..Len(q) - 1 /\ (Turns(queue', request', i) <=> Turns(q, rq, m + i))
    <3>1. i \in 1..n /\ i + 1 \in 1..n /\ m + (i + 1) = (m + i) + 1 /\ m + i \in 1..Len(q) - 1
      BY <1>0
    <3>2. request'[queue'[i]] = rq[q[m + i]] /\ request'[queue'[i + 1]] = rq[q[(m + i) + 1]]
      BY <3>1, <1>2, <1>3
    <3> QED
      BY ONLY <3>1, <3>2 DEF Turns
  <2>3. ASSUME NEW i \in 1..n - 1, NEW j \in 1..n - 1,
               Turns(queue', request', i), Turns(queue', request', j)
        PROVE  i = j
    <3>1. m + i = m + j
      BY <2>1, <2>2, <2>3
    <3> QED
      BY <3>1
  <2> QED
    BY <2>3 DEF OneTurn
<1> QED
  BY <1>4, <1>5, <1>6

-----------------------------------------------------------------------------
(***************************************************************************)
(* Locks.                                                                  *)
(***************************************************************************)

\* In the table rq the entry e is a request for b; with the places p and the
\* calls c the task t will make one.
Req(rq, e, b) == rq[e] # NULL /\ rq[e].buf = b
Makes(p, c, t, b) == p[t] \in {"search", "full", "doze"} /\ c[t].buf = b

\* A locked buffer has one of them, an unlocked one has none.
LockOK(rq, lk, p, c) ==
    \A b \in Block :
        /\ lk[b] <=> \/ \E e \in Entry : Req(rq, e, b)
                     \/ \E t \in Task : Makes(p, c, t, b)
        /\ \A t, u \in Task : Makes(p, c, t, b) /\ Makes(p, c, u, b) => t = u
        /\ \A t \in Task, e \in Entry : ~(Makes(p, c, t, b) /\ Req(rq, e, b))

LEMMA EndLocks ==
    ASSUME NEW q, NEW rq, NEW m \in 0..Len(q), NEW p, NEW c, q \in Seq(Entry),
           TableOK(rq), Matches(q, rq), EndShape(q, rq, m), LockOK(rq, lock, p, c)
    PROVE  LockOK(request', lock', p, c)
<1> DEFINE ended == {q[i] : i \in 1..m}
           bufs  == {rq[x].buf : x \in ended}
<1>0. /\ request' = [x \in Entry |-> IF x \in ended THEN NULL ELSE rq[x]]
      /\ lock' = [b \in Block |-> lock[b] /\ b \notin bufs]
  BY DEF EndShape
<1>1. ended \subseteq {e \in Entry : rq[e] # NULL}
  <2>1. {q[i] : i \in 1..Len(q)} = {e \in Entry : rq[e] # NULL} /\ Len(q) \in Nat
    BY DEF Matches
  <2>2. 1..m \subseteq 1..Len(q)
    BY <2>1
  <2> QED
    BY ONLY <2>1, <2>2
<1>2. \A e, f \in Entry : rq[e] # NULL /\ rq[f] # NULL /\ rq[e].buf = rq[f].buf => e = f
  BY DEF TableOK
<1> HIDE DEF ended
<1>3. ASSUME NEW b \in Block
      PROVE  /\ lock'[b] <=> \/ \E e \in Entry : Req(request', e, b)
                             \/ \E t \in Task : Makes(p, c, t, b)
             /\ \A e \in Entry : Req(request', e, b) => Req(rq, e, b)
  <2>1. \A e \in Entry : Req(request', e, b) <=> Req(rq, e, b) /\ e \notin ended
    BY <1>0 DEF Req
  <2>2. lock'[b] <=> lock[b] /\ b \notin bufs
    BY <1>0
  <2>3. /\ lock[b] <=> \/ \E e \in Entry : Req(rq, e, b)
                       \/ \E t \in Task : Makes(p, c, t, b)
        /\ \A t \in Task, e \in Entry : ~(Makes(p, c, t, b) /\ Req(rq, e, b))
    BY DEF LockOK
  <2>4. b \in bufs <=> \E e \in ended : Req(rq, e, b)
    BY <1>1 DEF Req
  <2>5. \A e, f \in Entry : Req(rq, e, b) /\ Req(rq, f, b) => e = f
    BY <1>2 DEF Req
  <2> HIDE DEF bufs
  <2>6. CASE b \in bufs
    <3>1. PICK x \in ended : Req(rq, x, b)
      BY <2>4, <2>6
    <3>2. x \in Entry
      BY <1>1
    <3>3. ~ \E e \in Entry : Req(request', e, b)
      BY <2>1, <2>5, <3>1, <3>2
    <3>4. ~ \E t \in Task : Makes(p, c, t, b)
      BY <2>3, <3>1, <3>2
    <3> QED
      BY <2>1, <2>2, <2>6, <3>3, <3>4
  <2>7. CASE b \notin bufs
    <3>1. \A e \in Entry : Req(request', e, b) <=> Req(rq, e, b)
      BY <2>1, <2>4, <2>7
    <3> QED
      BY <2>2, <2>3, <2>7, <3>1
  <2> QED
    BY <2>6, <2>7
<1> QED
  BY <1>3 DEF LockOK

-----------------------------------------------------------------------------
(***************************************************************************)
(* The elevator.  \prec is the order of two requests.                      *)
(***************************************************************************)

LEMMA OrderProps ==
    ASSUME NEW r \in Request, NEW s \in Request
    PROVE  /\ r.buf # s.buf => InOrder(r, s) \/ InOrder(s, r)
           /\ ~(InOrder(r, s) /\ InOrder(s, r))
           /\ \A u \in Request : InOrder(r, s) /\ InOrder(s, u) => InOrder(r, u)
<1>1. r.buf \in Nat /\ s.buf \in Nat /\ r.cmd \in Kinds /\ s.cmd \in Kinds
  BY NullNoItem DEF Request
<1>2. \A u \in Request : u.buf \in Nat /\ u.cmd \in Kinds
  BY NullNoItem DEF Request
<1> HIDE DEF Request
<1> QED
  BY <1>1, <1>2 DEF InOrder, Kinds

\* A request r goes where the sweep goes on: the queue does not turn more
\* often than before.
LEMMA InsertKeeps ==
    ASSUME NEW q \in Seq(Entry), NEW e \in Entry, NEW r \in Request, q # << >>,
           TableOK(request), Matches(q, request), OneTurn(q, request),
           request[e] = NULL,
           \A x \in Entry : request[x] # NULL => request[x].buf # r.buf
    PROVE  LET u == Inserted(q, e, r)
               w == [request EXCEPT ![e] = r]
           IN  TableOK(w) /\ Matches(u, w) /\ OneTurn(u, w)
<1> DEFINE u == Inserted(q, e, r)
           w == [request EXCEPT ![e] = r]
           k == Behind(q, r)
           F == Fits(q, r)
           G(i) == request[q[i]]
<1> PICK n \in Nat \ {0} : n = Len(q)
  OBVIOUS
<1>0. /\ request \in [Entry -> {NULL} \cup Request]
      /\ \A x, y \in Entry : request[x] # NULL /\ request[y] # NULL
                             /\ request[x].buf = request[y].buf => x = y
      /\ r # NULL
  BY NullNoItem DEF TableOK
<1>1. /\ w \in [Entry -> {NULL} \cup Request] /\ w[e] = r
      /\ \A x \in Entry : x # e => w[x] = request[x]
  BY <1>0
<1> HIDE DEF w
<1>2. TableOK(w)
  BY ONLY <1>0, <1>1, request[e] = NULL,
     \A x \in Entry : request[x] # NULL => request[x].buf # r.buf DEF TableOK
<1>3. /\ \A i, j \in 1..n : q[i] = q[j] => i = j
      /\ {q[i] : i \in 1..n} = {x \in Entry : request[x] # NULL}
  BY DEF Matches
<1>4. \A i \in 1..n : q[i] \in Entry /\ request[q[i]] # NULL /\ q[i] # e
                      /\ G(i) \in Request /\ w[q[i]] = G(i)
  <2>1. \A i \in 1..n : q[i] \in Entry /\ request[q[i]] # NULL
    BY <1>3
  <2> QED
    BY <2>1, <1>0, <1>1
<1>5. /\ F \subseteq 1..n - 1
      /\ \A i \in 1..n - 1 : i \in F <=> /\ InOrder(G(i), r) \/ ~InOrder(G(i), G(i + 1))
                                         /\ InOrder(r, G(i + 1))
  BY DEF Fits
<1> HIDE DEF F
<1>6. \/ F = {} /\ k = n
      \/ k \in F
  <2>1. CASE F = {}
    BY <2>1 DEF Behind, F
  <2>2. CASE F # {}
    <3>1. F \in SUBSET Nat
      BY <1>5
    <3>2. \E i \in F : \A j \in F : i <= j
      BY <2>2, <3>1, LeastOf
    <3>3. k = CHOOSE i \in F : \A j \in F : i <= j
      BY <2>2 DEF Behind, F
    <3> HIDE DEF k
    <3> QED
      BY <3>2, <3>3
  <2> QED
    BY <2>1, <2>2
<1>7. k \in 1..n
  <2> HIDE DEF k
  <2>1. F \subseteq 1..n - 1 /\ n \in 1..n
    BY <1>5
  <2>2. \A i \in 1..n - 1 : i \in 1..n
    OBVIOUS
  <2> QED
    BY ONLY <1>6, <2>1, <2>2
<1>8. /\ u \in Seq(Entry) /\ Len(u) = n + 1 /\ u[k + 1] = e
      /\ \A i \in 1..k : u[i] = q[i]
      /\ \A i \in k + 1..n : u[i + 1] = q[i]
  <2> HIDE DEF k
  <2>1. u = SubSeq(q, 1, k) \o <<e>> \o SubSeq(q, k + 1, Len(q))
    BY DEF Inserted, k
  <2> HIDE DEF u
  <2>2. k \in 1..Len(q) /\ q \in Seq(Entry) /\ e \in Entry
    BY <1>7
  <2>3. HasBehind(Entry, q, k, e, u)
    <3>1. k \in 1..Len(q)
      BY <2>2
    <3> QED
      BY <2>1, <3>1, InsertProps, Zenon
  <2> QED
    BY ONLY <2>3, n = Len(q) DEF HasBehind
<1> HIDE DEF k, u
<1>9. Matches(u, w)
  <2>1. \A i \in 1..n + 1 : i # k + 1 =>
            \E j \in 1..n : u[i] = q[j] /\ j = IF i <= k THEN i ELSE i - 1
    <3> TAKE i \in 1..n + 1
    <3> HAVE i # k + 1
    <3>1. CASE i <= k
      <4>1. i \in 1..k /\ i \in 1..n
        BY <3>1, <1>7
      <4> QED
        BY <4>1, <3>1, <1>8
    <3>2. CASE ~(i <= k)
      <4>1. i - 1 \in k + 1..n /\ (i - 1) + 1 = i /\ i - 1 \in 1..n
        BY <3>2, <1>7
      <4>2. u[(i - 1) + 1] = q[i - 1]
        BY <4>1, <1>8
      <4> QED
        BY <4>1, <4>2, <3>2
    <3> QED
      BY <3>1, <3>2
  <2>2. ASSUME NEW i \in 1..n + 1, NEW j \in 1..n + 1, u[i] = u[j] PROVE i = j
    <3>1. CASE i = k + 1 \/ j = k + 1
      BY <3>1, <2>1, <2>2, <1>4, <1>8
    <3>2. CASE i # k + 1 /\ j # k + 1
      <4>1. PICK a \in 1..n : u[i] = q[a] /\ a = IF i <= k THEN i ELSE i - 1
        BY <2>1, <3>2
      <4>2. PICK b \in 1..n : u[j] = q[b] /\ b = IF j <= k THEN j ELSE j - 1
        BY <2>1, <3>2
      <4>3. a = b
        BY <2>2, <4>1, <4>2, <1>3
      <4> QED
        BY <4>1, <4>2, <4>3, <3>2, <1>7
    <3> QED
      BY <3>1, <3>2
  <2>3. \A i \in 1..n + 1 : u[i] \in {x \in Entry : w[x] # NULL}
    <3> TAKE i \in 1..n + 1
    <3>1. CASE i = k + 1
      BY <3>1, <1>0, <1>1, <1>8
    <3>2. CASE i # k + 1
      <4>1. PICK a \in 1..n : u[i] = q[a]
        BY <2>1, <3>2
      <4> QED
        BY <4>1, <1>1, <1>4
    <3> QED
      BY <3>1, <3>2
  <2>4. ASSUME NEW x \in Entry, w[x] # NULL PROVE x \in {u[i] : i \in 1..n + 1}
    <3>1. CASE x = e
      <4>1. k + 1 \in 1..n + 1
        BY <1>7
      <4> QED
        BY <3>1, <4>1, <1>8
    <3>2. CASE x # e
      <4>1. PICK j \in 1..n : x = q[j]
        BY <3>2, <2>4, <1>1, <1>3
      <4>2. CASE j <= k
        <5>1. j \in 1..k /\ j \in 1..n + 1
          BY <4>2, <1>7
        <5> QED
          BY <4>1, <5>1, <1>8
      <4>3. CASE ~(j <= k)
        <5>1. j \in k + 1..n /\ j + 1 \in 1..n + 1
          BY <4>3, <1>7
        <5> QED
          BY <4>1, <5>1, <1>8
      <4> QED
        BY <4>2, <4>3
    <3> QED
      BY <3>1, <3>2
  <2> QED
    BY <1>8, <2>2, <2>3, <2>4 DEF Matches
<1>10. \A i \in 1..k : w[u[i]] = G(i)
  BY <1>4, <1>7, <1>8
<1>11. \A i \in k + 1..n : w[u[i + 1]] = G(i)
  BY <1>4, <1>7, <1>8
<1>12. w[u[k + 1]] = r
  BY <1>1, <1>8
<1>13. \A i \in 1..n : G(i) \in Request /\ G(i).buf # r.buf
  BY <1>4
<1> HIDE DEF G
<1> DEFINE TQ(i) == ~InOrder(G(i), G(i + 1))
           TU(i) == ~InOrder(w[u[i]], w[u[i + 1]])
<1>14. \A i, j \in 1..n - 1 : TQ(i) /\ TQ(j) => i = j
  BY DEF OneTurn, Turns, G
<1>15. /\ \A i \in 1..k - 1 : TU(i) <=> TQ(i)
       /\ \A i \in k + 2..n : TU(i) <=> TQ(i - 1)
  <2>1. \A i \in 1..k - 1 : i \in 1..k /\ i + 1 \in 1..k
    BY <1>7
  <2>2. \A i \in k + 2..n : /\ i - 1 \in k + 1..n /\ i \in k + 1..n /\ (i - 1) + 1 = i
    BY <1>7
  <2>3. \A i \in 1..k - 1 : TU(i) <=> TQ(i)
    BY <2>1, <1>10
  <2>4. ASSUME NEW i \in k + 2..n PROVE TU(i) <=> TQ(i - 1)
    <3>1. w[u[(i - 1) + 1]] = G(i - 1) /\ w[u[i + 1]] = G(i) /\ (i - 1) + 1 = i
      BY <2>2, <1>11
    <3> QED
      BY ONLY <3>1
  <2> QED
    BY <2>3, <2>4
<1>16. TU(k) <=> ~InOrder(G(k), r)
  <2>1. k \in 1..k
    BY <1>7
  <2> QED
    BY <2>1, <1>10, <1>12
<1>17. \A i, j \in 1..n : TU(i) /\ TU(j) => i = j
  <2>1. CASE k \in F
    <3>1. k \in 1..n - 1 /\ InOrder(r, G(k + 1)) /\ (InOrder(G(k), r) \/ TQ(k))
      BY <2>1, <1>5
    <3>2. ~TU(k + 1)
      <4>1. k + 1 \in k + 1..n
        BY <3>1
      <4>2. w[u[(k + 1) + 1]] = G(k + 1)
        BY <4>1, <1>11
      <4> QED
        BY <3>1, <4>2, <1>12
    <3>3. TU(k) => TQ(k)
      BY <3>1, <1>16
    <3> HIDE DEF TU, TQ
    <3>4. \A i \in 1..n : TU(i) => \E a \in 1..n - 1 : TQ(a) /\ a = IF i <= k THEN i ELSE i - 1
      <4> TAKE i \in 1..n
      <4> HAVE TU(i)
      <4>1. CASE i < k
        <5>1. i \in 1..k - 1 /\ i \in 1..n - 1 /\ i <= k
          BY <4>1, <1>7
        <5> QED
          BY <5>1, <1>15
      <4>2. CASE i = k
        BY <4>2, <3>1, <3>3
      <4>3. CASE i = k + 1
        BY <4>3, <3>2
      <4>4. CASE i > k + 1
        <5>1. i \in k + 2..n /\ i - 1 \in 1..n - 1 /\ ~(i <= k)
          BY <4>4, <1>7
        <5> QED
          BY <5>1, <1>15
      <4> QED
        BY <4>1, <4>2, <4>3, <4>4, <1>7
    <3>5. ASSUME NEW i \in 1..n, NEW j \in 1..n, TU(i), TU(j) PROVE i = j
      <4>1. PICK a \in 1..n - 1 : TQ(a) /\ a = IF i <= k THEN i ELSE i - 1
        BY <3>4, <3>5
      <4>2. PICK b \in 1..n - 1 : TQ(b) /\ b = IF j <= k THEN j ELSE j - 1
        BY <3>4, <3>5
      <4>3. a = b
        BY <4>1, <4>2, <1>14
      <4>4. i # k + 1 /\ j # k + 1
        BY <3>2, <3>5
      <4> QED
        BY <4>1, <4>2, <4>3, <4>4, <1>7
    <3> QED
      BY <3>5
  <2>2. CASE F = {} /\ k = n
    <3>1. \A i \in 1..n - 1 : TU(i) <=> TQ(i)
      BY <2>2, <1>15
    <3>2. TU(n) => \A i \in 1..n - 1 : ~TQ(i)
      <4> SUFFICES ASSUME TU(n), NEW j \in 1..n - 1, TQ(j) PROVE FALSE
        OBVIOUS
      <4>1. ~InOrder(G(n), r)
        BY <2>2, <1>16
      <4>2. n \in 1..n /\ j \in 1..n /\ j + 1 \in 1..n
        OBVIOUS
      <4>3. InOrder(r, G(n))
        BY <4>1, <4>2, <1>13, OrderProps
      <4>4. ~InOrder(r, G(j + 1))
        BY <2>2, <1>5
      <4> DEFINE S == {i \in j + 1..n : InOrder(r, G(i))}
      <4>5. PICK m \in S : \A i \in S : m <= i
        <5>1. S \in SUBSET Nat /\ n \in S
          BY <4>3
        <5> HIDE DEF S
        <5> QED
          BY <5>1, LeastOf
      <4>6. /\ m \in j + 2..n /\ InOrder(r, G(m)) /\ m - 1 \in 1..n - 1 /\ (m - 1) + 1 = m
            /\ m - 1 \in j + 1..n /\ m - 1 # j /\ m - 1 \in 1..n
        BY <4>4, <4>5
      <4>7. ~InOrder(r, G(m - 1))
        <5>1. m - 1 \notin S
          BY <4>5, <4>6
        <5> QED
          BY <5>1, <4>6
      <4>8. InOrder(G(m - 1), r)
        BY <4>6, <4>7, <1>13, OrderProps
      <4>9. m - 1 \in F
        <5>1. InOrder(r, G((m - 1) + 1))
          BY <4>6
        <5> QED
          BY <5>1, <4>6, <4>8, <1>5
      <4> QED
        BY <4>9, <2>2
    <3> HIDE DEF TU, TQ
    <3>3. ASSUME NEW i \in 1..n, NEW j \in 1..n, TU(i), TU(j) PROVE i = j
      <4>1. (i = n \/ i \in 1..n - 1) /\ (j = n \/ j \in 1..n - 1)
        OBVIOUS
      <4> QED
        BY <3>1, <3>2, <3>3, <4>1, <1>14
    <3> QED
      BY <3>3
  <2> QED
    BY <1>6, <2>1, <2>2
<1>18. OneTurn(u, w)
  <2>1. Len(u) - 1 = n
    BY <1>8
  <2> HIDE DEF TQ
  <2> QED
    BY <1>17, <2>1 DEF OneTurn, Turns
<1> QED
  BY <1>2, <1>9, <1>18 DEF u, w

-----------------------------------------------------------------------------
(***************************************************************************)
(* The inductive invariant.  Beside what is claimed it says that a task    *)
(* has a call just while it is not idle (so that it is known which buffer  *)
(* a task in make_request() has locked), and that an interrupt of the disk *)
(* finds a request.                                                        *)
(***************************************************************************)
Heads == [WaitQueues -> Task \cup {NULL}]
States == [Task -> {"RUNNING", "UNINTERRUPTIBLE"}]

\* The types of all but the table and the queue.
OtherTypes ==
    /\ do_hd \in BOOLEAN
    /\ lock \in [Block -> BOOLEAN] /\ dirt \in [Block -> BOOLEAN]
    /\ uptodate \in [Block -> BOOLEAN]
    /\ wait \in Heads /\ state \in States
    /\ tmp \in [Task -> Task \cup {NULL}] /\ pc \in [Task -> Places]
    /\ call \in [Task -> {NULL} \cup Calling] /\ cpu \in Task \cup {NULL}

CallOK(p, c) == \A t \in Task : p[t] = "idle" <=> c[t] = NULL

\* The queue q with the table rq.
QueueOK(q, rq) == TableOK(rq) /\ Matches(q, rq) /\ OneTurn(q, rq)

ReqInv ==
    /\ OtherTypes
    /\ QueueOK(queue, request)
    /\ LockOK(request, lock, pc, call)
    /\ CallOK(pc, call)
    /\ do_hd => queue # << >>

LEMMA InvTypes == ReqInv => TypeOK
  BY DEF ReqInv, OtherTypes, QueueOK, TableOK, Matches, TypeOK, Heads, States,
         Request, Calling, Kinds

LEMMA InvInit == Init => ReqInv
<1> SUFFICES ASSUME Init PROVE ReqInv
  OBVIOUS
<1>1. OtherTypes
  BY DEF Init, OtherTypes, Heads, States, Places
<1>2. QueueOK(queue, request)
  <2>1. queue = << >> /\ \A e \in Entry : request[e] = NULL
    BY DEF Init
  <2>2. queue \in Seq(Entry) /\ Len(queue) = 0 /\ 1..Len(queue) = {}
    BY <2>1
  <2>3. Matches(queue, request)
    BY <2>1, <2>2 DEF Matches
  <2>4. TableOK(request)
    BY DEF Init, TableOK
  <2>5. OneTurn(queue, request)
    <3>1. 1..Len(queue) - 1 = {}
      BY <2>2
    <3> QED
      BY <3>1 DEF OneTurn
  <2> QED
    BY <2>3, <2>4, <2>5 DEF QueueOK
<1>3. LockOK(request, lock, pc, call)
  BY DEF Init, LockOK, Req, Makes
<1>4. CallOK(pc, call)
  BY DEF Init, CallOK
<1> QED
  BY <1>1, <1>2, <1>3, <1>4 DEF ReqInv, Init

-----------------------------------------------------------------------------
(***************************************************************************)
(* Sleeping and waking keep the types.                                     *)
(***************************************************************************)
LEMMA WakeTypes ==
    ASSUME NEW S, NEW w \in Heads, NEW st \in States, WakeUp(S, w, st)
    PROVE  wait' \in Heads /\ state' \in States
  BY DEF WakeUp, Heads, States

LEMMA PutBackTypes ==
    ASSUME OtherTypes, NEW t \in Task, NEW q \in WaitQueues
    PROVE  HeadsPutBack(t, q) \in Heads /\ NextWoken(t) \in States
  BY DEF OtherTypes, HeadsPutBack, NextWoken, Heads, States

\* What a task does to the tasks: a new place, call and tmp of its own.
TaskMoves(t, place, c) ==
    /\ pc' = [pc EXCEPT ![t] = place] /\ call' = [call EXCEPT ![t] = c]
    /\ tmp' \in [Task -> Task \cup {NULL}] /\ cpu' \in Task \cup {NULL}
    /\ wait' \in Heads /\ state' \in States

LEMMA SleepMoves ==
    ASSUME OtherTypes, NEW t \in Task, NEW q \in WaitQueues, NEW place,
           NEW w \in Heads, NEW st \in States, NEW c, call' = [call EXCEPT ![t] = c],
           SleepOn(t, q, place, w, st)
    PROVE  TaskMoves(t, place, c)
  BY DEF OtherTypes, SleepOn, TaskMoves, Heads, States

LEMMA ForgetTypes ==
    ASSUME OtherTypes, NEW t \in Task, Forget(t)
    PROVE  tmp' \in [Task -> Task \cup {NULL}]
  BY DEF OtherTypes, Forget

\* A task that returns waits for its buffer or is idle.
LEMMA ReturnMoves ==
    ASSUME NEW t \in Task, NEW c \in Calling, Return(t, c)
    PROVE  /\ cpu' \in Task \cup {NULL}
           /\ \E place \in {"idle", "wait_on_buffer"}, d \in {c, NULL} :
                 /\ pc' = [pc EXCEPT ![t] = place] /\ call' = [call EXCEPT ![t] = d]
                 /\ (place = "idle" <=> d = NULL)
<1>1. c # NULL
  BY NullNoItem
<1>2. CASE c.cmd = "READ"
  BY <1>1, <1>2 DEF Return
<1>3. CASE c.cmd # "READ"
  BY <1>3 DEF Return, Leave
<1> QED
  BY <1>2, <1>3

\* The calls and the types after a move.
LEMMA MoveTypes ==
    ASSUME OtherTypes, CallOK(pc, call), NEW t \in Task, NEW place \in Places,
           NEW c \in {NULL} \cup Calling, place = "idle" <=> c = NULL,
           TaskMoves(t, place, c),
           do_hd' \in BOOLEAN, lock' \in [Block -> BOOLEAN],
           dirt' \in [Block -> BOOLEAN], uptodate' \in [Block -> BOOLEAN]
    PROVE  OtherTypes' /\ CallOK(pc', call')
<1>1. pc' = [pc EXCEPT ![t] = place] /\ call' = [call EXCEPT ![t] = c]
  BY DEF TaskMoves
<1>2. pc \in [Task -> Places] /\ call \in [Task -> {NULL} \cup Calling]
  BY DEF OtherTypes
<1>3. pc' \in [Task -> Places] /\ call' \in [Task -> {NULL} \cup Calling]
  BY <1>1, <1>2
<1>4. CallOK(pc', call')
  BY <1>1, <1>2 DEF CallOK
<1> QED
  BY <1>3, <1>4 DEF OtherTypes, TaskMoves

\* A move of a task that holds no lock before and after it.
LEMMA MoveLocks ==
    ASSUME OtherTypes, NEW rq, NEW lk, NEW t \in Task, NEW place, NEW c,
           LockOK(rq, lk, pc, call), TaskMoves(t, place, c),
           \A b \in Block : Makes(pc, call, t, b) <=>
                            place \in {"search", "full", "doze"} /\ c.buf = b
    PROVE  LockOK(rq, lk, pc', call')
<1>1. \A u \in Task, b \in Block : Makes(pc', call', u, b) <=> Makes(pc, call, u, b)
  BY DEF Makes, TaskMoves, OtherTypes
<1> QED
  BY <1>1 DEF LockOK

-----------------------------------------------------------------------------
(***************************************************************************)
(* The steps of the tasks.                                                 *)
(***************************************************************************)

\* lock_buffer(), for a task that holds no lock.
LEMMA LockStep ==
    ASSUME ReqInv, NEW t \in Task, NEW c \in Calling, NEW w \in Heads, NEW st \in States,
           pc[t] \in {"idle", "lock_buffer"}, LockBuffer(t, c, w, st),
           UNCHANGED <<request, queue, do_hd, dirt, uptodate>>
    PROVE  ReqInv'
<1> DEFINE b == c.buf
<1>0. /\ OtherTypes /\ QueueOK(queue, request) /\ CallOK(pc, call)
      /\ LockOK(request, lock, pc, call) /\ (do_hd => queue # << >>)
  BY DEF ReqInv
<1>1. b \in Block /\ b \in WaitQueues /\ c # NULL
  BY NullNoItem DEF Calling
<1>2. QueueOK(queue', request') /\ (do_hd' => queue' # << >>)
  BY <1>0
<1>3. \A d \in Block : ~Makes(pc, call, t, d)
  BY DEF Makes
<1>4. ASSUME UNCHANGED lock, NEW place \in Places, NEW d \in {NULL} \cup Calling,
             place = "idle" <=> d = NULL, place \notin {"search", "full", "doze"},
             TaskMoves(t, place, d)
      PROVE  ReqInv'
  <2>1. OtherTypes' /\ CallOK(pc', call')
    <3>1. /\ do_hd' \in BOOLEAN /\ lock' \in [Block -> BOOLEAN]
          /\ dirt' \in [Block -> BOOLEAN] /\ uptodate' \in [Block -> BOOLEAN]
      BY <1>0, <1>4 DEF OtherTypes
    <3> QED
      BY <1>0, <1>4, <3>1, MoveTypes
  <2>2. LockOK(request', lock', pc', call')
    <3>1. LockOK(request, lock, pc', call')
      BY <1>0, <1>3, <1>4, MoveLocks
    <3> QED
      BY <1>4, <3>1
  <2> QED
    BY <1>2, <2>1, <2>2 DEF ReqInv
<1>5. CASE lock[b] /\ SleepOn(t, b, "lock_buffer", w, st)
           /\ call' = [call EXCEPT ![t] = c] /\ UNCHANGED lock
  <2>1. TaskMoves(t, "lock_buffer", c)
    BY <1>0, <1>1, <1>5, SleepMoves
  <2> QED
    BY <1>1, <1>4, <1>5, <2>1 DEF Places
<1>6. CASE WakeUp({b}, w, st) /\ Return(t, c) /\ Forget(t) /\ UNCHANGED lock
  <2>1. wait' \in Heads /\ state' \in States
    BY <1>6, WakeTypes
  <2>2. tmp' \in [Task -> Task \cup {NULL}]
    BY <1>0, <1>6, ForgetTypes
  <2>3. cpu' \in Task \cup {NULL}
    BY <1>6, ReturnMoves
  <2>4. PICK place \in {"idle", "wait_on_buffer"}, d \in {c, NULL} :
                 /\ pc' = [pc EXCEPT ![t] = place] /\ call' = [call EXCEPT ![t] = d]
                 /\ (place = "idle" <=> d = NULL)
    BY <1>6, ReturnMoves
  <2>5. TaskMoves(t, place, d)
    BY <2>1, <2>2, <2>3, <2>4 DEF TaskMoves
  <2> QED
    BY <1>4, <1>6, <2>4, <2>5 DEF Places
<1>7. CASE /\ ~lock[b] /\ lock' = [lock EXCEPT ![b] = TRUE]
           /\ pc' = [pc EXCEPT ![t] = "search"] /\ call' = [call EXCEPT ![t] = c]
           /\ cpu' = t /\ wait' = w /\ state' = st /\ Forget(t)
  <2>1. TaskMoves(t, "search", c)
    BY <1>0, <1>7, ForgetTypes DEF TaskMoves
  <2>2. OtherTypes' /\ CallOK(pc', call')
    <3>1. /\ do_hd' \in BOOLEAN /\ lock' \in [Block -> BOOLEAN]
          /\ dirt' \in [Block -> BOOLEAN] /\ uptodate' \in [Block -> BOOLEAN]
      BY <1>0, <1>7 DEF OtherTypes
    <3> QED
      BY <1>0, <1>1, <2>1, <3>1, MoveTypes DEF Places
  <2>3. LockOK(request', lock', pc', call')
    <3>1. \A u \in Task, d \in Block :
              Makes(pc', call', u, d) <=> (u = t /\ d = b) \/ Makes(pc, call, u, d)
      <4>1. pc \in [Task -> Places] /\ call \in [Task -> {NULL} \cup Calling]
        BY <1>0 DEF OtherTypes
      <4>2. \A u \in Task : u # t => pc'[u] = pc[u] /\ call'[u] = call[u]
        BY <4>1, <1>7
      <4>3. pc'[t] = "search" /\ call'[t] = c
        BY <4>1, <1>7
      <4> QED
        BY <4>2, <4>3, <1>3 DEF Makes
    <3>2. \A d \in Block : lock'[d] <=> d = b \/ lock[d]
      BY <1>0, <1>7 DEF OtherTypes
    <3>3. /\ ~ \E e \in Entry : Req(request, e, b)
          /\ ~ \E u \in Task : Makes(pc, call, u, b)
      BY <1>0, <1>1, <1>7 DEF LockOK
    <3>4. request' = request
      OBVIOUS
    <3> QED
      BY <1>0, <1>1, <3>1, <3>2, <3>3, <3>4 DEF LockOK
  <2> QED
    BY <1>2, <2>2, <2>3 DEF ReqInv
<1> QED
  BY <1>5, <1>6, <1>7 DEF LockBuffer

LEMMA EnterStep ==
    ASSUME ReqInv, NEW t \in Task, NEW c \in Calling, Enter(t, c)
    PROVE  ReqInv'
<1>1. wait \in Heads /\ state \in States
  BY DEF ReqInv, OtherTypes
<1> QED
  BY <1>1, LockStep DEF Enter, Dispatched

\* A task that is not idle has a call for a buffer.
LEMMA HasCall ==
    ASSUME ReqInv, NEW t \in Task, pc[t] # "idle"
    PROVE  /\ call[t] \in Calling /\ call[t] # NULL
           /\ call[t].buf \in Block /\ call[t].buf \in WaitQueues
<1>1. call[t] \in Calling /\ call[t] # NULL
  BY DEF ReqInv, OtherTypes, CallOK
<1> QED
  BY <1>1, NullNoItem DEF Calling

LEMMA RelockStep ==
    ASSUME ReqInv, NEW t \in Task, Relock(t)
    PROVE  ReqInv'
<1>1. pc[t] = "lock_buffer"
  BY DEF Relock, Dispatched
<1>2. call[t] \in Calling /\ call[t].buf \in WaitQueues
  BY <1>1, HasCall
<1>3. HeadsPutBack(t, call[t].buf) \in Heads /\ NextWoken(t) \in States
  BY <1>2, PutBackTypes DEF ReqInv
<1> QED
  BY <1>1, <1>2, <1>3, LockStep DEF Relock

\* The other steps of a task that leave the locks as they are.
LEMMA CalmStep ==
    ASSUME ReqInv, NEW t \in Task, NEW place \in Places, NEW c \in {NULL} \cup Calling,
           place = "idle" <=> c = NULL, TaskMoves(t, place, c),
           \A b \in Block : Makes(pc, call, t, b) <=>
                            place \in {"search", "full", "doze"} /\ c.buf = b,
           UNCHANGED <<request, queue, do_hd, buffers>>
    PROVE  ReqInv'
<1>0. /\ OtherTypes /\ QueueOK(queue, request) /\ CallOK(pc, call)
      /\ LockOK(request, lock, pc, call) /\ (do_hd => queue # << >>)
  BY DEF ReqInv
<1>1. request' = request /\ queue' = queue /\ do_hd' = do_hd /\ lock' = lock
      /\ dirt' = dirt /\ uptodate' = uptodate
  BY DEF buffers
<1>2. OtherTypes' /\ CallOK(pc', call')
  <2>1. /\ do_hd' \in BOOLEAN /\ lock' \in [Block -> BOOLEAN]
        /\ dirt' \in [Block -> BOOLEAN] /\ uptodate' \in [Block -> BOOLEAN]
    BY <1>0, <1>1 DEF OtherTypes
  <2> QED
    BY <1>0, <2>1, MoveTypes
<1>3. LockOK(request, lock, pc', call')
  BY <1>0, MoveLocks
<1> QED
  BY <1>0, <1>1, <1>2, <1>3 DEF ReqInv

\* A task that stays at its place with its call.
LEMMA SameCall ==
    ASSUME ReqInv, NEW t \in Task, pc[t] \in {"search", "full", "doze"},
           NEW place \in {"search", "full", "doze"},
           pc' = [pc EXCEPT ![t] = place], call' = call,
           tmp' \in [Task -> Task \cup {NULL}], cpu' \in Task \cup {NULL},
           wait' \in Heads, state' \in States,
           UNCHANGED <<request, queue, do_hd, buffers>>
    PROVE  ReqInv'
<1>1. call[t] \in Calling /\ call[t] # NULL
  BY HasCall
<1>2. call' = [call EXCEPT ![t] = call[t]]
  BY DEF ReqInv, OtherTypes
<1>3. TaskMoves(t, place, call[t])
  BY <1>2 DEF TaskMoves
<1>4. \A b \in Block : Makes(pc, call, t, b) <=>
                       place \in {"search", "full", "doze"} /\ call[t].buf = b
  BY DEF Makes
<1>5. place \in Places /\ place # "idle"
  BY DEF Places
<1> QED
  BY <1>1, <1>3, <1>4, <1>5, CalmStep

LEMMA QueueStep ==
    ASSUME ReqInv, NEW t \in Task, Queue(t)
    PROVE  ReqInv'
<1>0. OtherTypes
  BY DEF ReqInv
<1>1. WaitForRequest \in WaitQueues
  BY NullNoItem
<1>2. /\ tmp' \in [Task -> Task \cup {NULL}] /\ cpu' \in Task \cup {NULL}
      /\ wait' \in Heads /\ state' \in States
  BY <1>0, <1>1 DEF Queue, OtherTypes, Heads, States
<1> QED
  BY <1>2, SameCall DEF Queue

LEMMA DozeStep ==
    ASSUME ReqInv, NEW t \in Task, Doze(t)
    PROVE  ReqInv'
<1>0. OtherTypes
  BY DEF ReqInv
<1>2. /\ tmp' \in [Task -> Task \cup {NULL}] /\ cpu' \in Task \cup {NULL}
      /\ wait' \in Heads /\ state' \in States
  BY <1>0 DEF Doze, OtherTypes, Heads, States
<1> QED
  BY <1>2, SameCall DEF Doze

LEMMA RepeatStep ==
    ASSUME ReqInv, NEW t \in Task, Repeat(t)
    PROVE  ReqInv'
<1>0. OtherTypes
  BY DEF ReqInv
<1>1. WaitForRequest \in WaitQueues
  BY NullNoItem
<1>2. /\ tmp' \in [Task -> Task \cup {NULL}] /\ cpu' \in Task \cup {NULL}
      /\ wait' \in Heads /\ state' \in States
  BY <1>0, <1>1, ForgetTypes, PutBackTypes DEF Repeat
<1>3. pc[t] = "search" /\ pc' = [pc EXCEPT ![t] = "search"]
  BY <1>0 DEF Repeat, Dispatched, OtherTypes
<1> QED
  BY <1>2, <1>3, SameCall DEF Repeat

\* wait_on_buffer().
LEMMA WaitStep ==
    ASSUME ReqInv, NEW t \in Task, NEW w \in Heads, NEW st \in States,
           pc[t] = "wait_on_buffer", WaitOnBuffer(t, w, st)
    PROVE  ReqInv'
<1>0. OtherTypes
  BY DEF ReqInv
<1>1. call[t] \in Calling /\ call[t] # NULL /\ call[t].buf \in WaitQueues
  BY HasCall
<1>2. \A b \in Block : ~Makes(pc, call, t, b)
  BY DEF Makes
<1>3. UNCHANGED <<request, queue, do_hd, buffers>>
  BY DEF WaitOnBuffer
<1>4. CASE SleepOn(t, call[t].buf, "wait_on_buffer", w, st) /\ UNCHANGED call
  <2>1. call' = [call EXCEPT ![t] = call[t]]
    BY <1>0, <1>4 DEF OtherTypes
  <2>2. TaskMoves(t, "wait_on_buffer", call[t])
    BY <1>0, <1>1, <1>4, <2>1, SleepMoves
  <2> QED
    BY <1>1, <1>2, <1>3, <2>2, CalmStep DEF Places
<1>5. CASE wait' = w /\ state' = st /\ Leave(t) /\ Forget(t)
  <2>1. TaskMoves(t, "idle", NULL)
    BY <1>0, <1>5, ForgetTypes DEF Leave, TaskMoves
  <2> QED
    BY <1>2, <1>3, <2>1, CalmStep DEF Places
<1> QED
  BY <1>4, <1>5 DEF WaitOnBuffer

LEMMA WaitSteps ==
    ASSUME ReqInv, NEW t \in Task, Wait(t) \/ WaitAgain(t)
    PROVE  ReqInv'
<1>1. CASE Wait(t)
  <2>1. wait \in Heads /\ state \in States
    BY DEF ReqInv, OtherTypes
  <2> QED
    BY <1>1, <2>1, WaitStep DEF Wait
<1>2. CASE WaitAgain(t)
  <2>1. pc[t] = "wait_on_buffer"
    BY <1>2 DEF WaitAgain, Dispatched
  <2>2. call[t].buf \in WaitQueues
    BY <2>1, HasCall
  <2>3. HeadsPutBack(t, call[t].buf) \in Heads /\ NextWoken(t) \in States
    BY <2>2, PutBackTypes DEF ReqInv
  <2> QED
    BY <1>2, <2>1, <2>3, WaitStep DEF WaitAgain
<1> QED
  BY <1>1, <1>2

-----------------------------------------------------------------------------
(***************************************************************************)
(* The steps of the disk, and the search.                                  *)
(***************************************************************************)

\* The end of requests in the queue q and the table rq.
LEMMA EndStep ==
    ASSUME OtherTypes, NEW q \in Seq(Entry), NEW rq, NEW e, NEW good \in BOOLEAN,
           e = NULL \/ (q # << >> /\ e = q[1]),
           QueueOK(q, rq), NEW p, NEW c, LockOK(rq, lock, p, c),
           EndRequests(q, rq, e, good)
    PROVE  /\ QueueOK(queue', request') /\ LockOK(request', lock', p, c)
           /\ do_hd' \in BOOLEAN /\ (do_hd' => queue' # << >>)
           /\ lock' \in [Block -> BOOLEAN] /\ uptodate' \in [Block -> BOOLEAN]
           /\ wait' \in Heads /\ state' \in States
<1>0. TableOK(rq) /\ Matches(q, rq) /\ OneTurn(q, rq)
  BY DEF QueueOK
<1>1. PICK m \in 0..Len(q) : EndShape(q, rq, m)
  BY EndFirst
<1>2. QueueOK(queue', request')
  BY <1>0, <1>1, EndKeeps DEF QueueOK
<1>3. LockOK(request', lock', p, c)
  <2>1. LockOK(rq, lock, p, c) /\ q \in Seq(Entry) /\ m \in 0..Len(q)
    OBVIOUS
  <2> QED
    BY ONLY <1>0, <1>1, <2>1, EndLocks
<1>4. do_hd' \in BOOLEAN /\ (do_hd' => queue' # << >>)
  <2>1. \E b : do_hd' = (queue' # << >> /\ b)
    BY Zenon DEF EndRequests
  <2>2. PICK b : do_hd' = (queue' # << >> /\ b)
    BY <2>1
  <2> QED
    BY ONLY <2>2, Zenon
<1>5. lock' \in [Block -> BOOLEAN]
  <2>1. lock' = [b \in Block |-> lock[b] /\ b \notin {rq[x].buf : x \in {q[i] : i \in 1..m}}]
    BY <1>1 DEF EndShape
  <2> QED
    BY <2>1
<1>6. uptodate' \in [Block -> BOOLEAN]
  <2>1. \E bufs, ok : uptodate' = [b \in Block |-> IF b \in bufs THEN b \in ok ELSE uptodate[b]]
    BY Zenon DEF EndRequests
  <2>2. PICK bufs, ok :
            uptodate' = [b \in Block |-> IF b \in bufs THEN b \in ok ELSE uptodate[b]]
    BY <2>1
  <2>3. \A b \in Block : uptodate[b] \in BOOLEAN
    BY DEF OtherTypes
  <2>4. \A b \in Block : (IF b \in bufs THEN b \in ok ELSE uptodate[b]) \in BOOLEAN
    <3> TAKE b \in Block
    <3>1. (b \in ok) \in BOOLEAN /\ uptodate[b] \in BOOLEAN
      BY <2>3
    <3> DEFINE A == b \in ok
               B == uptodate[b]
               C == b \in bufs
    <3> HIDE DEF A, B, C
    <3>2. A \in BOOLEAN /\ B \in BOOLEAN => (IF C THEN A ELSE B) \in BOOLEAN
      OBVIOUS
    <3> QED
      BY <3>1, <3>2 DEF A, B, C
  <2>5. [b \in Block |-> IF b \in bufs THEN b \in ok ELSE uptodate[b]] \in [Block -> BOOLEAN]
    BY ONLY <2>4, Zenon
  <2> QED
    BY ONLY <2>2, <2>5, Zenon
<1>7. wait' \in Heads /\ state' \in States
  <2>1. \E S : WakeUp(S, wait, state)
    BY Zenon DEF EndRequests
  <2>2. PICK S : WakeUp(S, wait, state)
    BY ONLY <2>1
  <2>3. wait \in Heads /\ state \in States
    BY DEF OtherTypes
  <2> QED
    BY ONLY <2>2, <2>3, WakeTypes
<1> QED
  BY <1>2, <1>3, <1>4, <1>5, <1>6, <1>7

\* The disk counts the errors and the sectors of the request at the head.
LEMMA CountedKeeps ==
    ASSUME NEW q \in Seq(Entry), NEW rq, NEW rq2, NEW lk, NEW p, NEW c,
           QueueOK(q, rq), LockOK(rq, lk, p, c),
           rq2 \in [Entry -> {NULL} \cup Request],
           \A x \in Entry : /\ rq2[x] = NULL <=> rq[x] = NULL
                            /\ rq2[x] # NULL => rq2[x].buf = rq[x].buf /\ rq2[x].cmd = rq[x].cmd
    PROVE  QueueOK(q, rq2) /\ LockOK(rq2, lk, p, c)
<1>1. TableOK(rq2)
  BY DEF QueueOK, TableOK
<1>2. Matches(q, rq2)
  BY DEF QueueOK, Matches
<1>3. OneTurn(q, rq2)
  <2>1. ASSUME NEW i \in 1..Len(q) - 1 PROVE Turns(q, rq2, i) <=> Turns(q, rq, i)
    <3>1. {q[j] : j \in 1..Len(q)} = {x \in Entry : rq[x] # NULL}
      BY DEF QueueOK, Matches
    <3>2. i \in 1..Len(q) /\ i + 1 \in 1..Len(q)
      OBVIOUS
    <3>3. q[i] \in Entry /\ q[i + 1] \in Entry /\ rq2[q[i]] # NULL /\ rq2[q[i + 1]] # NULL
      BY <3>1, <3>2
    <3> QED
      BY <3>3 DEF Turns, InOrder
  <2> QED
    BY <2>1 DEF OneTurn, QueueOK
<1>4. LockOK(rq2, lk, p, c)
  <2>1. \A x \in Entry, b \in Block : Req(rq2, x, b) <=> Req(rq, x, b)
    BY DEF Req
  <2> QED
    BY <2>1 DEF LockOK
<1> QED
  BY <1>1, <1>2, <1>3, <1>4 DEF QueueOK

\* What an interrupt leaves.
LEMMA DiskTypes ==
    ASSUME ReqInv, UNCHANGED <<dirt, tmp, pc, call, cpu>>,
           QueueOK(queue', request'), LockOK(request', lock', pc, call),
           do_hd' \in BOOLEAN, do_hd' => queue' # << >>,
           lock' \in [Block -> BOOLEAN], uptodate' \in [Block -> BOOLEAN],
           wait' \in Heads, state' \in States
    PROVE  ReqInv'
<1>1. OtherTypes'
  BY DEF ReqInv, OtherTypes
<1>2. CallOK(pc', call')
  BY DEF ReqInv
<1> QED
  BY <1>1, <1>2 DEF ReqInv

\* The head of the queue, when an interrupt comes.
LEMMA HeadProps ==
    ASSUME ReqInv, do_hd
    PROVE  /\ queue \in Seq(Entry) /\ queue # << >> /\ queue[1] \in Entry
           /\ request[queue[1]] \in Request /\ request[queue[1]] # NULL
           /\ request \in [Entry -> {NULL} \cup Request]
<1>1. /\ queue \in Seq(Entry) /\ queue # << >>
      /\ {queue[i] : i \in 1..Len(queue)} = {x \in Entry : request[x] # NULL}
      /\ request \in [Entry -> {NULL} \cup Request]
  BY DEF ReqInv, QueueOK, Matches, TableOK
<1>2. 1 \in 1..Len(queue)
  BY <1>1
<1>3. queue[1] \in Entry /\ request[queue[1]] # NULL
  BY <1>1, <1>2
<1> QED
  BY <1>1, <1>3

LEMMA ReadStep ==
    ASSUME ReqInv, SectorRead
    PROVE  ReqInv'
<1> DEFINE e == queue[1]
           r == request[e]
<1>0. /\ do_hd /\ OtherTypes /\ QueueOK(queue, request)
      /\ LockOK(request, lock, pc, call)
  BY DEF SectorRead, ReqInv
<1>1. /\ queue \in Seq(Entry) /\ queue # << >> /\ e \in Entry
      /\ r \in Request /\ r # NULL /\ request \in [Entry -> {NULL} \cup Request]
  BY <1>0, HeadProps
<1>2. CASE /\ r.left > 1
           /\ request' = [request EXCEPT ![e].errors = 0, ![e].left = @ - 1]
           /\ UNCHANGED <<queue, do_hd, lock, uptodate, wait, state>>
  <2>1. /\ r \in [cmd : Kinds, buf : Block, errors : 0..MAX_ERRORS - 1, left : {1, 2}]
        /\ r.left - 1 \in {1, 2} /\ 0 \in 0..MAX_ERRORS - 1
    BY <1>1, <1>2, RequestAssumption DEF Request
  <2> DEFINE s == [r EXCEPT !.errors = 0, !.left = @ - 1]
  <2>2. request' = [request EXCEPT ![e] = s]
    BY <1>1, <1>2
  <2>3. s \in Request /\ s.buf = r.buf /\ s.cmd = r.cmd
    BY <2>1 DEF Request
  <2>4. s # NULL
    BY <2>3, NullNoItem
  <2> HIDE DEF s
  <2>5. /\ request' \in [Entry -> {NULL} \cup Request]
        /\ \A x \in Entry : x # e => request'[x] = request[x]
        /\ request'[e] = s
    BY <1>1, <2>2, <2>3
  <2>6. QueueOK(queue, request') /\ LockOK(request', lock, pc, call)
    <3>1. \A x \in Entry : /\ request'[x] = NULL <=> request[x] = NULL
                           /\ request'[x] # NULL => /\ request'[x].buf = request[x].buf
                                                    /\ request'[x].cmd = request[x].cmd
      BY <1>1, <2>3, <2>4, <2>5
    <3> QED
      BY <1>0, <1>1, <2>5, <3>1, CountedKeeps
  <2>7. UNCHANGED <<dirt, tmp, pc, call, cpu>>
    BY DEF SectorRead
  <2> QED
    BY <1>0, <1>2, <2>6, <2>7, DiskTypes DEF ReqInv, OtherTypes
<1>3. CASE EndRequests(queue, request, e, TRUE)
  <2>1. /\ QueueOK(queue', request') /\ LockOK(request', lock', pc, call)
        /\ do_hd' \in BOOLEAN /\ (do_hd' => queue' # << >>)
        /\ lock' \in [Block -> BOOLEAN] /\ uptodate' \in [Block -> BOOLEAN]
        /\ wait' \in Heads /\ state' \in States
    BY <1>0, <1>1, <1>3, EndStep
  <2>2. UNCHANGED <<dirt, tmp, pc, call, cpu>>
    BY DEF SectorRead
  <2> QED
    BY <2>1, <2>2, DiskTypes
<1> QED
  BY <1>2, <1>3 DEF SectorRead

LEMMA FailedStep ==
    ASSUME ReqInv, SectorFailed
    PROVE  ReqInv'
<1> DEFINE e == queue[1]
           r == request[e]
           n == r.errors + 1
           rq == [request EXCEPT ![e].errors = n]
<1>0. /\ do_hd /\ OtherTypes /\ QueueOK(queue, request)
      /\ LockOK(request, lock, pc, call)
  BY DEF SectorFailed, ReqInv
<1>1. /\ queue \in Seq(Entry) /\ queue # << >> /\ e \in Entry
      /\ r \in Request /\ r # NULL /\ request \in [Entry -> {NULL} \cup Request]
  BY <1>0, HeadProps
<1>4. /\ UNCHANGED <<dirt, tmp, pc, call, cpu>>
      /\ \/ EndRequests(queue, request, e, FALSE)
         \/ ~TooMany(n) /\ EndRequests(queue, rq, NULL, FALSE)
  BY DEF SectorFailed
<1>2. CASE EndRequests(queue, request, e, FALSE)
  <2>1. /\ QueueOK(queue', request') /\ LockOK(request', lock', pc, call)
        /\ do_hd' \in BOOLEAN /\ (do_hd' => queue' # << >>)
        /\ lock' \in [Block -> BOOLEAN] /\ uptodate' \in [Block -> BOOLEAN]
        /\ wait' \in Heads /\ state' \in States
    BY <1>0, <1>1, <1>2, EndStep
  <2> QED
    BY <1>4, <2>1, DiskTypes
<1>3. CASE ~TooMany(n) /\ EndRequests(queue, rq, NULL, FALSE)
  <2>1. /\ r \in [cmd : Kinds, buf : Block, errors : 0..MAX_ERRORS - 1, left : {1, 2}]
        /\ n \in 0..MAX_ERRORS - 1
    BY <1>1, <1>3, RequestAssumption DEF Request, TooMany
  <2> DEFINE s == [r EXCEPT !.errors = n]
  <2>2. rq = [request EXCEPT ![e] = s]
    BY <1>1
  <2>3. s \in Request /\ s.buf = r.buf /\ s.cmd = r.cmd
    BY <2>1 DEF Request
  <2>4. s # NULL
    BY <2>3, NullNoItem
  <2> HIDE DEF s, rq
  <2>5. /\ rq \in [Entry -> {NULL} \cup Request]
        /\ \A x \in Entry : x # e => rq[x] = request[x]
        /\ rq[e] = s
    BY <1>1, <2>2, <2>3
  <2>6. QueueOK(queue, rq) /\ LockOK(rq, lock, pc, call)
    <3>1. \A x \in Entry : /\ rq[x] = NULL <=> request[x] = NULL
                           /\ rq[x] # NULL => /\ rq[x].buf = request[x].buf
                                              /\ rq[x].cmd = request[x].cmd
      BY <1>1, <2>3, <2>4, <2>5
    <3> QED
      BY <1>0, <1>1, <2>5, <3>1, CountedKeeps
  <2>7. /\ QueueOK(queue', request') /\ LockOK(request', lock', pc, call)
        /\ do_hd' \in BOOLEAN /\ (do_hd' => queue' # << >>)
        /\ lock' \in [Block -> BOOLEAN] /\ uptodate' \in [Block -> BOOLEAN]
        /\ wait' \in Heads /\ state' \in States
    BY <1>0, <1>1, <1>3, <2>6, EndStep
  <2> QED
    BY <1>4, <2>7, DiskTypes
<1> QED
  BY <1>2, <1>3, <1>4

\* The search finds the highest of the free entries.
LEMMA HighestFree ==
    ASSUME NEW F \in SUBSET Entry, F # {}
    PROVE  (CHOOSE x \in F : \A y \in F : y <= x) \in F
<1> DEFINE S == {n \in Nat : NR_REQUEST - n \in F}
<1>1. F \subseteq 0..NR_REQUEST - 1 /\ NR_REQUEST \in Nat
  BY RequestAssumption DEF Entry
<1>2. S # {} /\ S \in SUBSET Nat
  <2>1. PICK x \in F : TRUE
    OBVIOUS
  <2>2. NR_REQUEST - x \in Nat /\ NR_REQUEST - (NR_REQUEST - x) = x
    BY <1>1, <2>1
  <2> QED
    BY <2>1, <2>2
<1> HIDE DEF S
<1>3. PICK m \in S : \A n \in S : m <= n
  BY <1>2, LeastOf
<1> USE DEF S
<1>4. NR_REQUEST - m \in F /\ \A y \in F : y <= NR_REQUEST - m
  <2>1. ASSUME NEW y \in F PROVE y <= NR_REQUEST - m
    <3>1. NR_REQUEST - y \in Nat /\ NR_REQUEST - (NR_REQUEST - y) = y /\ y \in Nat
      BY <1>1
    <3>2. m <= NR_REQUEST - y
      BY <1>3, <3>1
    <3> QED
      BY <3>1, <3>2, <1>1
  <2> QED
    BY <2>1
<1>5. \E x \in F : \A y \in F : y <= x
  BY <1>4
<1> QED
  BY <1>5

\* The task that searches has locked its buffer, and nobody else asks for it.
LEMMA SearchLocks ==
    ASSUME ReqInv, NEW t \in Task, pc[t] = "search", NEW e \in Entry, request[e] = NULL,
           NEW r \in Request, r.buf = call[t].buf,
           NEW place \in {"idle", "wait_on_buffer"}, NEW d,
           pc' = [pc EXCEPT ![t] = place], call' = [call EXCEPT ![t] = d]
    PROVE  /\ \A x \in Entry : request[x] # NULL => request[x].buf # r.buf
           /\ LockOK([request EXCEPT ![e] = r], lock, pc', call')
<1> DEFINE b == call[t].buf
           rq == [request EXCEPT ![e] = r]
<1>0. /\ LockOK(request, lock, pc, call) /\ b \in Block
      /\ pc \in [Task -> Places] /\ call \in [Task -> {NULL} \cup Calling]
      /\ request \in [Entry -> {NULL} \cup Request] /\ r # NULL
  BY HasCall, NullNoItem DEF ReqInv, OtherTypes, QueueOK, TableOK
<1>1. Makes(pc, call, t, b)
  BY DEF Makes
<1>2. \A x \in Entry : ~Req(request, x, b)
  BY <1>0, <1>1 DEF LockOK
<1>3. \A x \in Entry : request[x] # NULL => request[x].buf # r.buf
  BY <1>2 DEF Req
<1>4. \A x \in Entry, c \in Block : Req(rq, x, c) <=> (x = e /\ c = b) \/ Req(request, x, c)
  <2>1. rq[e] = r /\ \A x \in Entry : x # e => rq[x] = request[x]
    BY <1>0
  <2> HIDE DEF rq
  <2> QED
    BY <1>0, <2>1 DEF Req
<1>5. \A u \in Task, c \in Block : Makes(pc', call', u, c) <=> u # t /\ Makes(pc, call, u, c)
  <2>1. pc'[t] = place /\ \A u \in Task : u # t => pc'[u] = pc[u] /\ call'[u] = call[u]
    BY <1>0
  <2> QED
    BY <2>1 DEF Makes
<1>6. \A c \in Block : Makes(pc, call, t, c) => c = b
  BY DEF Makes
<1> HIDE DEF b, rq
<1>7. LockOK(rq, lock, pc', call')
  <2>1. ASSUME NEW c \in Block
        PROVE  /\ lock[c] <=> \/ \E x \in Entry : Req(rq, x, c)
                              \/ \E u \in Task : Makes(pc', call', u, c)
               /\ \A u, v \in Task : Makes(pc', call', u, c) /\ Makes(pc', call', v, c) => u = v
               /\ \A u \in Task, x \in Entry : ~(Makes(pc', call', u, c) /\ Req(rq, x, c))
    <3>0. /\ lock[c] <=> \/ \E x \in Entry : Req(request, x, c)
                         \/ \E u \in Task : Makes(pc, call, u, c)
          /\ \A u, v \in Task : Makes(pc, call, u, c) /\ Makes(pc, call, v, c) => u = v
          /\ \A u \in Task, x \in Entry : ~(Makes(pc, call, u, c) /\ Req(request, x, c))
      BY <1>0 DEF LockOK
    <3>1. CASE c = b
      <4>1. lock[c] /\ Req(rq, e, c)
        BY <1>1, <1>4, <3>0, <3>1
      <4>2. \A u \in Task : ~Makes(pc', call', u, c)
        BY <1>1, <1>5, <3>0, <3>1
      <4> QED
        BY <4>1, <4>2
    <3>2. CASE c # b
      <4>1. \A x \in Entry : Req(rq, x, c) <=> Req(request, x, c)
        BY <1>4, <3>2
      <4>2. \A u \in Task : Makes(pc', call', u, c) <=> Makes(pc, call, u, c)
        BY <1>5, <1>6, <3>2
      <4> QED
        BY <3>0, <4>1, <4>2
    <3> QED
      BY <3>1, <3>2
  <2> QED
    BY <2>1 DEF LockOK
<1> QED
  BY <1>3, <1>7 DEF rq

LEMMA SearchStep ==
    ASSUME ReqInv, NEW t \in Task, Search(t)
    PROVE  ReqInv'
<1> DEFINE free == FreeEntries(call[t].cmd)
           e    == CHOOSE x \in free : \A y \in free : y <= x
           r    == [cmd |-> call[t].cmd, buf |-> call[t].buf, errors |-> 0, left |-> 2]
           rq   == [request EXCEPT ![e] = r]
<1>0. /\ OtherTypes /\ QueueOK(queue, request) /\ CallOK(pc, call)
      /\ LockOK(request, lock, pc, call) /\ (do_hd => queue # << >>)
      /\ request \in [Entry -> {NULL} \cup Request]
  BY DEF ReqInv, QueueOK, TableOK
<1>1. pc[t] = "search" /\ cpu = t
  BY DEF Search
<1>2. call[t] \in Calling /\ call[t] # NULL
  BY <1>1, HasCall
<1>3. r \in Request /\ r # NULL /\ r.buf = call[t].buf
  <2>1. 0 \in 0..MAX_ERRORS - 1
    BY RequestAssumption
  <2>2. r \in Request
    BY <1>2, <2>1 DEF Request, Calling
  <2> QED
    BY <2>2, NullNoItem
<1>4. free # {} => e \in Entry /\ request[e] = NULL
  <2>1. free \in SUBSET Entry /\ \A x \in free : request[x] = NULL
    BY DEF FreeEntries
  <2> HIDE DEF free
  <2>2. free # {} => e \in free
    BY <2>1, HighestFree
  <2> QED
    BY <2>1, <2>2
<1> HIDE DEF free, e, r
<1>5. CASE /\ pc' = [pc EXCEPT ![t] = "full"]
           /\ UNCHANGED <<request, queue, do_hd, buffers, wait, state, call, cpu, tmp>>
  BY <1>0, <1>1, <1>5, SameCall DEF OtherTypes
<1>6. ASSUME free # {}, Return(t, call[t]), QueueOK(queue', request'),
             \A p, c : LockOK(rq, lock, p, c) => LockOK(request', lock', p, c),
             do_hd' \in BOOLEAN, do_hd' => queue' # << >>,
             lock' \in [Block -> BOOLEAN], uptodate' \in [Block -> BOOLEAN],
             dirt' \in [Block -> BOOLEAN],
             wait' \in Heads, state' \in States, UNCHANGED tmp
      PROVE  ReqInv'
  <2>1. PICK place \in {"idle", "wait_on_buffer"}, d \in {call[t], NULL} :
                 /\ pc' = [pc EXCEPT ![t] = place] /\ call' = [call EXCEPT ![t] = d]
                 /\ (place = "idle" <=> d = NULL)
    BY <1>2, <1>6, ReturnMoves
  <2>2. TaskMoves(t, place, d)
    <3>1. cpu' \in Task \cup {NULL}
      BY <1>2, <1>6, ReturnMoves
    <3> QED
      BY <1>0, <1>6, <2>1, <3>1 DEF TaskMoves, OtherTypes
  <2>3. LockOK(rq, lock, pc', call')
    BY <1>1, <1>3, <1>4, <1>6, <2>1, SearchLocks
  <2>4. LockOK(request', lock', pc', call')
    BY <1>6, <2>3
  <2>5. OtherTypes' /\ CallOK(pc', call')
    BY <1>0, <1>2, <1>6, <2>1, <2>2, MoveTypes DEF Places
  <2> QED
    BY <1>6, <2>4, <2>5 DEF ReqInv
<1>7. dirt' = [dirt EXCEPT ![call[t].buf] = FALSE] => dirt' \in [Block -> BOOLEAN]
  BY <1>0 DEF OtherTypes
<1>8. free # {} => \A x \in Entry : request[x] # NULL => request[x].buf # r.buf
  <2>1. Makes(pc, call, t, r.buf) /\ r.buf \in Block
    BY <1>1, <1>3, HasCall DEF Makes
  <2>2. \A x \in Entry : ~Req(request, x, r.buf)
    BY <1>0, <2>1 DEF LockOK
  <2> QED
    BY <2>2 DEF Req
<1>9. CASE /\ free # {} /\ queue = << >>
           /\ dirt' = [dirt EXCEPT ![call[t].buf] = FALSE]
           /\ EndRequests(<<e>>, rq, NULL, FALSE)
           /\ Return(t, call[t]) /\ UNCHANGED tmp
  <2>1. \A x \in Entry : request[x] = NULL
    <3>1. 1..Len(queue) = {} /\ {queue[i] : i \in 1..Len(queue)} = {x \in Entry : request[x] # NULL}
      BY <1>0, <1>9 DEF QueueOK, Matches
    <3> QED
      BY <3>1
  <2>2. e \in Entry /\ rq \in [Entry -> {NULL} \cup Request] /\ rq[e] = r
        /\ \A x \in Entry : x # e => rq[x] = NULL
    BY <1>0, <1>3, <1>4, <1>9, <2>1
  <2> HIDE DEF rq
  <2>3. QueueOK(<<e>>, rq)
    <3>1. TableOK(rq)
      BY <2>2 DEF TableOK
    <3>2. <<e>> \in Seq(Entry) /\ Len(<<e>>) = 1 /\ <<e>>[1] = e
      BY <2>2
    <3>3. Matches(<<e>>, rq)
      <4>1. \A i \in 1..1 : <<e>>[i] = e /\ i = 1
        BY <3>2
      <4>2. {<<e>>[i] : i \in 1..1} = {e}
        BY <4>1
      <4>3. {x \in Entry : rq[x] # NULL} = {e}
        BY <1>3, <2>2
      <4> QED
        BY <3>2, <4>1, <4>2, <4>3 DEF Matches
    <3>4. OneTurn(<<e>>, rq)
      <4>1. 1..Len(<<e>>) - 1 = {}
        BY <3>2
      <4> QED
        BY <4>1 DEF OneTurn
    <3> QED
      BY <3>1, <3>3, <3>4 DEF QueueOK
  <2>4. <<e>> \in Seq(Entry)
    BY <2>2
  <2>5. \A p, c : LockOK(rq, lock, p, c) => LockOK(request', lock', p, c)
    BY <1>0, <1>9, <2>3, <2>4, EndStep
  <2>6. LockOK(rq, lock, pc', call')
    <3>1. PICK place \in {"idle", "wait_on_buffer"}, d \in {call[t], NULL} :
                 /\ pc' = [pc EXCEPT ![t] = place] /\ call' = [call EXCEPT ![t] = d]
                 /\ (place = "idle" <=> d = NULL)
      BY <1>2, <1>9, ReturnMoves
    <3>2. LockOK([request EXCEPT ![e] = r], lock, pc', call')
      BY <1>1, <1>3, <1>4, <1>9, <3>1, SearchLocks
    <3> QED
      BY <3>2 DEF rq
  <2>7. /\ QueueOK(queue', request')
        /\ do_hd' \in BOOLEAN /\ (do_hd' => queue' # << >>)
        /\ lock' \in [Block -> BOOLEAN] /\ uptodate' \in [Block -> BOOLEAN]
        /\ wait' \in Heads /\ state' \in States
    BY <1>0, <1>9, <2>3, <2>4, <2>6, EndStep
  <2> QED
    BY <1>6, <1>7, <1>9, <2>5, <2>7
<1>10. CASE /\ free # {} /\ queue # << >>
            /\ dirt' = [dirt EXCEPT ![call[t].buf] = FALSE]
            /\ request' = rq
            /\ queue' = Inserted(queue, e, r)
            /\ Return(t, call[t])
            /\ UNCHANGED <<do_hd, lock, uptodate, wait, state, tmp>>
  <2>1. QueueOK(queue', request')
    <3>1. queue \in Seq(Entry) /\ TableOK(request) /\ Matches(queue, request) /\ OneTurn(queue, request)
      BY <1>0 DEF QueueOK, Matches
    <3>2. e \in Entry /\ request[e] = NULL /\ queue # << >> /\ r \in Request
      BY <1>3, <1>4, <1>10
    <3>3. TableOK(rq) /\ Matches(Inserted(queue, e, r), rq) /\ OneTurn(Inserted(queue, e, r), rq)
      BY <1>8, <1>10, <3>1, <3>2, InsertKeeps
    <3> QED
      BY <1>10, <3>3 DEF QueueOK
  <2>2. queue' # << >>
    <3>1. e \in {x \in Entry : request'[x] # NULL}
      BY <1>0, <1>3, <1>4, <1>10
    <3>2. /\ {queue'[i] : i \in 1..Len(queue')} = {x \in Entry : request'[x] # NULL}
      BY <2>1 DEF QueueOK, Matches
    <3>3. queue' = << >> => 1..Len(queue') = {}
      OBVIOUS
    <3> QED
      BY <3>1, <3>2, <3>3
  <2>3. \A p, c : LockOK(rq, lock, p, c) => LockOK(request', lock', p, c)
    BY <1>10
  <2> QED
    BY <1>0, <1>6, <1>7, <1>10, <2>1, <2>2, <2>3 DEF OtherTypes
<1> QED
  BY <1>5, <1>9, <1>10 DEF Search, free, e, r

LEMMA ModifyStep ==
    ASSUME ReqInv, NEW b \in Block, Modify(b)
    PROVE  ReqInv'
  BY DEF Modify, ReqInv, OtherTypes, tasks

LEMMA ReuseStep ==
    ASSUME ReqInv, NEW b \in Block, Reuse(b)
    PROVE  ReqInv'
  BY DEF Reuse, ReqInv, OtherTypes, tasks

-----------------------------------------------------------------------------
(***************************************************************************)
(* Theorems                                                                *)
(***************************************************************************)
LEMMA InvNext == ReqInv /\ [Next]_vars => ReqInv'
<1> SUFFICES ASSUME ReqInv, [Next]_vars PROVE ReqInv'
  OBVIOUS
<1>1. ASSUME NEW t \in Task, NEW b \in Block, Bread(t, b) PROVE ReqInv'
  <2>1. [cmd |-> "READ", buf |-> b] \in Calling
    BY DEF Calling, Kinds
  <2> QED
    BY <1>1, <2>1, EnterStep DEF Bread
<1>2. ASSUME NEW t \in Task, NEW b \in Block, Sync(t, b) PROVE ReqInv'
  <2>1. [cmd |-> "WRITE", buf |-> b] \in Calling
    BY DEF Calling, Kinds
  <2> QED
    BY <1>2, <2>1, EnterStep DEF Sync
<1>3. ASSUME NEW t \in Task, KernelStep(t) PROVE ReqInv'
  BY <1>3, SearchStep, QueueStep, DozeStep, WaitSteps DEF KernelStep
<1>4. ASSUME NEW t \in Task, Awake(t) PROVE ReqInv'
  BY <1>4, RelockStep, RepeatStep, WaitSteps DEF Awake
<1>5. ASSUME NEW b \in Changed, Modify(b) PROVE ReqInv'
  BY <1>5, ModifyStep, RequestAssumption
<1>6. ASSUME NEW b \in Block, Reuse(b) PROVE ReqInv'
  BY <1>6, ReuseStep
<1>7. CASE SectorRead
  BY <1>7, ReadStep
<1>8. CASE SectorFailed
  BY <1>8, FailedStep
<1>9. CASE UNCHANGED vars
  BY <1>9 DEF vars, buffers, tasks, ReqInv, OtherTypes
<1> QED
  BY <1>1, <1>2, <1>3, <1>4, <1>5, <1>6, <1>7, <1>8, <1>9 DEF Next

LEMMA Invariant == Spec => []ReqInv
<1>1. Init => ReqInv
  BY InvInit
<1>2. ReqInv /\ [Next]_vars => ReqInv'
  BY InvNext
<1> QED
  BY <1>1, <1>2, PTL DEF Spec

\* A set whose elements are equal has one element, or none.
LEMMA AtMostOne ==
    ASSUME NEW S, \A x, y \in S : x = y
    PROVE  Cardinality(S) = IF S = {} THEN 0 ELSE 1
<1>1. CASE S = {}
  BY <1>1, FS_EmptySet
<1>2. CASE S # {}
  <2>1. PICK x \in S : S = {x}
    BY <1>2
  <2>2. Cardinality({x}) = 1
    BY FS_Singleton
  <2> QED
    BY <1>2, <2>1, <2>2
<1> QED
  BY <1>1, <1>2

\* Every locked buffer has just one request that will unlock it, or one task
\* that will make that request, whatever sleeps and interrupts come between
\* lock_buffer() and end_request(); an unlocked buffer has neither.
THEOREM LocksAreAccounted == Spec => []LocksAccounted
<1>1. ReqInv => LocksAccounted
  <2> SUFFICES ASSUME ReqInv, NEW b \in Block
               PROVE  TypeOK /\ Cardinality(RequestsFor(b)) + Cardinality(Requesting(b))
                                 = IF lock[b] THEN 1 ELSE 0
    BY InvTypes DEF LocksAccounted
  <2> DEFINE A == RequestsFor(b)
             B == Requesting(b)
  <2>1. /\ \A x, y \in A : x = y
        /\ \A t, u \in B : t = u
        /\ ~(A # {} /\ B # {})
        /\ lock[b] <=> A # {} \/ B # {}
        /\ lock[b] \in BOOLEAN
    <3>1. A = {e \in Entry : Req(request, e, b)} /\ B = {t \in Task : Makes(pc, call, t, b)}
      BY DEF RequestsFor, Requesting, Req, Makes
    <3>2. \A x, y \in A : x = y
      BY DEF RequestsFor, ReqInv, QueueOK, TableOK
    <3>3. LockOK(request, lock, pc, call) /\ lock[b] \in BOOLEAN
      BY DEF ReqInv, OtherTypes
    <3> HIDE DEF A, B
    <3>4. \A t, u \in B : t = u
      BY <3>1, <3>3 DEF LockOK
    <3>5. ~(A # {} /\ B # {})
      BY <3>1, <3>3 DEF LockOK
    <3>6. lock[b] <=> A # {} \/ B # {}
      BY <3>1, <3>3 DEF LockOK
    <3> QED
      BY <3>2, <3>3, <3>4, <3>5, <3>6
  <2> HIDE DEF A, B
  <2>2. /\ Cardinality(A) = IF A = {} THEN 0 ELSE 1
        /\ Cardinality(B) = IF B = {} THEN 0 ELSE 1
    BY <2>1, AtMostOne
  <2>3. Cardinality(A) + Cardinality(B) = IF lock[b] THEN 1 ELSE 0
    BY <2>1, <2>2
  <2> QED
    BY <2>3, InvTypes DEF A, B
<1> QED
  BY <1>1, Invariant, PTL

\* The queue that the next pointers form holds each entry in use once, and
\* no free one.
THEOREM QueueIsTable == Spec => []QueueMatchesTable
<1>1. ReqInv => QueueMatchesTable
  BY DEF ReqInv, QueueOK, Matches, QueueMatchesTable
<1> QED
  BY <1>1, Invariant, PTL

\* However add_request() and end_request() interleave, the queue turns back
\* at most once.
THEOREM ElevatorSweeps == Spec => []TwoSweeps
<1>1. ReqInv => TwoSweeps
  BY DEF ReqInv, QueueOK, OneTurn, Turns, TwoSweeps
<1> QED
  BY <1>1, Invariant, PTL
=============================================================================
