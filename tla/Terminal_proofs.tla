--------------------------- MODULE Terminal_proofs ---------------------------
(***************************************************************************)
(* Proofs about the terminal, for any number of readers and any size of    *)
(* its queue.                                                              *)
(***************************************************************************)
EXTENDS Terminal, TLAPS

-----------------------------------------------------------------------------
(***************************************************************************)
(* The ring.  Its arithmetic is that of % for numbers not far from the     *)
(* divisor.                                                                *)
(***************************************************************************)
N == TTY_BUF_SIZE

LEMMA SizeN == N \in Nat /\ N >= 2
  BY TerminalAssumption DEF N

LEMMA ModProps ==
    ASSUME NEW x \in Int
    PROVE  /\ 0 <= x /\ x < N => x % N = x
           /\ N <= x /\ x < 2 * N => x % N = x - N
           /\ -N <= x /\ x < 0 => x % N = x + N
<1>1. N \in Nat \ {0}
  BY SizeN
<1> PICK M \in Nat \ {0} : M = N
  BY <1>1
<1>2. /\ 0 <= x /\ x < M => x % M = x
      /\ M <= x /\ x < 2 * M => x % M = x - M
      /\ -M <= x /\ x < 0 => x % M = x + M
  OBVIOUS
<1> QED
  BY <1>2

\* How many characters lie between the tail t and the head h, and where the
\* n-th of them is.
Count(h, t) == (h - t) % N
Place(t, n) == (t + n - 1) % N

LEMMA CountProps ==
    ASSUME NEW h \in Index, NEW t \in Index
    PROVE  /\ Count(h, t) \in 0..N - 1
           /\ Count(h, t) = IF t <= h THEN h - t ELSE h - t + N
           /\ h = t <=> Count(h, t) = 0
           /\ (t - h - 1) % N = 0 <=> Count(h, t) = N - 1
<1>1. h \in Nat /\ t \in Nat /\ h < N /\ t < N /\ N \in Nat /\ N >= 2
  BY SizeN DEF Index, N
<1>2. Count(h, t) = IF t <= h THEN h - t ELSE h - t + N
  <2>1. h - t \in Int /\ -N <= h - t /\ h - t < N
    BY <1>1
  <2> QED
    BY <1>1, <2>1, ModProps DEF Count
<1>3. (t - h - 1) % N = IF h < t THEN t - h - 1 ELSE t - h - 1 + N
  <2>1. t - h - 1 \in Int /\ -N <= t - h - 1 /\ t - h - 1 < N
    BY <1>1
  <2> DEFINE x == t - h - 1
  <2>2. x \in Int /\ -N <= x /\ x < N /\ (h < t <=> 0 <= x)
    BY <1>1
  <2> HIDE DEF x
  <2>3. x % N = IF h < t THEN x ELSE x + N
    BY <2>2, <1>1, ModProps
  <2> QED
    BY <2>3 DEF x
<1> QED
  BY <1>1, <1>2, <1>3

\* The places of the characters, and the one behind them.
LEMMA PlaceProps ==
    ASSUME NEW h \in Index, NEW t \in Index, NEW n \in 1..Count(h, t) + 1
    PROVE  /\ Place(t, n) \in Index
           /\ Place(t, n) = h <=> n = Count(h, t) + 1
           /\ Place(t, n) = IF t + n - 1 < N THEN t + n - 1 ELSE t + n - 1 - N
<1>1. h \in Nat /\ t \in Nat /\ h < N /\ t < N /\ N \in Nat /\ N >= 2
  BY SizeN DEF Index, N
<1>2. /\ Count(h, t) \in 0..N - 1
      /\ Count(h, t) = IF t <= h THEN h - t ELSE h - t + N
  BY CountProps
<1>3. n \in Nat /\ 1 <= n /\ n <= Count(h, t) + 1
  BY <1>2
<1>4. Place(t, n) = IF t + n - 1 < N THEN t + n - 1 ELSE t + n - 1 - N
  <2> DEFINE x == t + n - 1
  <2>1. x \in Int /\ 0 <= x /\ x < 2 * N
    BY <1>1, <1>2, <1>3
  <2> HIDE DEF x
  <2>2. x % N = IF x < N THEN x ELSE x - N
    BY <2>1, <1>1, ModProps
  <2> QED
    BY <1>1, <1>3, <2>2 DEF x, Place
<1>5. Place(t, n) \in 0..N - 1
  BY <1>1, <1>2, <1>3, <1>4
<1> QED
  BY <1>1, <1>2, <1>3, <1>4, <1>5 DEF Index, N

\* The head goes on by a character, or back, and the tail goes on.
LEMMA Moves ==
    ASSUME NEW h \in Index, NEW t \in Index
    PROVE  /\ Inc(h) \in Index /\ Dec(h) \in Index
           /\ Count(h, t) # N - 1 => Count(Inc(h), t) = Count(h, t) + 1
           /\ h # t => /\ Count(Dec(h), t) = Count(h, t) - 1
                       /\ Count(h, Inc(t)) = Count(h, t) - 1
           /\ Dec(h) = IF h = 0 THEN N - 1 ELSE h - 1
           /\ Inc(h) = IF h = N - 1 THEN 0 ELSE h + 1
<1>1. h \in Nat /\ t \in Nat /\ h < N /\ t < N /\ N \in Nat /\ N >= 2
  BY SizeN DEF Index, N
<1>2. \A x \in Index : Inc(x) = IF x = N - 1 THEN 0 ELSE x + 1
  <2> TAKE x \in Index
  <2>1. x \in Nat /\ x < N
    BY <1>1 DEF Index, N
  <2> DEFINE y == x + 1
  <2>2. y \in Int /\ 0 <= y /\ y < 2 * N
    BY <1>1, <2>1
  <2> HIDE DEF y
  <2>3. y % N = IF y < N THEN y ELSE y - N
    BY <2>2, <1>1, ModProps
  <2> QED
    BY <1>1, <2>1, <2>3 DEF y, Inc, N
<1>3. Dec(h) = IF h = 0 THEN N - 1 ELSE h - 1
  <2> DEFINE y == h - 1
  <2>2. y \in Int /\ -N <= y /\ y < N
    BY <1>1
  <2> HIDE DEF y
  <2>3. y % N = IF 0 <= y THEN y ELSE y + N
    BY <2>2, <1>1, ModProps
  <2> QED
    BY <1>1, <2>3 DEF y, Dec, N
<1>4. Inc(h) \in Index /\ Dec(h) \in Index /\ Inc(t) \in Index
  BY <1>1, <1>2, <1>3 DEF Index, N
<1>5. Count(h, t) = IF t <= h THEN h - t ELSE h - t + N
  BY CountProps
<1>6. Count(Inc(h), t) = IF t <= Inc(h) THEN Inc(h) - t ELSE Inc(h) - t + N
  BY <1>4, CountProps
<1>7. Count(Dec(h), t) = IF t <= Dec(h) THEN Dec(h) - t ELSE Dec(h) - t + N
  BY <1>4, CountProps
<1>8. Count(h, Inc(t)) = IF Inc(t) <= h THEN h - Inc(t) ELSE h - Inc(t) + N
  BY <1>4, CountProps
<1> QED
  BY <1>1, <1>2, <1>3, <1>4, <1>5, <1>6, <1>7, <1>8

-----------------------------------------------------------------------------
(***************************************************************************)
(* The line, as the ring holds it.                                         *)
(***************************************************************************)
LineOf(b, h, t) == [n \in 1..Count(h, t) |-> b[Place(t, n)]]

LEMMA LineIs == Line = LineOf(buf, head, tail) /\ CHARS = Count(head, tail)
  BY DEF Line, LineOf, CHARS, Count, Place, N

\* l is the sequence of the characters from t up to h.
Holds(l, b, h, t) ==
    /\ l \in Seq(Code) /\ Len(l) = Count(h, t) /\ Count(h, t) \in Nat
    /\ \A n \in 1..Count(h, t) : l[n] = b[Place(t, n)]

LEMMA LineType ==
    ASSUME NEW b \in [Index -> Code], NEW h \in Index, NEW t \in Index
    PROVE  Holds(LineOf(b, h, t), b, h, t)
<1>1. Count(h, t) \in Nat
  BY CountProps, SizeN
<1> PICK k \in Nat : k = Count(h, t)
  BY <1>1
<1>2. \A n \in 1..k : b[Place(t, n)] \in Code
  <2>1. \A n \in 1..k : n \in 1..Count(h, t) + 1
    OBVIOUS
  <2> QED
    BY <2>1, PlaceProps
<1>3. LineOf(b, h, t) = [n \in 1..k |-> b[Place(t, n)]]
  BY DEF LineOf
<1> QED
  BY <1>2, <1>3 DEF Holds

\* Two sequences of the same length with the same elements.
LEMMA SameSeq ==
    ASSUME NEW S, NEW a \in Seq(S), NEW b \in Seq(S), Len(a) = Len(b),
           \A i \in 1..Len(a) : a[i] = b[i]
    PROVE  a = b
  OBVIOUS

LEMMA AppendProps ==
    ASSUME NEW S, NEW s \in Seq(S), NEW c \in S
    PROVE  /\ Append(s, c) \in Seq(S) /\ Len(Append(s, c)) = Len(s) + 1
           /\ Len(s) \in Nat /\ Append(s, c)[Len(s) + 1] = c
           /\ \A i \in 1..Len(s) : Append(s, c)[i] = s[i]
  OBVIOUS

LEMMA ShrinkProps ==
    ASSUME NEW S, NEW s \in Seq(S), s # << >>
    PROVE  /\ Tail(s) \in Seq(S) /\ Len(Tail(s)) = Len(s) - 1 /\ Len(s) \in Nat \ {0}
           /\ \A i \in 1..Len(s) - 1 : Tail(s)[i] = s[i + 1]
           /\ SubSeq(s, 1, Len(s) - 1) \in Seq(S)
           /\ Len(SubSeq(s, 1, Len(s) - 1)) = Len(s) - 1
           /\ \A i \in 1..Len(s) - 1 : SubSeq(s, 1, Len(s) - 1)[i] = s[i]
           /\ Head(s) = s[1]
<1>1. Len(s) \in Nat \ {0}
  OBVIOUS
<1>2. /\ Tail(s) \in Seq(S) /\ Len(Tail(s)) = Len(s) - 1 /\ Head(s) = s[1]
      /\ \A i \in 1..Len(s) - 1 : Tail(s)[i] = s[i + 1]
  OBVIOUS
<1>3. ASSUME NEW k \in 0..Len(s)
      PROVE  /\ SubSeq(s, 1, k) \in Seq(S) /\ Len(SubSeq(s, 1, k)) = k
             /\ \A i \in 1..k : SubSeq(s, 1, k)[i] = s[i]
  OBVIOUS
<1>4. Len(s) - 1 \in 0..Len(s)
  BY <1>1
<1> QED
  BY ONLY <1>1, <1>2, <1>3, <1>4

\* PUTCH of a character, when there is room.
LEMMA PutLine ==
    ASSUME NEW b \in [Index -> Code], NEW h \in Index, NEW t \in Index, NEW c \in Code,
           Count(h, t) # N - 1
    PROVE  LineOf([b EXCEPT ![h] = c], Inc(h), t) = Append(LineOf(b, h, t), c)
<1> DEFINE d == [b EXCEPT ![h] = c]
           u == LineOf(d, Inc(h), t)
           s == LineOf(b, h, t)
<1>1. Inc(h) \in Index /\ Count(Inc(h), t) = Count(h, t) + 1
  BY Moves
<1>2. d \in [Index -> Code] /\ d[h] = c /\ \A i \in Index : i # h => d[i] = b[i]
  OBVIOUS
<1> HIDE DEF d
<1>3. /\ u \in Seq(Code) /\ Len(u) = Count(h, t) + 1
      /\ \A n \in 1..Count(h, t) + 1 : u[n] = d[Place(t, n)]
  <2>1. Holds(u, d, Inc(h), t)
    BY <1>1, <1>2, LineType
  <2> HIDE DEF u
  <2> QED
    BY ONLY <1>1, <2>1 DEF Holds
<1>4. /\ s \in Seq(Code) /\ Len(s) = Count(h, t) /\ Count(h, t) \in Nat
      /\ \A n \in 1..Count(h, t) : s[n] = b[Place(t, n)]
  BY LineType DEF Holds
<1> HIDE DEF u, s
<1> PICK k \in Nat : k = Count(h, t)
  BY <1>4
<1>5. /\ Append(s, c) \in Seq(Code) /\ Len(Append(s, c)) = k + 1
      /\ Append(s, c)[k + 1] = c /\ \A i \in 1..k : Append(s, c)[i] = s[i]
  BY <1>4, AppendProps
<1>6. \A n \in 1..k + 1 : u[n] = Append(s, c)[n]
  <2> TAKE n \in 1..k + 1
  <2>1. Place(t, n) \in Index /\ (Place(t, n) = h <=> n = k + 1)
    BY PlaceProps
  <2>2. CASE n = k + 1
    BY <1>2, <1>3, <1>5, <2>1, <2>2
  <2>3. CASE n # k + 1
    <3>1. n \in 1..k
      BY <2>3
    <3> QED
      BY <1>2, <1>3, <1>4, <1>5, <2>1, <3>1
  <2> QED
    BY <2>2, <2>3
<1>7. u = Append(s, c)
  BY <1>3, <1>5, <1>6, SameSeq
<1> QED
  BY <1>7 DEF u, s, d

\* The backspace takes the last character, GETCH the first.
LEMMA EraseLine ==
    ASSUME NEW b \in [Index -> Code], NEW h \in Index, NEW t \in Index, h # t
    PROVE  LET s == LineOf(b, h, t)
           IN  /\ s # << >> /\ s[Len(s)] = b[Dec(h)]
               /\ LineOf(b, Dec(h), t) = SubSeq(s, 1, Len(s) - 1)
<1> DEFINE s == LineOf(b, h, t)
           u == LineOf(b, Dec(h), t)
<1>1. Dec(h) \in Index /\ Count(Dec(h), t) = Count(h, t) - 1 /\ Count(h, t) # 0
  BY Moves, CountProps
<1>3. /\ u \in Seq(Code) /\ Len(u) = Count(h, t) - 1
      /\ \A n \in 1..Count(h, t) - 1 : u[n] = b[Place(t, n)]
  <2>1. Holds(u, b, Dec(h), t)
    BY <1>1, LineType
  <2> HIDE DEF u
  <2> QED
    BY ONLY <1>1, <2>1 DEF Holds
<1>4. /\ s \in Seq(Code) /\ Len(s) = Count(h, t) /\ Count(h, t) \in Nat
      /\ \A n \in 1..Count(h, t) : s[n] = b[Place(t, n)]
  BY LineType DEF Holds
<1>5. Place(t, Count(h, t)) = Dec(h)
  <2>1. Count(h, t) \in 1..Count(Dec(h), t) + 1
    BY <1>1, <1>4
  <2>2. Count(h, t) = Count(Dec(h), t) + 1
    BY <1>1, <1>4
  <2> QED
    BY <1>1, <2>1, <2>2, PlaceProps
<1> HIDE DEF u, s
<1> PICK k \in Nat : k = Count(h, t)
  BY <1>4
<1>6. s # << >> /\ s[k] = b[Dec(h)]
  <2>1. k \in 1..k
    BY <1>1
  <2> QED
    BY <1>1, <1>4, <1>5, <2>1
<1>7. u = SubSeq(s, 1, Len(s) - 1)
  <2> DEFINE f == SubSeq(s, 1, Len(s) - 1)
  <2>1. f \in Seq(Code) /\ Len(f) = k - 1 /\ \A i \in 1..k - 1 : f[i] = s[i]
    BY <1>4, <1>6, ShrinkProps
  <2> HIDE DEF f
  <2>2. \A i \in 1..k - 1 : i \in 1..k
    OBVIOUS
  <2>3. u = f
    BY <1>3, <1>4, <2>1, <2>2, SameSeq
  <2> QED
    BY <2>3 DEF f
<1>8. s[Len(s)] = b[Dec(h)]
  BY <1>4, <1>6
<1> QED
  BY <1>6, <1>7, <1>8 DEF s, u

LEMMA GetLine ==
    ASSUME NEW b \in [Index -> Code], NEW h \in Index, NEW t \in Index, h # t
    PROVE  LET s == LineOf(b, h, t)
           IN  /\ s # << >> /\ Head(s) = b[t]
               /\ LineOf(b, h, Inc(t)) = Tail(s)
<1> DEFINE s == LineOf(b, h, t)
           u == LineOf(b, h, Inc(t))
<1>1. Inc(t) \in Index /\ Count(h, Inc(t)) = Count(h, t) - 1 /\ Count(h, t) # 0
  BY Moves, CountProps
<1>3. /\ u \in Seq(Code) /\ Len(u) = Count(h, t) - 1
      /\ \A n \in 1..Count(h, t) - 1 : u[n] = b[Place(Inc(t), n)]
  <2>1. Holds(u, b, h, Inc(t))
    BY <1>1, LineType
  <2> HIDE DEF u
  <2> QED
    BY ONLY <1>1, <2>1 DEF Holds
<1>4. /\ s \in Seq(Code) /\ Len(s) = Count(h, t) /\ Count(h, t) \in Nat
      /\ \A n \in 1..Count(h, t) : s[n] = b[Place(t, n)]
  BY LineType DEF Holds
<1>0. t \in Nat /\ t < N /\ N \in Nat /\ N >= 2
  BY SizeN DEF Index, N
<1>5. Place(t, 1) = t
  <2>1. 1 \in 1..Count(h, t) + 1
    BY <1>4
  <2> QED
    BY <1>0, <2>1, PlaceProps
<1>6. ASSUME NEW n \in 1..Count(h, t) - 1 PROVE Place(Inc(t), n) = Place(t, n + 1)
  <2>1. n + 1 \in 1..Count(h, t) + 1 /\ n \in 1..Count(h, Inc(t)) + 1 /\ n \in Nat
    BY <1>1, <1>4
  <2>2. Place(t, n + 1) = IF t + (n + 1) - 1 < N THEN t + (n + 1) - 1 ELSE t + (n + 1) - 1 - N
    BY <2>1, PlaceProps
  <2>3. Place(Inc(t), n) = IF Inc(t) + n - 1 < N THEN Inc(t) + n - 1 ELSE Inc(t) + n - 1 - N
    BY <1>1, <2>1, PlaceProps
  <2>4. Inc(t) = IF t = N - 1 THEN 0 ELSE t + 1
    BY Moves
  <2>5. Place(t, n + 1) \in Index /\ Place(Inc(t), n) \in Index
    BY <1>1, <2>1, PlaceProps
  <2>6. Count(h, t) <= N - 1
    BY CountProps, <1>0
  <2>7. n < N
    BY <1>0, <1>4, <2>1, <2>6
  <2> QED
    BY <1>0, <2>1, <2>2, <2>3, <2>4, <2>7
<1> HIDE DEF u, s
<1> PICK k \in Nat : k = Count(h, t)
  BY <1>4
<1>7. s # << >> /\ s[1] = b[t]
  <2>1. 1 \in 1..k
    BY <1>1
  <2> QED
    BY <1>1, <1>4, <1>5, <2>1
<1>8. Head(s) = s[1]
  BY <1>4, <1>7, ShrinkProps
<1>9. u = Tail(s)
  <2>1. Tail(s) \in Seq(Code) /\ Len(Tail(s)) = k - 1 /\ \A i \in 1..k - 1 : Tail(s)[i] = s[i + 1]
    BY <1>4, <1>7, ShrinkProps
  <2>2. \A i \in 1..k - 1 : i + 1 \in 1..k
    OBVIOUS
  <2>3. ASSUME NEW i \in 1..k - 1 PROVE u[i] = Tail(s)[i]
    <3>1. u[i] = b[Place(Inc(t), i)] /\ Place(Inc(t), i) = Place(t, i + 1)
      BY <1>3, <1>6
    <3>2. s[i + 1] = b[Place(t, i + 1)]
      BY <1>4, <2>2
    <3> QED
      BY ONLY <2>1, <3>1, <3>2
  <2> QED
    BY <1>3, <2>1, <2>3, SameSeq
<1> QED
  BY <1>7, <1>8, <1>9 DEF s, u

-----------------------------------------------------------------------------
(***************************************************************************)
(* Sequences: a new element at the end, in the place of the last, and none *)
(* there any more; and what the concatenations of Struck come to.          *)
(***************************************************************************)
LEMMA ReplaceProps ==
    ASSUME NEW S, NEW s \in Seq(S), s # << >>, NEW x \in S
    PROVE  LET r == [s EXCEPT ![Len(s)] = x]
           IN  /\ r \in Seq(S) /\ Len(r) = Len(s) /\ r[Len(s)] = x /\ r # << >>
               /\ \A i \in 1..Len(s) : i # Len(s) => r[i] = s[i]
<1>1. Len(s) \in Nat \ {0}
  OBVIOUS
<1> PICK k \in Nat \ {0} : k = Len(s)
  BY <1>1
<1>2. s \in [1..k -> S]
  OBVIOUS
<1> DEFINE r == [s EXCEPT ![k] = x]
<1>3. r \in [1..k -> S] /\ r[k] = x /\ \A i \in 1..k : i # k => r[i] = s[i]
  BY <1>2
<1> HIDE DEF r
<1>4. r \in Seq(S) /\ Len(r) = k
  BY <1>3
<1>5. r # << >>
  BY <1>4
<1> QED
  BY <1>3, <1>4, <1>5 DEF r

LEMMA ConcatProps ==
    ASSUME NEW S, NEW s \in Seq(S), NEW c \in S
    PROVE  /\ (<< >> \o s) \o << >> = s
           /\ (<< >> \o s) \o <<c>> = Append(s, c)
           /\ (<<c>> \o s) \o << >> # << >>
           /\ Head((<<c>> \o s) \o << >>) = c
           /\ Tail((<<c>> \o s) \o << >>) = s
           /\ s # << >> => (<<Head(s)>> \o Tail(s)) \o << >> = s
<1>1. (<< >> \o s) \o << >> = s
  OBVIOUS
<1>2. (<< >> \o s) \o <<c>> = Append(s, c)
  OBVIOUS
<1>3. ASSUME NEW d \in S, NEW r \in Seq(S)
      PROVE  /\ (<<d>> \o r) \o << >> \in Seq(S) /\ Len((<<d>> \o r) \o << >>) = Len(r) + 1
             /\ ((<<d>> \o r) \o << >>)[1] = d
             /\ \A i \in 1..Len(r) : ((<<d>> \o r) \o << >>)[i + 1] = r[i]
  OBVIOUS
<1> QED
  OBVIOUS

-----------------------------------------------------------------------------
(***************************************************************************)
(* The inductive invariant.  A read that goes on has got less than it asks *)
(* for, and no newline at the end.                                         *)
(***************************************************************************)
RingOK == buf \in [Index -> Code] /\ head \in Index /\ tail \in Index

HandlerTypes ==
    /\ scan \in Seq(Code) /\ Len(scan) < TTY_BUF_SIZE
    /\ frames \in Seq(FrameType) /\ Len(frames) <= MaxNest

TaskTypes ==
    /\ wait_proc \in Task \cup {NULL} /\ cpu \in Task \cup {NULL}
    /\ state \in [Task -> {"RUNNING", "INTERRUPTIBLE"}]
    /\ signal \in [Task -> BOOLEAN]
    /\ tmp \in [Task -> Task \cup {NULL}]
    /\ pc \in [Task -> {"user", "look", "sleep_if_empty", "asleep", "getch"}]

ReadTypes ==
    /\ nr \in [Task -> 0..MaxNr] /\ data \in [Task -> Seq(Code)]
    /\ \A t \in Task : Len(data[t]) <= MaxNr

GoesOn(t) ==
    /\ Len(data[t]) < nr[t]
    /\ data[t] = << >> \/ data[t][Len(data[t])] # NL

\* Unless the line is spoiled, no handler is cut, those that are interrupted
\* have no character in hand, and read_q has no more than one for each of them:
\* so it is never full, and empty when all have returned.
Orderly ==
    kept => /\ \A n \in 1..Len(frames) :
                  /\ frames[n].seen = {}
                  /\ n # Len(frames) => frames[n].at \in {"loop", "wake"}
            /\ Len(scan) + (IF At("struck") THEN 1 ELSE 0) <= Len(frames)

HasNL(s) == \E n \in 1..Len(s) : s[n] = NL

\* A handler has put a newline, and is to wake the readers.
Waking == \E n \in 1..Len(frames) : frames[n].at = "wake"

\* The sleepers' head runs while a line waits, or will.
Awake ==
    kept /\ HasNL(Line) /\ wait_proc # NULL => state[wait_proc] = "RUNNING" \/ Waking

TermInv ==
    /\ RingOK /\ HandlerTypes /\ TaskTypes /\ ReadTypes /\ kept \in BOOLEAN
    /\ \A t \in Task : pc[t] # "user" => GoesOn(t)
    /\ Orderly
    /\ Awake

LEMMA HasLineIs == RingOK => (HasLine <=> HasNL(Line))
<1> SUFFICES ASSUME RingOK PROVE HasLine <=> HasNL(Line)
  OBVIOUS
<1>1. Line = LineOf(buf, head, tail) /\ CHARS = Count(head, tail)
  BY LineIs
<1>2. Len(LineOf(buf, head, tail)) = Count(head, tail)
  BY LineType DEF RingOK, Holds
<1> HIDE DEF Line, CHARS
<1>3. Len(Line) = CHARS
  BY <1>1, <1>2
<1> QED
  BY <1>3 DEF HasLine, HasNL

LEMMA InvHolds == TermInv => LineAnnounced
<1> SUFFICES ASSUME TermInv PROVE LineAnnounced
  OBVIOUS
<1>1. TypeOK
  BY DEF TermInv, RingOK, HandlerTypes, TaskTypes, ReadTypes, TypeOK
<1>2. HasLine <=> HasNL(Line)
  BY HasLineIs DEF TermInv
<1> QED
  BY <1>1, <1>2 DEF LineAnnounced, TermInv, Awake, Waking

LEMMA InvInit == Init => TermInv
<1> SUFFICES ASSUME Init PROVE TermInv
  OBVIOUS
<1>1. 0 \in Index
  BY SizeN DEF Index, N
<1>2. RingOK
  BY <1>1 DEF Init, RingOK, Code
<1>3. TaskTypes
  BY DEF Init, TaskTypes
<1>4. ReadTypes
  BY TerminalAssumption DEF Init, ReadTypes
<1>5. HandlerTypes /\ Orderly
  <2>1. scan = << >> /\ frames = << >> /\ Len(<< >>) = 0
    BY DEF Init
  <2>2. << >> \in Seq(Code) /\ << >> \in Seq(FrameType)
    OBVIOUS
  <2>3. TTY_BUF_SIZE \in Nat /\ 0 < TTY_BUF_SIZE /\ MaxNest \in Nat
    BY TerminalAssumption
  <2>4. 1..0 = {}
    OBVIOUS
  <2> QED
    BY <2>1, <2>2, <2>3, <2>4 DEF HandlerTypes, Orderly, At
<1> QED
  BY <1>2, <1>3, <1>4, <1>5 DEF Init, TermInv, Awake

-----------------------------------------------------------------------------
(***************************************************************************)
(* What the steps do to the line.                                          *)
(***************************************************************************)
LEMMA LineNow ==
    /\ Line = LineOf(buf, head, tail)
    /\ Line' = LineOf(buf', head', tail')
  BY DEF Line, LineOf, CHARS, Count, Place, N

LEMMA RingNow ==
    ASSUME RingOK
    PROVE  /\ Line \in Seq(Code) /\ Len(Line) = Count(head, tail) /\ Len(Line) \in Nat
           /\ EMPTY <=> Line = << >>
           /\ FULL(head) <=> Count(head, tail) = N - 1
<1>1. Line \in Seq(Code) /\ Len(Line) = Count(head, tail) /\ Count(head, tail) \in Nat
  BY LineNow, LineType DEF RingOK, Holds
<1>2. EMPTY <=> Count(head, tail) = 0
  BY CountProps DEF RingOK, EMPTY
<1>3. FULL(head) <=> Count(head, tail) = N - 1
  BY CountProps DEF RingOK, FULL, N
<1> QED
  BY <1>1, <1>2, <1>3

LEMMA SameLine ==
    ASSUME UNCHANGED queue
    PROVE  Line' = Line /\ (RingOK => RingOK')
  BY LineNow DEF queue, RingOK

\* A character is put, by a handler that is not cut.
LEMMA PutStep ==
    ASSUME RingOK, NEW c \in Code, Heads = {head}, ~Cut, PutCh(c), ~FULL(head)
    PROVE  Line' = Append(Line, c)
<1>1. buf' = [buf EXCEPT ![head] = c] /\ head' = Inc(head) /\ tail' = tail
  BY DEF PutCh
<1>2. Count(head, tail) # N - 1
  BY RingNow
<1>3. LineOf([buf EXCEPT ![head] = c], Inc(head), tail) = Append(LineOf(buf, head, tail), c)
  BY <1>2, PutLine DEF RingOK
<1> QED
  BY <1>1, <1>3, LineNow

\* One is taken back.
LEMMA EraseStep ==
    ASSUME RingOK, kept', Heads = {head}, Erase
    PROVE  /\ kept' = kept
           /\ Line # << >> /\ Line[Len(Line)] # NL
           /\ Line' = SubSeq(Line, 1, Len(Line) - 1)
<1>1. head # tail /\ ~AfterLine(head) /\ head' = Dec(head) /\ buf' = buf /\ tail' = tail
  BY DEF Erase
<1>2. LET s == LineOf(buf, head, tail)
      IN  /\ s # << >> /\ s[Len(s)] = buf[Dec(head)]
          /\ LineOf(buf, Dec(head), tail) = SubSeq(s, 1, Len(s) - 1)
  BY <1>1, EraseLine DEF RingOK
<1>3. Line # << >> /\ Line[Len(Line)] = buf[Dec(head)] /\ Line' = SubSeq(Line, 1, Len(Line) - 1)
  BY <1>1, <1>2, LineNow
<1>4. kept /\ kept' = kept /\ (head = 0 => buf[TTY_BUF_SIZE - 1] # NL)
  BY DEF Erase
<1>5. buf[Dec(head)] # NL
  <2>1. Dec(head) = IF head = 0 THEN N - 1 ELSE head - 1
    BY Moves DEF RingOK
  <2> QED
    BY <1>1, <1>4, <2>1 DEF AfterLine, N
<1> QED
  BY <1>3, <1>4, <1>5

\* The backspace has no effect on an empty line, or after a newline.
LEMMA KeepStep ==
    ASSUME RingOK, Heads = {head}, KeepLine
    PROVE  Line = << >> \/ Line[Len(Line)] = NL
<1>1. CASE head = tail
  BY <1>1, RingNow DEF EMPTY
<1>2. CASE head # tail /\ AfterLine(head)
  <2>1. LET s == LineOf(buf, head, tail) IN s[Len(s)] = buf[Dec(head)]
    BY <1>2, EraseLine DEF RingOK
  <2>2. head # 0 /\ buf[head - 1] = NL
    BY <1>2 DEF AfterLine
  <2>3. Dec(head) = head - 1
    BY <2>2, Moves DEF RingOK
  <2> QED
    BY <2>1, <2>2, <2>3, LineNow
<1> QED
  BY <1>1, <1>2 DEF KeepLine

LEMMA TakeStep ==
    ASSUME RingOK, tail' = Inc(tail), UNCHANGED <<buf, head>>
    PROVE  /\ RingOK'
           /\ ~EMPTY => Line # << >> /\ buf[tail] = Head(Line) /\ Line' = Tail(Line)
<1>1. RingOK'
  BY Moves DEF RingOK
<1>2. ASSUME ~EMPTY PROVE Line # << >> /\ buf[tail] = Head(Line) /\ Line' = Tail(Line)
  <2>1. head # tail
    BY <1>2 DEF EMPTY
  <2>2. LET s == LineOf(buf, head, tail)
        IN  /\ s # << >> /\ Head(s) = buf[tail]
            /\ LineOf(buf, head, Inc(tail)) = Tail(s)
    BY <2>1, GetLine DEF RingOK
  <2> QED
    BY <2>2, LineNow
<1> QED
  BY <1>1, <1>2

\* No newline comes with another character, or by taking one away.
LEMMA NoNewline ==
    ASSUME NEW s \in Seq(Code)
    PROVE  /\ \A c \in Code : HasNL(Append(s, c)) => HasNL(s) \/ c = NL
           /\ s # << >> => /\ HasNL(Tail(s)) => HasNL(s)
                           /\ HasNL(SubSeq(s, 1, Len(s) - 1)) => HasNL(s)
           /\ s = << >> => ~HasNL(s)
<1>1. ASSUME NEW c \in Code, HasNL(Append(s, c)), c # NL PROVE HasNL(s)
  <2>1. /\ Len(Append(s, c)) = Len(s) + 1 /\ Len(s) \in Nat
        /\ Append(s, c)[Len(s) + 1] = c
        /\ \A i \in 1..Len(s) : Append(s, c)[i] = s[i]
    BY AppendProps
  <2>2. PICK n \in 1..Len(s) + 1 : Append(s, c)[n] = NL
    BY <1>1, <2>1 DEF HasNL
  <2>3. n \in 1..Len(s)
    BY <1>1, <2>1, <2>2
  <2> QED
    BY <2>1, <2>2, <2>3 DEF HasNL
<1>2. ASSUME s # << >> PROVE /\ HasNL(Tail(s)) => HasNL(s)
                             /\ HasNL(SubSeq(s, 1, Len(s) - 1)) => HasNL(s)
  <2> DEFINE f == SubSeq(s, 1, Len(s) - 1)
  <2>1. /\ Len(Tail(s)) = Len(s) - 1 /\ Len(s) \in Nat \ {0}
        /\ \A i \in 1..Len(s) - 1 : Tail(s)[i] = s[i + 1]
        /\ Len(f) = Len(s) - 1
        /\ \A i \in 1..Len(s) - 1 : f[i] = s[i]
    BY <1>2, ShrinkProps
  <2> HIDE DEF f
  <2>2. \A i \in 1..Len(s) - 1 : i \in 1..Len(s) /\ i + 1 \in 1..Len(s)
    BY <2>1
  <2>3. HasNL(Tail(s)) => HasNL(s)
    BY <2>1, <2>2 DEF HasNL
  <2>4. HasNL(f) => HasNL(s)
    BY <2>1, <2>2 DEF HasNL
  <2> QED
    BY <2>3, <2>4 DEF f
<1>3. s = << >> => ~HasNL(s)
  <2>1. s = << >> => 1..Len(s) = {}
    OBVIOUS
  <2> QED
    BY <2>1 DEF HasNL
<1> QED
  BY <1>1, <1>2, <1>3

-----------------------------------------------------------------------------
(***************************************************************************)
(* The steps.                                                              *)
(***************************************************************************)
\* A step that leaves the sleepers alone and brings no newline.
LEMMA QuietAwake ==
    ASSUME Awake, UNCHANGED <<wait_proc, state>>, kept' => kept,
           HasNL(Line') => HasNL(Line), Waking => Waking'
    PROVE  Awake'
  BY DEF Awake

LEMMA FramesStay ==
    ASSUME UNCHANGED <<scan, frames>>
    PROVE  /\ HandlerTypes => HandlerTypes'
           /\ Orderly /\ (kept' => kept) => Orderly'
           /\ Waking => Waking'
  BY DEF HandlerTypes, Orderly, Waking, At, Top

\* The handlers leave the tasks' places and their reads alone.
LEMMA TasksStay ==
    ASSUME TermInv, UNCHANGED tasks, kept' \in BOOLEAN, UNCHANGED tmp,
           wait_proc' \in Task \cup {NULL}, state' \in [Task -> {"RUNNING", "INTERRUPTIBLE"}],
           RingOK', HandlerTypes', Orderly', Awake'
    PROVE  TermInv'
<1>1. TaskTypes' /\ ReadTypes' /\ \A t \in Task : pc'[t] # "user" => GoesOn(t)'
  BY DEF TermInv, tasks, TaskTypes, ReadTypes, GoesOn
<1> QED
  BY <1>1 DEF TermInv

Place4 == {"struck", "loop", "switch", "wake"}

LEMMA FrameTyped ==
    ASSUME NEW at \in Place4, NEW ch \in Code
    PROVE  /\ Frame(at, ch) \in FrameType
           /\ Frame(at, ch).at = at /\ Frame(at, ch).ch = ch /\ Frame(at, ch).seen = {}
  BY DEF Frame, FrameType, Place4

LEMMA TopProps ==
    ASSUME TermInv, frames # << >>
    PROVE  /\ Len(frames) \in Nat \ {0} /\ Top \in FrameType
           /\ Top.ch \in Code /\ Heads \subseteq Index /\ NUL \in Code
           /\ kept => ~Cut /\ Heads = {head}
<1>1. frames \in Seq(FrameType) /\ head \in Index
  BY DEF TermInv, HandlerTypes, RingOK
<1>2. Len(frames) \in Nat \ {0} /\ Top \in FrameType
  BY <1>1 DEF Top
<1>3. Top.ch \in Code /\ Top.seen \subseteq Index
  BY <1>2 DEF FrameType
<1>4. ASSUME kept PROVE Top.seen = {}
  <2>1. Len(frames) \in 1..Len(frames)
    BY <1>2
  <2> QED
    BY <1>4, <2>1 DEF TermInv, Orderly, Top
<1> QED
  BY <1>1, <1>2, <1>3, <1>4 DEF Heads, Cut, Code

\* The innermost handler comes to another place.
LEMMA NowProps ==
    ASSUME TermInv, frames # << >>, NEW at \in Place4 \ {"struck"}, NEW ch \in Code,
           NowAt(at, ch)
    PROVE  /\ frames' \in Seq(FrameType) /\ Len(frames') = Len(frames)
           /\ Top' = Frame(at, ch) /\ frames' # << >>
           /\ \A p : At(p)' <=> p = at
           /\ ~At("wake") \/ at = "wake" => (Waking => Waking')
           /\ at = "wake" => Waking'
           /\ (kept' => kept) /\ (kept => Len(scan') <= Len(frames)) => Orderly'
<1> DEFINE f == Frame(at, ch)
           k == Len(frames)
<1>0. frames \in Seq(FrameType) /\ k \in Nat \ {0} /\ k \in 1..k
  BY TopProps DEF TermInv, HandlerTypes
<1>1. f \in FrameType /\ f.at = at /\ f.seen = {}
  BY FrameTyped
<1>2. frames' = [frames EXCEPT ![k] = f]
  BY DEF NowAt
<1> HIDE DEF f
<1>3. /\ frames' \in Seq(FrameType) /\ Len(frames') = k /\ frames'[k] = f /\ frames' # << >>
      /\ \A i \in 1..k : i # k => frames'[i] = frames[i]
  BY <1>0, <1>1, <1>2, ReplaceProps
<1> HIDE DEF k
<1>4. Top' = f
  BY <1>3 DEF Top
<1>5. \A p : At(p)' <=> p = at
  BY <1>1, <1>3, <1>4 DEF At
<1>6. ASSUME ~At("wake") \/ at = "wake", Waking PROVE Waking'
  <2>1. PICK n \in 1..k : frames[n].at = "wake"
    BY <1>6 DEF Waking, k
  <2>2. n # k \/ at = "wake"
    BY <1>6, <2>1 DEF At, Top, k
  <2>3. frames'[n].at = "wake"
    BY <1>1, <1>3, <2>1, <2>2
  <2> QED
    BY <1>3, <2>3 DEF Waking
<1>7. at = "wake" => Waking'
  BY <1>0, <1>1, <1>3 DEF Waking
<1>8. ASSUME kept', kept, Len(scan') <= k PROVE Orderly'
  <2>1. ~At("struck")'
    BY <1>5
  <2>2. Len(scan') + 0 <= k
    BY <1>8
  <2>3. ASSUME NEW n \in 1..k
        PROVE  frames'[n].seen = {} /\ (n # k => frames'[n].at \in {"loop", "wake"})
    <3>1. frames[n].seen = {} /\ (n # k => frames[n].at \in {"loop", "wake"})
      BY <1>8 DEF TermInv, Orderly, k
    <3> QED
      BY <1>1, <1>3, <3>1
  <2> QED
    BY <1>3, <2>1, <2>2, <2>3 DEF Orderly
<1> QED
  BY <1>3, <1>4, <1>5, <1>6, <1>7, <1>8 DEF f, k, Orderly

LEMMA StrikeStep ==
    ASSUME TermInv, NEW key \in Key, NEW cuts \in BOOLEAN, Strike(key, cuts)
    PROVE  TermInv'
<1> DEFINE f == Frame("struck", key)
           g == [Top EXCEPT !.seen = @ \cup {head}]
           s == IF cuts THEN [frames EXCEPT ![Len(frames)] = g] ELSE frames
           k == Len(frames)
<1>0. /\ HandlerTypes /\ RingOK /\ frames \in Seq(FrameType) /\ k \in Nat
      /\ k < MaxNest /\ MaxNest \in Nat /\ (cuts => frames # << >>)
  BY TerminalAssumption DEF TermInv, HandlerTypes, Strike
<1>1. f \in FrameType /\ f.at = "struck" /\ f.seen = {}
  BY FrameTyped DEF Place4, Code
<1>2. ASSUME cuts PROVE g \in FrameType /\ g.at = Top.at
  <2>1. Top \in FrameType /\ head \in Index
    BY <1>0, <1>2, TopProps DEF RingOK
  <2> QED
    BY <2>1 DEF FrameType
<1>3. frames' = Append(s, f)
  BY DEF Strike, Top
<1> HIDE DEF f, g
<1>4. /\ s \in Seq(FrameType) /\ Len(s) = k
      /\ \A i \in 1..k : s[i].at = frames[i].at
      /\ ~cuts => s = frames
  <2>1. CASE cuts
    <3>1. /\ s \in Seq(FrameType) /\ Len(s) = k /\ s[k] = g
          /\ \A i \in 1..k : i # k => s[i] = frames[i]
      BY <1>0, <1>2, <2>1, ReplaceProps
    <3>2. g.at = frames[k].at
      BY <1>2, <2>1 DEF Top
    <3> QED
      BY <2>1, <3>1, <3>2
  <2>2. CASE ~cuts
    BY <1>0, <2>2
  <2> QED
    BY <2>1, <2>2
<1> HIDE DEF s
<1>5. /\ frames' \in Seq(FrameType) /\ Len(frames') = k + 1 /\ frames'[k + 1] = f
      /\ \A i \in 1..k : frames'[i] = s[i]
  BY <1>1, <1>3, <1>4, AppendProps
<1>6. frames' # << >> /\ Top' = f
  BY <1>0, <1>5 DEF Top
<1> HIDE DEF k
<1>7. HandlerTypes'
  <2>1. scan' = scan /\ k + 1 <= MaxNest
    BY <1>0 DEF Strike
  <2> QED
    BY <1>0, <1>5, <2>1 DEF HandlerTypes
<1>8. Orderly'
  <2> SUFFICES ASSUME kept'
               PROVE  /\ \A n \in 1..k + 1 :
                            /\ frames'[n].seen = {}
                            /\ n # k + 1 => frames'[n].at \in {"loop", "wake"}
                      /\ Len(scan) + 1 <= k + 1
    BY <1>5 DEF Orderly, Strike, At
  <2>1. kept /\ ~cuts /\ (frames # << >> => Top.at \in {"loop", "wake"})
    BY <1>0 DEF Strike
  <2>2. \A n \in 1..k : frames[n].seen = {} /\ (n # k => frames[n].at \in {"loop", "wake"})
    BY <2>1 DEF TermInv, Orderly, k
  <2>3. Len(scan) <= k
    <3>1. ~At("struck")
      BY <2>1 DEF At
    <3>2. Len(scan) + 0 <= k
      BY <2>1, <3>1 DEF TermInv, Orderly, k
    <3> QED
      BY <1>0, <3>2 DEF HandlerTypes
  <2>4. ASSUME NEW n \in 1..k
        PROVE  frames'[n].seen = {} /\ frames'[n].at \in {"loop", "wake"}
    <3>1. frames'[n] = frames[n]
      BY <1>4, <1>5, <2>1
    <3>2. n = k => frames # << >> /\ frames[n] = Top
      BY <1>0 DEF Top, k
    <3> QED
      BY <2>1, <2>2, <3>1, <3>2
  <2>5. \A n \in 1..k + 1 : n # k + 1 => n \in 1..k
    BY <1>0
  <2>6. Len(scan) + 1 <= k + 1
    BY <1>0, <2>3 DEF HandlerTypes
  <2> QED
    BY <1>1, <1>5, <2>4, <2>5, <2>6
<1>9. RingOK' /\ Line' = Line
  BY <1>0, SameLine DEF Strike
<1>10. Awake'
  <2>1. ASSUME Waking PROVE Waking'
    <3>1. PICK n \in 1..k : frames[n].at = "wake"
      BY <2>1 DEF Waking, k
    <3>2. frames'[n].at = "wake" /\ n \in 1..k + 1
      BY <1>0, <1>4, <1>5, <3>1
    <3> QED
      BY <1>5, <3>2 DEF Waking
  <2> QED
    BY <1>9, <2>1, QuietAwake DEF TermInv, Strike, sleepers
<1> QED
  BY <1>7, <1>8, <1>9, <1>10, TasksStay DEF TermInv, TaskTypes, Strike, sleepers

\* A step of the innermost handler with read_q: its frame comes to another
\* place, and nothing else changes.
LEMMA ScanProps ==
    ASSUME TermInv, frames # << >>, NEW at \in Place4 \ {"struck", "wake"}, NEW ch \in Code,
           NowAt(at, ch), ~At("wake"), UNCHANGED <<queue, sleepers, tasks, kept>>,
           scan' \in Seq(Code), Len(scan') < TTY_BUF_SIZE,
           kept => Len(scan') <= Len(frames)
    PROVE  TermInv'
<1>0. /\ frames' \in Seq(FrameType) /\ Len(frames') = Len(frames)
      /\ (Waking => Waking') /\ Orderly'
  BY NowProps
<1>1. HandlerTypes'
  BY <1>0 DEF HandlerTypes, TermInv
<1>2. RingOK' /\ Line' = Line
  BY SameLine DEF TermInv
<1>3. Awake'
  BY <1>0, <1>2, QuietAwake DEF TermInv, sleepers
<1> QED
  BY <1>0, <1>1, <1>2, <1>3, TasksStay DEF TermInv, TaskTypes, sleepers

\* How much read_q holds, unless the line is spoiled.
LEMMA RoomProps ==
    ASSUME TermInv
    PROVE  /\ Len(scan) \in Nat /\ Len(frames) \in Nat
           /\ Len(frames) <= TTY_BUF_SIZE - 1 /\ TTY_BUF_SIZE \in Nat
           /\ kept => Len(scan) <= Len(frames)
           /\ kept /\ At("struck") => Len(scan) + 1 <= Len(frames)
<1>1. /\ Len(scan) \in Nat /\ Len(frames) \in Nat /\ Len(frames) <= MaxNest
      /\ MaxNest \in 1..TTY_BUF_SIZE - 1 /\ TTY_BUF_SIZE \in Nat
  BY TerminalAssumption DEF TermInv, HandlerTypes
<1>2. kept => Len(scan) + (IF At("struck") THEN 1 ELSE 0) <= Len(frames)
  BY DEF TermInv, Orderly
<1> QED
  BY <1>1, <1>2

LEMMA ContentProps ==
    ASSUME NEW s \in Content
    PROVE  s \in Seq(Code) /\ Len(s) < TTY_BUF_SIZE
<1> PICK n \in Index : s \in [1..n -> Code]
  BY DEF Content
<1>1. n \in Nat /\ n < TTY_BUF_SIZE
  BY SizeN DEF Index, N
<1> QED
  BY <1>1

LEMMA ScanStep ==
    ASSUME TermInv, Scan
    PROVE  /\ TermInv'
           /\ kept => scan' = Append(scan, Top.ch)
<1>1. frames # << >> /\ At("struck")
  BY DEF Scan, At
<1>2. Top.ch \in Code /\ NUL \in Code /\ (kept => ~Cut)
  BY <1>1, TopProps
<1>3. scan \in Seq(Code) /\ Len(scan) < TTY_BUF_SIZE
  BY DEF TermInv, HandlerTypes
<1>4. kept => scan' = Append(scan, Top.ch)
  <2>1. kept => Len(scan) # TTY_BUF_SIZE - 1
    BY <1>1, RoomProps
  <2> QED
    BY <1>2, <2>1 DEF Scan
<1>5. /\ Append(scan, Top.ch) \in Seq(Code) /\ Len(Append(scan, Top.ch)) = Len(scan) + 1
      /\ Len(scan) \in Nat
  BY <1>2, <1>3, AppendProps
<1>6. scan' \in Seq(Code) /\ Len(scan') < TTY_BUF_SIZE
  <2>1. CASE scan' \in Content
    BY <2>1, ContentProps
  <2>2. CASE scan' = << >>
    <3>1. << >> \in Seq(Code) /\ Len(<< >>) = 0
      OBVIOUS
    <3> QED
      BY <2>2, <3>1, SizeN DEF N
  <2>3. CASE Len(scan) # TTY_BUF_SIZE - 1 /\ scan' = Append(scan, Top.ch)
    BY <1>3, <1>5, <2>3, RoomProps
  <2> QED
    BY <2>1, <2>2, <2>3 DEF Scan
<1>7. kept => Len(scan') <= Len(frames)
  BY <1>1, <1>4, <1>5, RoomProps
<1>8. NowAt("loop", NUL) /\ ~At("wake") /\ "loop" \in Place4 \ {"struck", "wake"}
  BY DEF Scan, At, Place4
<1>9. UNCHANGED <<queue, sleepers, tasks, kept>>
  BY DEF Scan
<1> QED
  BY <1>1, <1>2, <1>4, <1>6, <1>7, <1>8, <1>9, ScanProps

LEMMA LoopStep ==
    ASSUME TermInv, Loop
    PROVE  /\ TermInv'
           /\ kept => /\ scan # << >> /\ scan' = Tail(scan)
                      /\ NowAt("switch", Head(scan))
<1>1. frames # << >> /\ At("loop")
  BY DEF Loop, At
<1>2. kept => ~Cut
  BY <1>1, TopProps
<1>3. scan \in Seq(Code) /\ Len(scan) < TTY_BUF_SIZE /\ Len(scan) \in Nat
  BY DEF TermInv, HandlerTypes
<1>4. kept => scan # << >> /\ scan' = Tail(scan) /\ NowAt("switch", Head(scan))
  BY <1>2 DEF Loop
<1>5. ASSUME scan # << >>
      PROVE  /\ Tail(scan) \in Seq(Code) /\ Len(Tail(scan)) = Len(scan) - 1
             /\ Head(scan) \in Code
  BY <1>3, <1>5
<1>6. scan' \in Seq(Code) /\ Len(scan') < TTY_BUF_SIZE
  <2>1. CASE Cut
    BY <2>1, ContentProps DEF Loop
  <2>2. CASE ~Cut
    BY <1>3, <1>5, <2>2, SizeN DEF Loop, N
  <2> QED
    BY <2>1, <2>2
<1>7. kept => Len(scan') <= Len(frames)
  BY <1>3, <1>4, <1>5, RoomProps
<1>8. PICK ch \in Code : NowAt("switch", ch)
  BY <1>5 DEF Loop
<1>9. UNCHANGED <<queue, sleepers, tasks, kept>>
  BY DEF Loop
<1>10. ~At("wake") /\ "switch" \in Place4 \ {"struck", "wake"}
  BY <1>1 DEF At, Place4
<1> QED
  BY <1>1, <1>4, <1>6, <1>7, <1>8, <1>9, <1>10, ScanProps

LEMMA ReturnStep ==
    ASSUME TermInv, Return
    PROVE  /\ TermInv'
           /\ kept => scan = << >> /\ ~At("struck")' /\ ~At("switch")'
<1> DEFINE k == Len(frames)
<1>0. /\ frames # << >> /\ At("loop") /\ UNCHANGED <<scan, queue, sleepers, tasks, kept>>
      /\ frames' = SubSeq(frames, 1, Len(frames) - 1)
  BY DEF Return, At, Front
<1>1. /\ frames \in Seq(FrameType) /\ k \in Nat \ {0} /\ k <= MaxNest
      /\ (kept => ~Cut) /\ MaxNest \in Nat
  BY <1>0, TopProps, TerminalAssumption DEF TermInv, HandlerTypes
<1>2. /\ frames' \in Seq(FrameType) /\ Len(frames') = k - 1
      /\ \A i \in 1..k - 1 : frames'[i] = frames[i]
  BY <1>0, <1>1, ShrinkProps
<1>3. kept => scan = << >>
  BY <1>1 DEF Return
<1> HIDE DEF k
<1>4. HandlerTypes'
  BY <1>0, <1>1, <1>2 DEF TermInv, HandlerTypes
<1>5. ASSUME kept, NEW n \in 1..k - 1
      PROVE  frames'[n].seen = {} /\ frames'[n].at \in {"loop", "wake"}
  <2>1. n \in 1..k /\ n # k
    BY <1>1
  <2> QED
    BY <1>2, <1>5, <2>1 DEF TermInv, Orderly, k
<1>6. ASSUME kept PROVE ~At("struck")' /\ ~At("switch")'
  <2>1. CASE frames' = << >>
    BY <2>1 DEF At
  <2>2. CASE frames' # << >>
    <3>1. k - 1 \in 1..k - 1
      <4>1. Len(frames') # 0
        BY <1>2, <2>2
      <4> QED
        BY <1>1, <1>2, <4>1
    <3>2. Top'.at \in {"loop", "wake"}
      BY <1>2, <1>5, <1>6, <3>1 DEF Top
    <3> QED
      BY <3>2 DEF At
  <2> QED
    BY <2>1, <2>2
<1>7. Orderly'
  <2> SUFFICES ASSUME kept'
               PROVE  /\ \A n \in 1..k - 1 :
                            /\ frames'[n].seen = {}
                            /\ n # k - 1 => frames'[n].at \in {"loop", "wake"}
                      /\ Len(scan') + (IF At("struck")' THEN 1 ELSE 0) <= k - 1
    BY <1>2 DEF Orderly
  <2>1. kept
    BY <1>0
  <2>2. scan' = << >> /\ ~At("struck")' /\ Len(<< >>) = 0
    BY <1>0, <1>3, <1>6, <2>1
  <2>3. Len(scan') + (IF At("struck")' THEN 1 ELSE 0) <= k - 1
    BY <1>1, <2>2
  <2> QED
    BY <1>5, <2>1, <2>3
<1>8. RingOK' /\ Line' = Line
  BY <1>0, SameLine DEF TermInv
<1>9. Awake'
  <2>1. ASSUME Waking PROVE Waking'
    <3>1. PICK n \in 1..k : frames[n].at = "wake"
      BY <2>1 DEF Waking, k
    <3>2. n # k
      BY <1>0, <3>1 DEF At, Top, k
    <3>3. n \in 1..k - 1
      BY <1>1, <3>2
    <3>4. frames'[n].at = "wake"
      BY <1>2, <3>1, <3>3
    <3> QED
      BY <1>2, <3>3, <3>4 DEF Waking
  <2> QED
    BY <1>0, <1>8, <2>1, QuietAwake DEF TermInv, sleepers
<1> QED
  BY <1>0, <1>3, <1>4, <1>6, <1>7, <1>8, <1>9, TasksStay DEF TermInv, TaskTypes, sleepers

\* A step of the innermost handler on `buffer'.
LEMMA BufferProps ==
    ASSUME TermInv, frames # << >>, NEW at \in Place4 \ {"struck"}, NEW ch \in Code,
           NowAt(at, ch), ~At("wake"), ~At("struck"), UNCHANGED <<scan, sleepers, tasks>>,
           RingOK', kept' \in BOOLEAN, kept' => kept,
           kept' /\ HasNL(Line') => HasNL(Line) \/ at = "wake"
    PROVE  TermInv'
<1>0. /\ frames' \in Seq(FrameType) /\ Len(frames') = Len(frames)
      /\ (Waking => Waking') /\ (at = "wake" => Waking')
      /\ (kept => Len(scan') <= Len(frames)) => Orderly'
  BY NowProps
<1>1. HandlerTypes' /\ Orderly'
  BY <1>0, RoomProps DEF HandlerTypes, TermInv
<1>2. Awake'
  BY <1>0 DEF Awake, TermInv, sleepers
<1> QED
  BY <1>1, <1>2, TasksStay DEF TermInv, TaskTypes, sleepers

LEMMA PutRing ==
    ASSUME RingOK, NEW c \in Code, Heads \subseteq Index, PutCh(c)
    PROVE  RingOK'
<1>1. PICK h \in Heads : head' = Inc(h)
  BY DEF PutCh
<1>2. PICK i \in Heads : buf' \in {[buf EXCEPT ![i] = c], buf}
  BY DEF PutCh
<1>3. head' \in Index
  BY <1>1, Moves DEF RingOK
<1>4. buf' \in [Index -> Code]
  BY <1>2 DEF RingOK
<1>5. tail' = tail
  BY DEF PutCh
<1> QED
  BY <1>3, <1>4, <1>5 DEF RingOK

LEMMA PutsStep ==
    ASSUME TermInv, Put
    PROVE  /\ TermInv'
           /\ kept => Top.ch \notin {NL, BS} /\ ~FULL(head) /\ Line' = Append(Line, Top.ch)
<1>1. frames # << >> /\ Ordinary /\ NowAt("loop", NUL) /\ PutCh(Top.ch)
      /\ UNCHANGED <<scan, sleepers, tasks, kept>>
  BY DEF Put, Ordinary, At
<1>2. /\ RingOK /\ Top.ch \in Code /\ NUL \in Code /\ Top.ch # NL /\ Heads \subseteq Index
      /\ kept => ~Cut /\ Heads = {head}
  BY <1>1, TopProps DEF TermInv, Ordinary
<1>3. kept => Top.ch \notin {NL, BS} /\ ~FULL(head)
  BY <1>1, <1>2 DEF Put, Ordinary
<1>4. kept => Line' = Append(Line, Top.ch)
  BY <1>1, <1>2, <1>3, PutStep
<1>5. RingOK'
  BY <1>1, <1>2, PutRing
<1>6. kept' /\ HasNL(Line') => HasNL(Line)
  BY <1>1, <1>2, <1>4, NoNewline, RingNow
<1>7. "loop" \in Place4 \ {"struck"} /\ ~At("wake") /\ ~At("struck")
  BY <1>1 DEF Place4, Ordinary, At
<1>8. TermInv'
  BY <1>1, <1>2, <1>5, <1>6, <1>7, BufferProps DEF TermInv
<1> QED
  BY <1>3, <1>4, <1>8

LEMMA DropStep ==
    ASSUME TermInv, Drop
    PROVE  /\ TermInv'
           /\ kept => Top.ch \notin {NL, BS} /\ FULL(head)
<1>1. frames # << >> /\ Ordinary /\ NowAt("loop", NUL)
      /\ UNCHANGED <<scan, queue, sleepers, tasks, kept>>
  BY DEF Drop, Ordinary, At
<1>2. kept => Top.ch \notin {NL, BS} /\ FULL(head)
  BY <1>1, TopProps DEF Drop, Ordinary
<1>3. RingOK' /\ Line' = Line
  BY <1>1, SameLine DEF TermInv
<1>4. "loop" \in Place4 \ {"struck"} /\ ~At("wake") /\ ~At("struck") /\ NUL \in Code
  BY <1>1 DEF Place4, Ordinary, At, Code
<1>5. TermInv'
  BY <1>1, <1>3, <1>4, BufferProps DEF TermInv
<1> QED
  BY <1>2, <1>5

LEMMA NewlineStep ==
    ASSUME TermInv, Newline
    PROVE  /\ TermInv'
           /\ kept' => kept /\ Top.ch = NL /\ ~FULL(head) /\ Line' = Append(Line, NL)
<1>1. frames # << >> /\ At("switch") /\ Top.ch = NL /\ NowAt("wake", NUL) /\ PutCh(NL)
      /\ UNCHANGED <<scan, sleepers, tasks>> /\ kept' = (kept /\ ~FULL(head))
  BY DEF Newline, At
<1>2. /\ RingOK /\ NL \in Code /\ NUL \in Code /\ Heads \subseteq Index
      /\ kept => ~Cut /\ Heads = {head}
  BY <1>1, TopProps DEF TermInv, Code, Key
<1>3. kept' => Line' = Append(Line, NL)
  BY <1>1, <1>2, PutStep
<1>4. RingOK'
  BY <1>1, <1>2, PutRing
<1>5. "wake" \in Place4 \ {"struck"} /\ ~At("wake") /\ ~At("struck")
  BY <1>1 DEF Place4, At
<1>6. TermInv'
  BY <1>1, <1>2, <1>4, <1>5, BufferProps DEF TermInv
<1> QED
  BY <1>1, <1>3, <1>6

LEMMA ErasedStep ==
    ASSUME TermInv, Erase
    PROVE  /\ TermInv'
           /\ kept' => /\ kept /\ Top.ch = BS /\ Line # << >> /\ Line[Len(Line)] # NL
                       /\ Line' = SubSeq(Line, 1, Len(Line) - 1)
<1>1. /\ frames # << >> /\ At("switch") /\ Top.ch = BS /\ NowAt("loop", NUL)
      /\ UNCHANGED <<scan, buf, tail, sleepers, tasks>> /\ (kept' => kept) /\ kept' \in BOOLEAN
  BY DEF Erase, At, TermInv
<1>2. /\ RingOK /\ NUL \in Code /\ Heads \subseteq Index
      /\ kept => Heads = {head}
  BY <1>1, TopProps DEF TermInv
<1>3. kept' => /\ Line # << >> /\ Line[Len(Line)] # NL
               /\ Line' = SubSeq(Line, 1, Len(Line) - 1)
  BY <1>1, <1>2, EraseStep
<1>4. RingOK'
  <2>1. PICK h \in Heads : head' = Dec(h)
    BY DEF Erase
  <2>2. head' \in Index
    BY <1>2, <2>1, Moves DEF RingOK
  <2> QED
    BY <1>1, <1>2, <2>2 DEF RingOK
<1>5. kept' /\ HasNL(Line') => HasNL(Line)
  BY <1>2, <1>3, NoNewline, RingNow
<1>6. "loop" \in Place4 \ {"struck"} /\ ~At("wake") /\ ~At("struck")
  BY <1>1 DEF Place4, At
<1>7. TermInv'
  BY <1>1, <1>2, <1>4, <1>5, <1>6, BufferProps
<1> QED
  BY <1>1, <1>3, <1>7

LEMMA KeptStep ==
    ASSUME TermInv, KeepLine
    PROVE  /\ TermInv'
           /\ kept => Top.ch = BS /\ (Line = << >> \/ Line[Len(Line)] = NL)
<1>1. /\ frames # << >> /\ At("switch") /\ Top.ch = BS /\ NowAt("loop", NUL)
      /\ UNCHANGED <<scan, queue, sleepers, tasks, kept>>
  BY DEF KeepLine, At
<1>2. RingOK /\ NUL \in Code /\ (kept => Heads = {head})
  BY <1>1, TopProps DEF TermInv
<1>3. kept => Line = << >> \/ Line[Len(Line)] = NL
  BY <1>2, KeepStep
<1>4. RingOK' /\ Line' = Line
  BY <1>1, <1>2, SameLine
<1>5. "loop" \in Place4 \ {"struck"} /\ ~At("wake") /\ ~At("struck")
  BY <1>1 DEF Place4, At
<1>6. TermInv'
  BY <1>1, <1>2, <1>4, <1>5, BufferProps DEF TermInv
<1> QED
  BY <1>1, <1>3, <1>6

LEMMA ReadyTypes ==
    ASSUME TaskTypes, NEW t \in Task \cup {NULL}
    PROVE  /\ Ready(t) \in [Task -> {"RUNNING", "INTERRUPTIBLE"}]
           /\ t # NULL => Ready(t)[t] = "RUNNING"
           /\ \A u \in Task : state[u] = "RUNNING" => Ready(t)[u] = "RUNNING"
  BY DEF TaskTypes, Ready

LEMMA WakeUpStep ==
    ASSUME TermInv, Wake
    PROVE  TermInv'
<1>1. /\ frames # << >> /\ At("wake") /\ NowAt("loop", NUL)
      /\ UNCHANGED <<scan, queue, tmp, tasks, kept>>
      /\ wait_proc' = NULL /\ state' = Ready(wait_proc)
  BY DEF Wake, At
<1>2. NUL \in Code /\ "loop" \in Place4 \ {"struck"}
  BY DEF Place4, Code
<1>3. frames' \in Seq(FrameType) /\ Len(frames') = Len(frames)
      /\ ((kept => Len(scan') <= Len(frames)) => Orderly')
  BY <1>1, <1>2, NowProps
<1>4. HandlerTypes' /\ Orderly'
  BY <1>1, <1>3, RoomProps DEF TermInv, HandlerTypes
<1>5. RingOK'
  BY <1>1, SameLine DEF TermInv
<1>6. state' \in [Task -> {"RUNNING", "INTERRUPTIBLE"}]
  BY <1>1, ReadyTypes DEF TermInv, TaskTypes
<1>7. Awake'
  BY <1>1 DEF Awake
<1> QED
  BY <1>1, <1>4, <1>5, <1>6, <1>7, TasksStay DEF TermInv

LEMMA BeginStep ==
    ASSUME TermInv, NEW t \in Task, NEW n \in 1..MaxNr, Read(t, n)
    PROVE  TermInv'
<1>0. HandlerTypes' /\ Orderly' /\ (Waking => Waking')
  BY FramesStay DEF TermInv, Read, handlers
<1>1. RingOK' /\ Line' = Line
  BY SameLine DEF Read, TermInv
<1>2. Awake'
  BY <1>0, <1>1, QuietAwake DEF TermInv, Read, sleepers
<1>3. TaskTypes'
  BY DEF TermInv, Read, Goto, sleepers, TaskTypes
<1>4. /\ nr' \in [Task -> 0..MaxNr] /\ data' \in [Task -> Seq(Code)]
      /\ nr'[t] = n /\ data'[t] = << >> /\ pc'[t] # "user"
      /\ \A u \in Task : u # t => nr'[u] = nr[u] /\ data'[u] = data[u] /\ pc'[u] = pc[u]
  BY DEF TermInv, Read, Goto, TaskTypes, ReadTypes
<1>5. Len(<< >>) = 0 /\ n > 0 /\ n \in Nat /\ MaxNr \in Nat
  BY TerminalAssumption
<1>6. ReadTypes'
  <2>1. \A u \in Task : Len(data[u]) <= MaxNr
    BY DEF TermInv, ReadTypes
  <2>2. \A u \in Task : Len(data'[u]) <= MaxNr
    <3> TAKE u \in Task
    <3>1. CASE u = t
      <4>1. Len(data'[u]) = 0
        BY ONLY <1>4, <1>5, <3>1
      <4> QED
        BY ONLY <1>5, <4>1
    <3>2. CASE u # t
      BY ONLY <1>4, <2>1, <3>2
    <3> QED
      BY <3>1, <3>2
  <2> QED
    BY <1>4, <2>2 DEF ReadTypes
<1>7. \A u \in Task : pc'[u] # "user" => GoesOn(u)'
  BY <1>4, <1>5 DEF TermInv, GoesOn
<1> QED
  BY <1>0, <1>1, <1>2, <1>3, <1>6, <1>7 DEF TermInv, Read

LEMMA LookStep ==
    ASSUME TermInv, NEW t \in Task, Look(t)
    PROVE  TermInv'
<1>0. HandlerTypes' /\ Orderly' /\ (Waking => Waking')
  BY FramesStay DEF TermInv, Look, handlers
<1>1. RingOK' /\ Line' = Line
  BY SameLine DEF Look, TermInv
<1>2. Awake'
  BY <1>0, <1>1, QuietAwake DEF TermInv, Look, sleepers
<1>3. TaskTypes'
  BY DEF TermInv, Look, Runs, Goto, sleepers, TaskTypes
<1>4. \A u \in Task : pc'[u] # "user" => GoesOn(u)'
  BY DEF TermInv, Look, Runs, Goto, GoesOn, TaskTypes
<1> QED
  BY <1>0, <1>1, <1>2, <1>3, <1>4 DEF TermInv, Look, ReadTypes

\* The loop of sleep_if_empty().  The head h it puts back, unless it is NULL,
\* is running.
LEMMA UntilLineStep ==
    ASSUME TermInv, NEW t \in Task, pc[t] # "user",
           NEW h \in Task \cup {NULL}, NEW st \in [Task -> {"RUNNING", "INTERRUPTIBLE"}],
           kept /\ HasNL(Line) /\ h # NULL => st[h] = "RUNNING" \/ Waking,
           UntilLine(t, h, st), UNCHANGED <<handlers, queue, signal, nr, data, kept>>
    PROVE  TermInv'
<1>0. HandlerTypes' /\ Orderly' /\ (Waking => Waking')
  BY FramesStay DEF TermInv, handlers
<1>1. RingOK' /\ Line' = Line /\ RingOK
  BY SameLine DEF TermInv
<1>2. CASE EMPTY /\ SleepOn(t, h, st)
  <2>1. ~HasNL(Line')
    BY <1>1, <1>2, RingNow, NoNewline
  <2>2. TaskTypes'
    BY <1>2 DEF TermInv, SleepOn, TaskTypes
  <2>3. \A u \in Task : pc'[u] # "user" => GoesOn(u)'
    BY <1>2 DEF TermInv, SleepOn, GoesOn, TaskTypes
  <2> QED
    BY <1>0, <1>1, <2>1, <2>2, <2>3 DEF TermInv, Awake, ReadTypes
<1>3. CASE wait_proc' = h /\ state' = st /\ Goto(t, "getch") /\ UNCHANGED tmp
  <2>1. Awake'
    BY <1>0, <1>1, <1>3 DEF Awake
  <2>2. TaskTypes'
    BY <1>3 DEF TermInv, Goto, TaskTypes
  <2>3. \A u \in Task : pc'[u] # "user" => GoesOn(u)'
    BY <1>3 DEF TermInv, Goto, GoesOn, TaskTypes
  <2> QED
    BY <1>0, <1>1, <2>1, <2>2, <2>3 DEF TermInv, ReadTypes
<1> QED
  BY <1>2, <1>3 DEF UntilLine

LEMMA SleepStep ==
    ASSUME TermInv, NEW t \in Task, SleepIfEmpty(t)
    PROVE  TermInv'
<1>1. /\ wait_proc \in Task \cup {NULL} /\ state \in [Task -> {"RUNNING", "INTERRUPTIBLE"}]
      /\ kept /\ HasNL(Line) /\ wait_proc # NULL => state[wait_proc] = "RUNNING" \/ Waking
  BY DEF TermInv, TaskTypes, Awake
<1> QED
  BY <1>1, UntilLineStep DEF SleepIfEmpty, Runs

LEMMA ResumeStep ==
    ASSUME TermInv, NEW t \in Task, Resume(t)
    PROVE  TermInv'
<1>0. HandlerTypes' /\ Orderly' /\ (Waking => Waking')
  BY FramesStay DEF TermInv, Resume, handlers
<1>1. CASE GivesWay(t)
  <2>1. RingOK' /\ Line' = Line
    BY SameLine DEF Resume, TermInv
  <2>2. wait_proc \in Task /\ wait_proc # t /\ wait_proc' = wait_proc
    BY <1>1 DEF GivesWay, TermInv, TaskTypes
  <2>3. state' = [state EXCEPT ![wait_proc] = "RUNNING", ![t] = "INTERRUPTIBLE"]
        /\ state \in [Task -> {"RUNNING", "INTERRUPTIBLE"}]
    BY <1>1 DEF GivesWay, TermInv, TaskTypes
  <2>4. state' \in [Task -> {"RUNNING", "INTERRUPTIBLE"}] /\ state'[wait_proc] = "RUNNING"
    BY <2>2, <2>3
  <2>5. Awake'
    BY <2>2, <2>4 DEF Awake
  <2>6. TaskTypes'
    BY <1>1, <2>4 DEF GivesWay, Resume, TermInv, TaskTypes
  <2> QED
    BY <1>0, <1>1, <2>1, <2>5, <2>6 DEF TermInv, GivesWay, Resume, ReadTypes, GoesOn
<1>2. CASE UntilLine(t, tmp[t], Ready(tmp[t]))
  <2>1. pc[t] # "user" /\ UNCHANGED <<handlers, queue, signal, nr, data, kept>>
    BY DEF Resume
  <2>2. tmp[t] \in Task \cup {NULL}
    BY DEF TermInv, TaskTypes
  <2>3. /\ Ready(tmp[t]) \in [Task -> {"RUNNING", "INTERRUPTIBLE"}]
        /\ tmp[t] # NULL => Ready(tmp[t])[tmp[t]] = "RUNNING"
    BY <2>2, ReadyTypes DEF TermInv
  <2> QED
    BY <1>2, <2>1, <2>2, <2>3, UntilLineStep
<1> QED
  BY <1>1, <1>2 DEF Resume

LEMMA GetChStep ==
    ASSUME TermInv, NEW t \in Task, GetCh(t)
    PROVE  TermInv'
<1> DEFINE ch  == buf[tail]
           len == Len(data[t]) + 1
           d   == Append(data[t], ch)
<1>a. HandlerTypes' /\ Orderly' /\ (Waking => Waking')
  BY FramesStay DEF TermInv, GetCh, handlers
<1>0. RingOK /\ TaskTypes /\ ReadTypes /\ Awake /\ kept \in BOOLEAN /\ MaxNr \in Nat
  BY TerminalAssumption DEF TermInv
<1>1. /\ RingOK' /\ (~EMPTY => Line # << >> /\ Line' = Tail(Line))
  BY <1>0, TakeStep DEF GetCh
<1>2. Awake'
  <2>1. CASE EMPTY
    BY <2>1 DEF GetCh, Awake
  <2>2. CASE ~EMPTY
    <3>1. HasNL(Line') => HasNL(Line)
      BY <1>0, <1>1, <2>2, NoNewline, RingNow
    <3> QED
      BY <1>0, <1>a, <3>1, QuietAwake DEF GetCh, sleepers
  <2> QED
    BY <2>1, <2>2
<1>3. TaskTypes'
  BY <1>0 DEF GetCh, Runs, Goto, sleepers, TaskTypes
<1>4. /\ data[t] \in Seq(Code) /\ nr[t] \in 0..MaxNr /\ ch \in Code
      /\ Len(data[t]) < nr[t]
  BY <1>0 DEF GetCh, Runs, TermInv, ReadTypes, GoesOn, RingOK
<1>5. /\ d \in Seq(Code) /\ Len(d) = len /\ d[len] = ch /\ len \in Nat
  BY <1>4, AppendProps
<1>6. /\ data' = [data EXCEPT ![t] = d]
      /\ \/ nr' = [nr EXCEPT ![t] = 0] /\ pc' = [pc EXCEPT ![t] = "user"]
         \/ ch # NL /\ len # nr[t] /\ nr' = nr /\ pc' = [pc EXCEPT ![t] = "look"]
  BY <1>0 DEF GetCh, Runs, Goto, ReadTypes
<1> HIDE DEF ch, len, d
<1>7. /\ data' \in [Task -> Seq(Code)] /\ data'[t] = d
      /\ \A u \in Task : u # t => data'[u] = data[u] /\ nr'[u] = nr[u] /\ pc'[u] = pc[u]
      /\ nr' \in [Task -> 0..MaxNr]
      /\ pc'[t] = "user" \/ (ch # NL /\ len # nr[t] /\ nr'[t] = nr[t])
  <2>1. /\ data \in [Task -> Seq(Code)] /\ nr \in [Task -> 0..MaxNr]
        /\ pc \in [Task -> {"user", "look", "sleep_if_empty", "asleep", "getch"}]
        /\ 0 \in 0..MaxNr
    BY <1>0 DEF ReadTypes, TaskTypes
  <2>2. data' \in [Task -> Seq(Code)] /\ data'[t] = d
    BY <1>5, <1>6, <2>1
  <2>3. \A u \in Task : u # t => data'[u] = data[u] /\ nr'[u] = nr[u] /\ pc'[u] = pc[u]
    BY <1>6, <2>1
  <2>4. nr' \in [Task -> 0..MaxNr]
    BY <1>6, <2>1
  <2>5. pc'[t] = "user" \/ (ch # NL /\ len # nr[t] /\ nr'[t] = nr[t])
    BY <1>6, <2>1
  <2> QED
    BY <2>2, <2>3, <2>4, <2>5
<1>8. len <= nr[t] /\ len <= MaxNr
  BY <1>0, <1>4 DEF len
<1>9. ReadTypes'
  BY <1>0, <1>5, <1>7, <1>8 DEF ReadTypes
<1>10. \A u \in Task : pc'[u] # "user" => GoesOn(u)'
  <2> TAKE u \in Task
  <2> HAVE pc'[u] # "user"
  <2>1. CASE u = t
    <3>1. Len(data'[t]) < nr'[t]
      BY <1>4, <1>5, <1>7, <1>8, <2>1
    <3> QED
      BY <1>5, <1>7, <2>1, <3>1 DEF GoesOn
  <2>2. CASE u # t
    BY <1>7, <2>2 DEF GoesOn, TermInv
  <2> QED
    BY <2>1, <2>2
<1>11. kept' \in BOOLEAN
  BY <1>0 DEF GetCh
<1> QED
  BY <1>a, <1>1, <1>2, <1>3, <1>9, <1>10, <1>11 DEF TermInv

LEMMA SignalStep ==
    ASSUME TermInv, NEW t \in Task, Signal(t) \/ Deliver(t)
    PROVE  TermInv'
<1>0. UNCHANGED <<handlers, queue, sleepers, pc, nr, data, cpu, kept>>
      /\ signal' \in [Task -> BOOLEAN]
  BY DEF Signal, Deliver, TermInv, TaskTypes
<1>1. RingOK' /\ Line' = Line
  BY <1>0, SameLine DEF TermInv
<1>3. HandlerTypes' /\ Orderly' /\ (Waking => Waking')
  BY <1>0, FramesStay DEF TermInv, handlers
<1>2. Awake'
  BY <1>0, <1>1, <1>3, QuietAwake DEF TermInv, sleepers
<1> QED
  BY <1>0, <1>1, <1>2, <1>3 DEF TermInv, sleepers, TaskTypes, ReadTypes, GoesOn

LEMMA SignalledStep ==
    ASSUME TermInv, NEW t \in Task, WakeSignalled(t)
    PROVE  TermInv'
<1>1. RingOK' /\ Line' = Line
  BY SameLine DEF TermInv, WakeSignalled
<1>2. HandlerTypes' /\ Orderly' /\ (Waking => Waking')
  BY FramesStay DEF TermInv, WakeSignalled, handlers
<1>3. Awake'
  BY <1>1, <1>2 DEF TermInv, Awake, WakeSignalled, TaskTypes
<1> QED
  BY <1>1, <1>2, <1>3 DEF TermInv, WakeSignalled, TaskTypes, ReadTypes, GoesOn

-----------------------------------------------------------------------------
LEMMA HandlerStepInv == TermInv /\ HandlerStep => TermInv'
  BY ScanStep, LoopStep, ReturnStep, PutsStep, DropStep, NewlineStep, WakeUpStep,
     ErasedStep, KeptStep DEF HandlerStep

LEMMA InvNext == TermInv /\ [Next]_vars => TermInv'
<1> SUFFICES ASSUME TermInv, [Next]_vars PROVE TermInv'
  OBVIOUS
<1>1. CASE UNCHANGED vars
  <2>1. RingOK' /\ Line' = Line
    BY <1>1, SameLine DEF TermInv, vars
  <2>2. HandlerTypes' /\ Orderly' /\ (Waking => Waking')
    BY <1>1, FramesStay DEF TermInv, vars, handlers
  <2> QED
    BY <1>1, <2>1, <2>2 DEF vars, sleepers, tasks, TermInv, TaskTypes, ReadTypes, GoesOn, Awake
<1>2. ASSUME NEW k \in Key, NEW cuts \in BOOLEAN, Strike(k, cuts) PROVE TermInv'
  BY <1>2, StrikeStep
<1>3. ASSUME NEW r \in Reads, Read(r[1], r[2]) PROVE TermInv'
  <2>1. r[1] \in Task /\ r[2] \in 1..MaxNr
    BY TerminalAssumption
  <2> QED
    BY <1>3, <2>1, BeginStep
<1>4. ASSUME NEW t \in Task, KernelStep(t) PROVE TermInv'
  BY <1>4, LookStep, SleepStep, GetChStep, ResumeStep DEF KernelStep
<1>5. ASSUME NEW t \in Task, WakeSignalled(t) \/ Deliver(t) \/ Signal(t) PROVE TermInv'
  BY <1>5, SignalStep, SignalledStep
<1>6. Signalled \subseteq Task
  BY TerminalAssumption
<1> QED
  BY <1>1, <1>2, <1>3, <1>4, <1>5, <1>6, HandlerStepInv DEF Next

LEMMA Invariant == Spec => []TermInv
<1>1. Init => TermInv
  BY InvInit
<1>2. TermInv /\ [Next]_vars => TermInv'
  BY InvNext
<1> QED
  BY <1>1, <1>2, PTL DEF Spec

\* While a whole line waits, the head of the readers' queue is no sleeper, or
\* about to be woken, whatever keys, signals and readers come between a
\* reader's look at the empty queue and its sleep, and whatever keys come in
\* the handling of others.
THEOREM LineIsAnnounced == Spec => []LineAnnounced
<1>1. TermInv => LineAnnounced
  BY InvHolds
<1> QED
  BY <1>1, Invariant, PTL

-----------------------------------------------------------------------------
(***************************************************************************)
(* The terminal implements the input of lines: each of its steps is one of *)
(* LineInput or leaves the keys struck, the line and what was read as they *)
(* are.                                                                    *)
(***************************************************************************)
LineStep == [Input!LineNext]_Input!lineVars

LEMMA StutterStep ==
    ASSUME Struck' = Struck, Line' = Line, UNCHANGED <<data, kept>>
    PROVE  LineStep
  BY DEF LineStep, Input!lineVars

LEMMA SpoiltStep ==
    ASSUME ~kept'
    PROVE  LineStep
  BY DEF LineStep, Input!LineNext

\* The keys that were struck, by the place of the innermost handler.
LEMMA StruckIs ==
    ASSUME scan \in Seq(Code), Top.ch \in Code \/ ~(At("struck") \/ At("switch"))
    PROVE  /\ At("struck") => Struck = Append(scan, Top.ch)
           /\ At("switch") => /\ Struck # << >> /\ Head(Struck) = Top.ch
                              /\ Tail(Struck) = scan
           /\ ~At("struck") /\ ~At("switch") => Struck = scan
<1>1. ~(At("struck") /\ At("switch"))
  BY DEF At
<1>2. CASE At("struck")
  BY <1>1, <1>2, ConcatProps DEF Struck
<1>3. CASE At("switch")
  BY <1>1, <1>3, ConcatProps DEF Struck
<1>4. CASE ~At("struck") /\ ~At("switch")
  BY <1>4, ConcatProps DEF Struck
<1> QED
  BY <1>2, <1>3, <1>4

LEMMA StruckNow ==
    ASSUME TermInv
    PROVE  /\ At("struck") => Struck = Append(scan, Top.ch)
           /\ At("switch") => /\ Struck # << >> /\ Head(Struck) = Top.ch
                              /\ Tail(Struck) = scan
           /\ ~At("struck") /\ ~At("switch") => Struck = scan
<1>1. Top.ch \in Code \/ ~(At("struck") \/ At("switch"))
  BY TopProps DEF At
<1>2. scan \in Seq(Code)
  BY DEF TermInv, HandlerTypes
<1> QED
  BY <1>1, <1>2, StruckIs

LEMMA StruckNext ==
    ASSUME TermInv'
    PROVE  /\ At("struck")' => Struck' = Append(scan', Top'.ch)
           /\ At("switch")' => Struck' = (<<Top'.ch>> \o scan') \o << >>
           /\ ~At("struck")' /\ ~At("switch")' => Struck' = scan'
<1>1. ~(At("struck")' /\ At("switch")')
  BY DEF At
<1>2. scan' \in Seq(Code) /\ frames' \in Seq(FrameType)
  BY DEF TermInv, HandlerTypes
<1>3. At("struck")' => Top'.ch \in Code
  <2>1. frames' # << >> => frames'[Len(frames')] \in FrameType
    BY <1>2
  <2>2. frames' # << >> => frames'[Len(frames')].ch \in Code
    BY <2>1 DEF FrameType
  <2> QED
    BY <2>2 DEF At, Top
<1>4. CASE At("struck")'
  <2>1. Struck' = (<< >> \o scan') \o <<Top'.ch>>
    BY <1>1, <1>4 DEF Struck
  <2> QED
    BY <1>1, <1>2, <1>3, <1>4, <2>1, ConcatProps
<1>5. CASE At("switch")'
  BY <1>1, <1>5 DEF Struck
<1>6. CASE ~At("struck")' /\ ~At("switch")'
  <2>1. Struck' = (<< >> \o scan') \o << >>
    BY <1>6 DEF Struck
  <2> QED
    BY <1>2, <1>6, <2>1, ConcatProps
<1> QED
  BY <1>1, <1>4, <1>5, <1>6

\* Where a handler's step leaves its frame.
LEMMA NowIs ==
    ASSUME TermInv, frames # << >>, NEW at \in Place4 \ {"struck"}, NEW ch \in Code,
           NowAt(at, ch)
    PROVE  Top'.ch = ch /\ \A p : At(p)' <=> p = at
<1>1. Top' = Frame(at, ch) /\ \A p : At(p)' <=> p = at
  BY NowProps
<1>2. Frame(at, ch).ch = ch
  BY FrameTyped
<1> QED
  BY <1>1, <1>2

LEMMA PressStep ==
    ASSUME TermInv, TermInv', NEW k \in Key, NEW cuts \in BOOLEAN, Strike(k, cuts)
    PROVE  LineStep
<1>1. CASE ~kept'
  BY <1>1, SpoiltStep
<1>2. CASE kept'
  <2>1. kept' = kept /\ (frames # << >> => Top.at \in {"loop", "wake"})
    BY <1>2 DEF Strike, TermInv
  <2>2. ~At("struck") /\ ~At("switch")
    BY <2>1 DEF At
  <2>3. Struck = scan
    BY <2>2, StruckNow
  <2>4. ~cuts \/ frames = << >>
    BY <1>2 DEF Strike
  <2>5. frames' = Append(frames, Frame("struck", k))
    BY <2>4 DEF Strike
  <2>6. Top' = Frame("struck", k) /\ frames' # << >>
    <3>1. frames \in Seq(FrameType) /\ Frame("struck", k) \in FrameType
      BY FrameTyped DEF TermInv, HandlerTypes, Place4, Code
    <3> DEFINE f == Frame("struck", k)
    <3> HIDE DEF f
    <3>2. /\ Append(frames, f)[Len(frames) + 1] = f /\ Len(Append(frames, f)) = Len(frames) + 1
          /\ Len(frames) \in Nat
      BY <3>1, AppendProps DEF f
    <3>3. Append(frames, f) # << >>
      BY <3>2
    <3> QED
      BY <2>5, <3>2, <3>3 DEF Top, f
  <2>7. At("struck")' /\ Top'.ch = k
    BY <2>6 DEF At, Frame
  <2>8. Struck' = Append(Struck, k) /\ Line' = Line
    BY <2>3, <2>7, StruckNext, SameLine DEF Strike
  <2>9. data' = data
    BY DEF Strike, tasks
  <2>10. Input!Press(k)
    BY <2>8, <2>9 DEF Input!Press
  <2> QED
    BY <2>1, <2>10 DEF LineStep, Input!LineNext, Key
<1> QED
  BY <1>1, <1>2

\* The steps of a handler with read_q, and its wake_up().
LEMMA QuietStep ==
    ASSUME TermInv, TermInv', Scan \/ Loop \/ Return \/ Wake
    PROVE  LineStep
<1>0. UNCHANGED <<queue, data, kept>>
  BY DEF Scan, Loop, Return, Wake, tasks
<1>1. CASE ~kept'
  BY <1>1, SpoiltStep
<1>2. CASE kept'
  <2>0. kept /\ NUL \in Code /\ "loop" \in Place4 \ {"struck"} /\ "switch" \in Place4 \ {"struck"}
    BY <1>0, <1>2 DEF Code, Place4
  <2>1. CASE Scan
    <3>1. scan' = Append(scan, Top.ch) /\ At("struck") /\ frames # << >> /\ NowAt("loop", NUL)
      BY <2>0, <2>1, ScanStep DEF Scan, At
    <3>2. ~At("struck")' /\ ~At("switch")'
      BY <2>0, <3>1, NowIs
    <3> QED
      BY <1>0, <3>1, <3>2, StruckNow, StruckNext, StutterStep, SameLine
  <2>2. CASE Loop
    <3>1. /\ scan # << >> /\ scan' = Tail(scan) /\ NowAt("switch", Head(scan))
          /\ At("loop") /\ frames # << >>
      BY <2>0, <2>2, LoopStep DEF Loop, At
    <3>2. scan \in Seq(Code) /\ Head(scan) \in Code
      BY <3>1 DEF TermInv, HandlerTypes
    <3>3. At("switch")' /\ Top'.ch = Head(scan)
      BY <2>0, <3>1, <3>2, NowIs
    <3>4. Struck = scan
      BY <3>1, StruckNow DEF At
    <3>5. Struck' = (<<Head(scan)>> \o Tail(scan)) \o << >>
      BY <3>1, <3>3, StruckNext
    <3>6. Struck' = Struck
      BY <3>1, <3>2, <3>4, <3>5, ConcatProps
    <3> QED
      BY <1>0, <3>6, StutterStep, SameLine
  <2>3. CASE Return
    <3>1. scan' = scan /\ At("loop") /\ ~At("struck")' /\ ~At("switch")'
      BY <2>0, <2>3, ReturnStep DEF Return
    <3>2. Struck = scan
      BY <3>1, StruckNow DEF At
    <3> QED
      BY <1>0, <3>1, <3>2, StruckNext, StutterStep, SameLine
  <2>4. CASE Wake
    <3>1. scan' = scan /\ At("wake") /\ frames # << >> /\ NowAt("loop", NUL)
      BY <2>4 DEF Wake, At
    <3>2. ~At("struck")' /\ ~At("switch")'
      BY <2>0, <3>1, NowIs
    <3>3. Struck = scan
      BY <3>1, StruckNow DEF At
    <3> QED
      BY <1>0, <3>1, <3>2, <3>3, StruckNext, StutterStep, SameLine
  <2> QED
    BY <2>1, <2>2, <2>3, <2>4
<1> QED
  BY <1>1, <1>2

\* The next key has its effect.
LEMMA EffectStep ==
    ASSUME TermInv, TermInv', Put \/ Drop \/ Newline \/ Erase \/ KeepLine
    PROVE  LineStep
<1>1. CASE ~kept'
  BY <1>1, SpoiltStep
<1>2. CASE kept'
  <2>0. /\ At("switch") /\ frames # << >> /\ scan' = scan /\ data' = data
        /\ \E at \in {"loop", "wake"} : NowAt(at, NUL)
    BY DEF Put, Drop, Newline, Erase, KeepLine, Ordinary, At, tasks
  <2>1. PICK at \in {"loop", "wake"} : NowAt(at, NUL)
    BY <2>0
  <2>2. at \in Place4 \ {"struck"} /\ NUL \in Code
    BY <2>1 DEF Place4, Code
  <2>3. \A p : At(p)' <=> p = at
    BY <2>0, <2>1, <2>2, NowIs
  <2>4. ~At("struck")' /\ ~At("switch")'
    BY <2>1, <2>3
  <2>5. Struck # << >> /\ Head(Struck) = Top.ch /\ Tail(Struck) = scan /\ Struck' = scan
    BY <2>0, <2>4, StruckNow, StruckNext
  <2>6. kept' = kept
    BY <1>2 DEF Put, Drop, Newline, Erase, KeepLine, TermInv
  <2>7. /\ Len(Line) = Count(head, tail) /\ Count(head, tail) \in 0..N - 1
        /\ FULL(head) <=> Count(head, tail) = N - 1
        /\ N \in Nat
    BY RingNow, CountProps, SizeN DEF TermInv, RingOK
  <2>8. IF Top.ch = BS THEN Input!Erased ELSE Input!Typed(Top.ch) \/ Input!Ignored(Top.ch)
    <3>1. CASE Put
      <4>1. Top.ch \notin {NL, BS} /\ ~FULL(head) /\ Line' = Append(Line, Top.ch)
        BY <1>2, <2>6, <3>1, PutsStep
      <4>2. Len(Line) < N - 1
        BY <2>7, <4>1
      <4> QED
        BY <4>1, <4>2 DEF Input!Typed, N
    <3>2. CASE Drop
      <4>1. Top.ch \notin {NL, BS} /\ FULL(head)
        BY <1>2, <2>6, <3>2, DropStep
      <4>2. Len(Line) = N - 1 /\ Line' = Line
        BY <2>7, <3>2, <4>1, SameLine DEF Drop
      <4> QED
        BY <4>1, <4>2 DEF Input!Ignored, N
    <3>3. CASE Newline
      <4>1. Top.ch = NL /\ ~FULL(head) /\ Line' = Append(Line, NL)
        BY <1>2, <3>3, NewlineStep
      <4>2. Len(Line) < N - 1 /\ NL # BS
        BY <2>7, <4>1, TerminalAssumption
      <4> QED
        BY <4>1, <4>2 DEF Input!Typed, N
    <3>4. CASE Erase
      <4>1. /\ Top.ch = BS /\ Line # << >> /\ Line[Len(Line)] # NL
            /\ Line' = SubSeq(Line, 1, Len(Line) - 1)
        BY <1>2, <3>4, ErasedStep
      <4> QED
        BY <4>1 DEF Input!Erased, Input!Last, Input!Front
    <3>5. CASE KeepLine
      <4>1. Top.ch = BS /\ (Line = << >> \/ Line[Len(Line)] = NL)
        BY <1>2, <2>6, <3>5, KeptStep
      <4>2. Line' = Line
        BY <3>5, SameLine DEF KeepLine
      <4> QED
        BY <4>1, <4>2 DEF Input!Erased, Input!Last
    <3> QED
      BY <3>1, <3>2, <3>3, <3>4, <3>5
  <2>9. Input!Effect
    BY <2>0, <2>5, <2>8 DEF Input!Effect
  <2> QED
    BY <2>6, <2>9 DEF LineStep, Input!LineNext
<1> QED
  BY <1>1, <1>2

\* Where no handler is under way, no key is.
LEMMA NoneStruck ==
    ASSUME TermInv, kept, frames = << >>
    PROVE  Struck = << >>
<1>1. Struck = scan
  BY StruckNow DEF At
<1>2. Len(scan) <= 0 /\ scan \in Seq(Code)
  BY RoomProps DEF TermInv, HandlerTypes
<1> QED
  BY <1>1, <1>2

LEMMA StruckStays ==
    ASSUME UNCHANGED handlers
    PROVE  Struck' = Struck
  BY DEF handlers, Struck, At, Top

LEMMA GivenStep ==
    ASSUME TermInv, NEW t \in Task, GetCh(t), kept'
    PROVE  LineStep
<1>1. ~EMPTY /\ kept' = kept /\ kept /\ frames = << >>
  BY DEF GetCh, Runs, TermInv
<1>2. Line # << >> /\ buf[tail] = Head(Line) /\ Line' = Tail(Line)
  BY <1>1, TakeStep DEF TermInv, GetCh
<1>3. GoesOn(t) /\ nr[t] \in 0..MaxNr /\ MaxNr \in Nat /\ data[t] \in Seq(Code)
  BY TerminalAssumption DEF GetCh, Runs, TermInv, ReadTypes
<1>4. Len(data[t]) < MaxNr
  <2>1. Len(data[t]) \in Nat
    BY <1>3
  <2> QED
    BY <1>3, <2>1 DEF GoesOn
<1>5. data[t] = << >> \/ data[t][Len(data[t])] # NL
  BY <1>3 DEF GoesOn
<1>6. data' = [data EXCEPT ![t] = Append(data[t], Head(Line))]
  BY <1>2 DEF GetCh, TermInv, ReadTypes
<1>7. Struck = << >> /\ Struck' = Struck
  BY <1>1, NoneStruck, StruckStays DEF GetCh
<1>8. Input!Give(t)
  BY <1>2, <1>4, <1>5, <1>6, <1>7 DEF Input!Give, Input!Last
<1> QED
  BY <1>1, <1>8 DEF LineStep, Input!LineNext

LEMMA BegunStep ==
    ASSUME TermInv, NEW t \in Task, NEW n \in 1..MaxNr, Read(t, n)
    PROVE  LineStep
<1>1. Line' = Line /\ kept' = kept /\ frames = << >> /\ Struck' = Struck
  BY SameLine, StruckStays DEF Read, Free
<1>2. CASE kept
  <2>1. Input!Begin(t)
    BY <1>1, <1>2, NoneStruck DEF Read, Input!Begin
  <2> QED
    BY <1>1, <2>1 DEF LineStep, Input!LineNext
<1> QED
  BY <1>1, <1>2, SpoiltStep DEF TermInv

\* As long as no key comes where it spoils the order or a queue, nobody types
\* ahead more than the queue holds, reads from an empty one or erases where it
\* wraps, the keys have their effect in the order they are struck, each once
\* and before a reader goes on, however deep they interrupt each other; the
\* characters come to the readers in that order, each to one of them, and no
\* read goes beyond a line.
THEOREM LinesImplemented == Spec => ImplementsLineInput
<1>1. Init => Input!LineInit
  <2> SUFFICES ASSUME Init PROVE Input!LineInit
    OBVIOUS
  <2>1. EMPTY /\ RingOK /\ TermInv
    BY InvInit DEF Init, EMPTY, TermInv
  <2>2. Line = << >>
    BY <2>1, RingNow
  <2>3. Struck = << >>
    BY <2>1, NoneStruck DEF Init
  <2> QED
    BY <2>2, <2>3 DEF Init, Input!LineInit
<1>2. TermInv /\ [Next]_vars => LineStep
  <2> SUFFICES ASSUME TermInv, [Next]_vars PROVE LineStep
    OBVIOUS
  <2>0. TermInv'
    BY InvNext
  <2>1. CASE UNCHANGED <<handlers, queue, data, kept>>
    BY <2>1, StruckStays, SameLine, StutterStep
  <2>2. ASSUME NEW k \in Key, NEW cuts \in BOOLEAN, Strike(k, cuts) PROVE LineStep
    BY <2>0, <2>2, PressStep
  <2>3. CASE HandlerStep
    BY <2>0, <2>3, QuietStep, EffectStep DEF HandlerStep
  <2>4. ASSUME NEW r \in Reads, Read(r[1], r[2]) PROVE LineStep
    <3>1. r[1] \in Task /\ r[2] \in 1..MaxNr
      BY TerminalAssumption
    <3> QED
      BY <2>4, <3>1, BegunStep
  <2>5. ASSUME NEW t \in Task, KernelStep(t) PROVE LineStep
    <3>1. CASE Look(t) \/ SleepIfEmpty(t) \/ Resume(t)
      BY <2>1, <3>1 DEF Look, SleepIfEmpty, Resume
    <3>2. CASE GetCh(t)
      BY <3>2, GivenStep, SpoiltStep
    <3> QED
      BY <2>5, <3>1, <3>2 DEF KernelStep
  <2>6. ASSUME NEW t \in Task, Signal(t) \/ WakeSignalled(t) \/ Deliver(t) PROVE LineStep
    BY <2>1, <2>6 DEF Signal, WakeSignalled, Deliver
  <2>7. CASE UNCHANGED vars
    BY <2>1, <2>7 DEF vars, tasks
  <2>8. Signalled \subseteq Task
    BY TerminalAssumption
  <2> QED
    BY <2>2, <2>3, <2>4, <2>5, <2>6, <2>7, <2>8 DEF Next
<1> QED
  BY <1>1, <1>2, Invariant, PTL DEF Spec, ImplementsLineInput, Input!LineSpec, LineStep
=============================================================================
