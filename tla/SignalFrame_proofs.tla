------------------------- MODULE SignalFrame_proofs -------------------------
(***************************************************************************)
(* Proofs about the frames of signal handlers, for any signals and actions *)
(* and a user stack of any size.                                           *)
(***************************************************************************)
EXTENDS SignalFrame, FiniteSetTheorems, TLAPS

-----------------------------------------------------------------------------
(***************************************************************************)
(* The restorers and the instructions.                                     *)
(***************************************************************************)
Restorers == {"sig", "masksig"}
Saved == {"eax", "ecx", "edx", "eflags"}
L(r) == IF r = "sig" THEN 6 ELSE 7

\* The k-th word a restorer takes is for each register once, for eip the last.
LEMMA RestorerProps ==
    /\ DOMAIN Restorer = Restorers
    /\ \A r \in Restorers :
          /\ L(r) \in Nat /\ L(r) > 1 /\ Len(Restorer[r]) = L(r) /\ DOMAIN Restorer[r] = 1..L(r)
          /\ \A k \in 1..L(r) : Restorer[r][k] = "eip" <=> k = L(r)
          /\ \A k, m \in 1..L(r) : Restorer[r][k] = Restorer[r][m] => k = m
          /\ \A q \in Registers : \E k \in 1..L(r) : Restorer[r][k] = q
<1>1. DOMAIN Restorer = Restorers
  BY DEF Restorer, Restorers
<1>2. Restorer["sig"] = <<"signr", "eax", "ecx", "edx", "eflags", "eip">>
  BY DEF Restorer
<1>3. Restorer["masksig"] = <<"signr", "blocked", "eax", "ecx", "edx", "eflags", "eip">>
  BY DEF Restorer
<1>4. ASSUME NEW r \in Restorers
      PROVE  /\ L(r) \in Nat /\ L(r) > 1 /\ Len(Restorer[r]) = L(r) /\ DOMAIN Restorer[r] = 1..L(r)
             /\ \A k \in 1..L(r) : Restorer[r][k] = "eip" <=> k = L(r)
             /\ \A k, m \in 1..L(r) : Restorer[r][k] = Restorer[r][m] => k = m
             /\ \A q \in Registers : \E k \in 1..L(r) : Restorer[r][k] = q
  <2>1. CASE r = "sig"
    <3>1. L(r) = 6 /\ Len(Restorer[r]) = 6 /\ DOMAIN Restorer[r] = 1..6
      BY <1>2, <2>1 DEF L
    <3>2. /\ Restorer[r][1] = "signr" /\ Restorer[r][2] = "eax" /\ Restorer[r][3] = "ecx"
          /\ Restorer[r][4] = "edx" /\ Restorer[r][5] = "eflags" /\ Restorer[r][6] = "eip"
      BY <1>2, <2>1
    <3>3. \A k \in 1..6 : k = 1 \/ k = 2 \/ k = 3 \/ k = 4 \/ k = 5 \/ k = 6
      OBVIOUS
    <3>4. \A k \in 1..6 : Restorer[r][k] = "eip" <=> k = 6
      BY <3>2, <3>3
    <3>5. \A k, m \in 1..6 : Restorer[r][k] = Restorer[r][m] => k = m
      BY <3>2, <3>3
    <3>6. \A q \in Registers : \E k \in 1..6 : Restorer[r][k] = q
      BY <3>2 DEF Registers
    <3> QED
      BY <3>1, <3>4, <3>5, <3>6
  <2>2. CASE r = "masksig"
    <3>1. L(r) = 7 /\ Len(Restorer[r]) = 7 /\ DOMAIN Restorer[r] = 1..7
      BY <1>3, <2>2 DEF L
    <3>2. /\ Restorer[r][1] = "signr" /\ Restorer[r][2] = "blocked" /\ Restorer[r][3] = "eax"
          /\ Restorer[r][4] = "ecx" /\ Restorer[r][5] = "edx" /\ Restorer[r][6] = "eflags"
          /\ Restorer[r][7] = "eip"
      BY <1>3, <2>2
    <3>3. \A k \in 1..7 : k = 1 \/ k = 2 \/ k = 3 \/ k = 4 \/ k = 5 \/ k = 6 \/ k = 7
      OBVIOUS
    <3>4. \A k \in 1..7 : Restorer[r][k] = "eip" <=> k = 7
      BY <3>2, <3>3
    <3>5. \A k, m \in 1..7 : Restorer[r][k] = Restorer[r][m] => k = m
      BY <3>2, <3>3
    <3>6. \A q \in Registers : \E k \in 1..7 : Restorer[r][k] = q
      BY <3>2 DEF Registers
    <3> QED
      BY <3>1, <3>4, <3>5, <3>6
  <2> QED
    BY <2>1, <2>2 DEF Restorers
<1> QED
  BY <1>1, <1>4

LEMMA InstructionProps ==
    /\ \A w \in Instruction :
          \/ w = <<"program", 0>>
          \/ \E s \in Signal : w = <<"handler", s>> \/ w = <<"handling", s>>
          \/ \E r \in Restorers : \E n \in 1..L(r) : w = <<r, n>>
    /\ <<"program", 0>> \in Instruction
    /\ \A s \in Signal : <<"handler", s>> \in Instruction /\ <<"handling", s>> \in Instruction
    /\ \A r \in Restorers : \A n \in 1..L(r) : <<r, n>> \in Instruction
    /\ \A r \in Restorers : Entry(r) \in Instruction /\ Entry(r) \in Entries
    /\ \A w \in Entries : \E r \in Restorers : w = Entry(r)
    /\ Instruction \subseteq Word
<1>1. DOMAIN Restorer = Restorers /\ \A r \in Restorers : DOMAIN Restorer[r] = 1..L(r) /\ 1 \in 1..L(r)
  BY RestorerProps
<1> DEFINE U == UNION {{<<r, n>> : n \in DOMAIN Restorer[r]} : r \in DOMAIN Restorer}
<1>2. \A w \in U : \E r \in Restorers : \E n \in 1..L(r) : w = <<r, n>>
  BY <1>1
<1>3. \A r \in Restorers : \A n \in 1..L(r) : <<r, n>> \in U
  <2> TAKE r \in Restorers
  <2> TAKE n \in 1..L(r)
  <2>1. <<r, n>> \in {<<r, m>> : m \in DOMAIN Restorer[r]}
    BY <1>1
  <2>2. r \in DOMAIN Restorer
    BY <1>1
  <2> QED
    BY <2>1, <2>2
<1> HIDE DEF U
<1>4. Instruction = {<<"program", 0>>} \cup ({"handler", "handling"} \X Signal) \cup U
  BY DEF Instruction, U
<1>5. \A w \in Instruction :
          \/ w = <<"program", 0>>
          \/ \E s \in Signal : w = <<"handler", s>> \/ w = <<"handling", s>>
          \/ \E r \in Restorers : \E n \in 1..L(r) : w = <<r, n>>
  BY <1>2, <1>4
<1>6. /\ <<"program", 0>> \in Instruction
      /\ \A s \in Signal : <<"handler", s>> \in Instruction /\ <<"handling", s>> \in Instruction
      /\ \A r \in Restorers : \A n \in 1..L(r) : <<r, n>> \in Instruction
  BY <1>3, <1>4
<1>7. \A r \in Restorers : Entry(r) \in Instruction /\ Entry(r) \in Entries
  BY <1>1, <1>6 DEF Entry, Entries
<1>8. \A w \in Entries : \E r \in Restorers : w = Entry(r)
  BY <1>1 DEF Entries
<1>9. Instruction \subseteq Word
  BY DEF Word
<1> QED
  BY <1>5, <1>6, <1>7, <1>8, <1>9

-----------------------------------------------------------------------------
(***************************************************************************)
(* The invariant.  The code that was interrupted and the code that runs on *)
(* top of it form a chain of contexts: the first is the present one, the   *)
(* last is the program.  Each holds, in its stack and (a restorer) in its  *)
(* registers, what gives back the next one.                                *)
(***************************************************************************)
DepthOf(s) == Cardinality({i \in DOMAIN s : s[i] \in Entries})

\* A context on its own.
Sound(R, S) ==
    /\ R \in [Registers -> Word] /\ R["eip"] \in Instruction
    /\ \A q \in Saved : R[q] \in {q} \X (0..MaxStack)
    /\ S \in Seq(Word) /\ Len(S) <= MaxStack
    /\ R["eip"] = <<"program", 0>> => S = << >> /\ R = Own(<<"program", 0>>, 0)
    /\ \A s \in Signal : R["eip"] = <<"handling", s>> => R = Own(<<"handling", s>>, DepthOf(S))

\* The word for the register that the restorer r takes k-th, when it has taken
\* those before the n-th (n = 0: its own address is on the stack as well).
WordFor(R, S, r, n, k) == IF k < n THEN R[Restorer[r][k]] ELSE S[k - n + 1]

\* (R, S) gives back the registers P and the stack Q.
Holds(R, S, P, Q, r, n) ==
    /\ Len(S) = L(r) + 1 - n + Len(Q)
    /\ \A k \in 1..L(r) : Restorer[r][k] \in Registers =>
                              WordFor(R, S, r, n, k) = P[Restorer[r][k]]
    /\ \A i \in 1..Len(Q) : S[L(r) + 1 - n + i] = Q[i]

InHandler(R, S, P, Q) ==
    \E s \in Signal, r \in Restorers :
        /\ R["eip"] = <<"handler", s>> \/ R["eip"] = <<"handling", s>>
        /\ S[1] = Entry(r) /\ S[2] = <<"signr", s>>
        /\ Holds(R, S, P, Q, r, 0)

InRestorer(R, S, P, Q) ==
    \E r \in Restorers : \E n \in 1..L(r) :
        R["eip"] = <<r, n>> /\ Holds(R, S, P, Q, r, n)

Link(R, S, P, Q) == InHandler(R, S, P, Q) \/ InRestorer(R, S, P, Q)

\* The chains: rs are the registers, ss the stacks of the contexts.
Chain(n, rs, ss, R, S) ==
    /\ n \in Nat \ {0}
    /\ rs[1] = R /\ ss[1] = S
    /\ \A i \in 1..n : Sound(rs[i], ss[i])
    /\ \A i \in 1..n - 1 : Link(rs[i], ss[i], rs[i + 1], ss[i + 1])
    /\ rs[n]["eip"] = <<"program", 0>>

InChain(R, S) == \E n, rs, ss : Chain(n, rs, ss, R, S)

Rest ==
    /\ signal \subseteq Signal /\ blocked \subseteq Signal
    /\ sigaction \in [Signal -> Action]

ContextInv == Rest /\ InChain(reg, stack)

-----------------------------------------------------------------------------
\* Code that is not the program's has a context below it.
LEMMA LinkNotProgram ==
    ASSUME NEW R, NEW S, NEW P, NEW Q, Link(R, S, P, Q)
    PROVE  R["eip"] # <<"program", 0>>
  BY DEF Link, InHandler, InRestorer, Restorers

LEMMA ChainProps ==
    ASSUME NEW R, NEW S, InChain(R, S)
    PROVE  /\ Sound(R, S)
           /\ R["eip"] # <<"program", 0>> =>
                  \E P, Q : InChain(P, Q) /\ Sound(P, Q) /\ Link(R, S, P, Q)
<1>1. PICK n, rs, ss : Chain(n, rs, ss, R, S)
  BY DEF InChain
<1>2. n \in Nat \ {0} /\ 1 \in 1..n
  BY <1>1 DEF Chain
<1>3. Sound(R, S)
  BY <1>1, <1>2 DEF Chain
<1>4. ASSUME R["eip"] # <<"program", 0>>
      PROVE  \E P, Q : InChain(P, Q) /\ Sound(P, Q) /\ Link(R, S, P, Q)
  <2>1. n # 1
    BY <1>1, <1>4 DEF Chain
  <2>2. n - 1 \in Nat \ {0} /\ 1 \in 1..n - 1 /\ 2 \in 1..n
    BY <1>2, <2>1
  <2> DEFINE rt == [i \in 1..n - 1 |-> rs[i + 1]]
             st == [i \in 1..n - 1 |-> ss[i + 1]]
  <2>3. Link(R, S, rs[2], ss[2]) /\ Sound(rs[2], ss[2])
    BY <1>1, <2>2 DEF Chain
  <2>4. \A i \in 1..n - 1 : rt[i] = rs[i + 1] /\ st[i] = ss[i + 1] /\ i + 1 \in 1..n
    BY <1>2
  <2> HIDE DEF rt, st
  <2>5. \A i \in 1..(n - 1) - 1 : i \in 1..n - 1 /\ i + 1 \in 1..n - 1
    BY <1>2
  <2>6. Chain(n - 1, rt, st, rs[2], ss[2])
    <3>1. rt[1] = rs[2] /\ st[1] = ss[2]
      BY <2>2, <2>4
    <3>2. \A i \in 1..n - 1 : Sound(rt[i], st[i])
      BY <1>1, <2>4 DEF Chain
    <3>3. \A i \in 1..(n - 1) - 1 : Link(rt[i], st[i], rt[i + 1], st[i + 1])
      BY <1>1, <2>4, <2>5 DEF Chain
    <3>4. rt[n - 1] = rs[n]
      <4>1. n - 1 \in 1..n - 1 /\ (n - 1) + 1 = n
        BY <1>2, <2>2
      <4> QED
        BY <2>4, <4>1
    <3>5. rt[n - 1]["eip"] = <<"program", 0>>
      BY <1>1, <3>4 DEF Chain
    <3> QED
      BY <2>2, <3>1, <3>2, <3>3, <3>5 DEF Chain
  <2> QED
    BY <2>3, <2>6 DEF InChain
<1> QED
  BY <1>3, <1>4

\* A context on top of a chain.
LEMMA ChainPush ==
    ASSUME NEW R, NEW S, NEW P, NEW Q, InChain(P, Q), Sound(R, S), Link(R, S, P, Q)
    PROVE  InChain(R, S)
<1>1. PICK n, rs, ss : Chain(n, rs, ss, P, Q)
  BY DEF InChain
<1>2. n \in Nat \ {0} /\ 1 \in 1..n
  BY <1>1 DEF Chain
<1> DEFINE rt == [i \in 1..n + 1 |-> IF i = 1 THEN R ELSE rs[i - 1]]
           st == [i \in 1..n + 1 |-> IF i = 1 THEN S ELSE ss[i - 1]]
<1>3. /\ rt[1] = R /\ st[1] = S
      /\ \A i \in 1..n : rt[i + 1] = rs[i] /\ st[i + 1] = ss[i]
  BY <1>2
<1> HIDE DEF rt, st
<1>4. Chain(n + 1, rt, st, R, S)
  <2>1. ASSUME NEW i \in 1..n + 1 PROVE Sound(rt[i], st[i])
    <3>1. CASE i = 1
      BY <1>3, <3>1
    <3>2. CASE i # 1
      <4>1. i - 1 \in 1..n /\ (i - 1) + 1 = i
        BY <1>2, <3>2
      <4>2. rt[i] = rs[i - 1] /\ st[i] = ss[i - 1]
        BY <1>3, <4>1
      <4> QED
        BY <1>1, <4>1, <4>2 DEF Chain
    <3> QED
      BY <3>1, <3>2
  <2>2. ASSUME NEW i \in 1..(n + 1) - 1 PROVE Link(rt[i], st[i], rt[i + 1], st[i + 1])
    <3>1. CASE i = 1
      <4>1. rt[i + 1] = P /\ st[i + 1] = Q
        BY <1>1, <1>2, <1>3, <3>1 DEF Chain
      <4> QED
        BY <1>3, <3>1, <4>1
    <3>2. CASE i # 1
      <4>1. i - 1 \in 1..n - 1 /\ i - 1 \in 1..n /\ i \in 1..n /\ (i - 1) + 1 = i
        BY <1>2, <3>2
      <4>2. rt[i] = rs[i - 1] /\ st[i] = ss[i - 1] /\ rt[i + 1] = rs[i] /\ st[i + 1] = ss[i]
        BY <1>3, <4>1
      <4>3. Link(rs[i - 1], ss[i - 1], rs[(i - 1) + 1], ss[(i - 1) + 1])
        BY <1>1, <4>1 DEF Chain
      <4> QED
        BY <4>1, <4>2, <4>3
    <3> QED
      BY <3>1, <3>2
  <2>3. rt[n + 1]["eip"] = <<"program", 0>>
    <3>1. n \in 1..n
      BY <1>2
    <3> QED
      BY <1>1, <1>3, <3>1 DEF Chain
  <2> QED
    BY <1>2, <1>3, <2>1, <2>2, <2>3 DEF Chain
<1> QED
  BY <1>4 DEF InChain

\* The registers of code at a depth.
LEMMA OwnProps ==
    ASSUME NEW w \in Instruction, NEW d \in 0..MaxStack
    PROVE  /\ Own(w, d) \in [Registers -> Word] /\ Own(w, d)["eip"] = w
           /\ \A q \in Saved : Own(w, d)[q] = <<q, d>>
<1>1. w \in Word
  BY InstructionProps
<1>2. \A q \in Saved : <<q, d>> \in Word
  BY DEF Word, Saved
<1>3. Registers = {"eip"} \cup Saved /\ "eip" \notin Saved
  BY DEF Registers, Saved
<1> QED
  BY <1>1, <1>2, <1>3 DEF Own

\* The program by itself.
LEMMA ChainEnd ==
    InChain(Own(<<"program", 0>>, 0), << >>)
<1> DEFINE R == Own(<<"program", 0>>, 0)
           rs == [i \in {1} |-> R]
           ss == [i \in {1} |-> << >>]
<1>1. Sound(R, << >>)
  <2>3. MaxStack \in Nat /\ 0 \in 0..MaxStack
    BY SignalAssumption
  <2>1. R["eip"] = <<"program", 0>> /\ R \in [Registers -> Word]
    BY <2>3, OwnProps, InstructionProps
  <2>2. \A q \in Saved : R[q] = <<q, 0>>
    BY DEF Own, Saved, Registers
  <2>4. << >> \in Seq(Word) /\ Len(<< >>) = 0
    OBVIOUS
  <2> HIDE DEF R
  <2>5. \A s \in Signal : R["eip"] # <<"handling", s>>
    BY <2>1
  <2>6. R = Own(<<"program", 0>>, 0)
    BY DEF R
  <2>7. <<"program", 0>> \in Instruction
    BY InstructionProps
  <2> QED
    BY <2>1, <2>2, <2>3, <2>4, <2>5, <2>6, <2>7 DEF Sound
<1>2. Chain(1, rs, ss, R, << >>)
  <2>1. R["eip"] = <<"program", 0>>
    BY DEF Own, Registers
  <2> HIDE DEF R
  <2> QED
    BY <1>1, <2>1 DEF Chain
<1> QED
  BY <1>2 DEF InChain

-----------------------------------------------------------------------------
(***************************************************************************)
(* The steps.                                                              *)
(***************************************************************************)
LEMMA TailWords ==
    ASSUME NEW S \in Seq(Word), Len(S) >= 1
    PROVE  /\ Tail(S) \in Seq(Word) /\ Len(Tail(S)) = Len(S) - 1 /\ Head(S) = S[1]
           /\ S[1] \in Word
           /\ \A i \in 1..Len(S) - 1 : Tail(S)[i] = S[i + 1]
  OBVIOUS

LEMMA DepthBound ==
    ASSUME NEW S \in Seq(Word), Len(S) <= MaxStack
    PROVE  DepthOf(S) \in 0..MaxStack
<1> DEFINE D == {i \in DOMAIN S : S[i] \in Entries}
<1>1. Len(S) \in Nat /\ MaxStack \in Nat
  BY SignalAssumption
<1>2. PICK m \in Nat : m = Len(S) /\ DOMAIN S = 1..m /\ m <= MaxStack
  BY <1>1
<1>3. IsFiniteSet(1..m) /\ Cardinality(1..m) = m
  BY ONLY FS_Interval
<1>4. D \subseteq 1..m
  BY <1>2
<1> HIDE DEF D
<1>5. IsFiniteSet(D) /\ Cardinality(D) <= m
  <2> DEFINE I == 1..m
  <2>1. IsFiniteSet(I) /\ D \subseteq I
    BY <1>3, <1>4
  <2> HIDE DEF I
  <2>2. IsFiniteSet(D) /\ Cardinality(D) <= Cardinality(I)
    BY ONLY <2>1, FS_Subset
  <2> QED
    BY <1>3, <2>2 DEF I
<1>6. Cardinality(D) \in Nat
  BY ONLY <1>5, FS_CardinalityType
<1>7. Cardinality(D) \in 0..MaxStack
  BY ONLY <1>1, <1>2, <1>5, <1>6
<1> QED
  BY <1>7 DEF DepthOf, D

\* The handler of s begins to run.
LEMMA HandleStep ==
    ASSUME NEW R, NEW S, InChain(R, S), NEW s \in Signal, R["eip"] = <<"handler", s>>
    PROVE  InChain(Own(<<"handling", s>>, DepthOf(S)), S)
<1> DEFINE T == Own(<<"handling", s>>, DepthOf(S))
<1>1. Sound(R, S)
  BY ChainProps
<1>2. R["eip"] # <<"program", 0>>
  OBVIOUS
<1>3. PICK P, Q : InChain(P, Q) /\ Sound(P, Q) /\ Link(R, S, P, Q)
  BY <1>2, ChainProps
<1>4. PICK r \in Restorers : /\ S[1] = Entry(r) /\ S[2] = <<"signr", s>>
                             /\ Holds(R, S, P, Q, r, 0)
  <2>1. InHandler(R, S, P, Q)
    BY <1>3 DEF Link, InRestorer, Restorers
  <2> QED
    BY <2>1 DEF InHandler
<1>6. DepthOf(S) \in 0..MaxStack
  BY <1>1, DepthBound DEF Sound
<1>5. /\ T \in [Registers -> Word] /\ T["eip"] = <<"handling", s>>
      /\ \A q \in Saved : T[q] = <<q, DepthOf(S)>>
  BY <1>6, OwnProps, InstructionProps
<1>7. \A u \in Signal : <<"handling", s>> = <<"handling", u>> => u = s
  OBVIOUS
<1>8. T = Own(<<"handling", s>>, DepthOf(S))
  OBVIOUS
<1> HIDE DEF T
<1>9. Sound(T, S)
  <2>1. T["eip"] \in Instruction /\ T["eip"] # <<"program", 0>>
    BY <1>5, InstructionProps
  <2> QED
    BY <1>1, <1>5, <1>6, <1>7, <1>8, <2>1 DEF Sound
<1>10. Link(T, S, P, Q)
  <2>1. Holds(T, S, P, Q, r, 0)
    <3>1. \A k \in 1..L(r) : WordFor(T, S, r, 0, k) = WordFor(R, S, r, 0, k)
      BY RestorerProps DEF WordFor
    <3> QED
      BY <1>4, <3>1 DEF Holds
  <2> QED
    BY <1>4, <1>5, <2>1 DEF Link, InHandler
<1> QED
  BY <1>3, <1>9, <1>10, ChainPush DEF T

\* A register other than eip keeps its word when eip gets another one.
LEMMA EipProps ==
    ASSUME NEW R \in [Registers -> Word], NEW w \in Instruction
    PROVE  LET T == [R EXCEPT !["eip"] = w]
           IN  T \in [Registers -> Word] /\ T["eip"] = w /\ \A q \in Saved : T[q] = R[q]
<1>1. w \in Word
  BY InstructionProps
<1> QED
  BY <1>1 DEF Registers, Saved

\* It returns into the restorer.
LEMMA HandlerReturnsStep ==
    ASSUME NEW R, NEW S, InChain(R, S), NEW s \in Signal, R["eip"] = <<"handling", s>>
    PROVE  InChain([R EXCEPT !["eip"] = Head(S)], Tail(S))
<1> DEFINE T == [R EXCEPT !["eip"] = Head(S)]
           U == Tail(S)
<1>1. Sound(R, S)
  BY ChainProps
<1>2. R["eip"] # <<"program", 0>>
  OBVIOUS
<1>3. PICK P, Q : InChain(P, Q) /\ Sound(P, Q) /\ Link(R, S, P, Q)
  BY <1>2, ChainProps
<1>4. PICK r \in Restorers : /\ S[1] = Entry(r) /\ Holds(R, S, P, Q, r, 0)
  <2>1. InHandler(R, S, P, Q)
    BY <1>3 DEF Link, InRestorer, Restorers
  <2> QED
    BY <2>1 DEF InHandler
<1>5. /\ L(r) \in Nat /\ L(r) > 1 /\ Len(Q) \in Nat /\ S \in Seq(Word)
      /\ Len(S) = L(r) + 1 + Len(Q) /\ Len(S) <= MaxStack
  <2>1. Q \in Seq(Word) /\ S \in Seq(Word) /\ Len(S) <= MaxStack
    BY <1>1, <1>3 DEF Sound
  <2>2. Len(S) = L(r) + 1 - 0 + Len(Q)
    BY <1>4 DEF Holds
  <2>3. L(r) \in Nat /\ L(r) > 1
    BY RestorerProps
  <2>4. Len(Q) \in Nat
    BY <2>1
  <2> QED
    BY <2>1, <2>2, <2>3, <2>4
<1>6. /\ U \in Seq(Word) /\ Len(U) = L(r) + Len(Q) /\ Len(U) <= MaxStack
      /\ Head(S) = <<r, 1>>
      /\ \A i \in 1..L(r) + Len(Q) : U[i] = S[i + 1]
  <2>1. Len(S) >= 1 /\ MaxStack \in Nat /\ Len(S) - 1 = L(r) + Len(Q)
    BY <1>5, SignalAssumption
  <2>2. /\ U \in Seq(Word) /\ Len(U) = Len(S) - 1 /\ Head(S) = S[1]
        /\ \A i \in 1..Len(S) - 1 : U[i] = S[i + 1]
    BY <1>5, <2>1, TailWords
  <2> QED
    BY <1>4, <1>5, <2>1, <2>2 DEF Entry
<1>7. /\ T \in [Registers -> Word] /\ T["eip"] = <<r, 1>> /\ \A q \in Saved : T[q] = R[q]
  <2>1. Head(S) \in Instruction
    BY <1>5, <1>6, InstructionProps
  <2> QED
    BY <1>1, <1>6, <2>1, EipProps DEF Sound
<1> HIDE DEF T, U
<1>8. Sound(T, U)
  <2>1. T["eip"] \in Instruction /\ T["eip"] # <<"program", 0>>
        /\ \A u \in Signal : T["eip"] # <<"handling", u>>
    BY <1>5, <1>7, InstructionProps DEF Restorers
  <2> QED
    BY <1>1, <1>6, <1>7, <2>1 DEF Sound
<1>9. Holds(T, U, P, Q, r, 1)
  <2>1. \A k \in 1..L(r) : WordFor(T, U, r, 1, k) = WordFor(R, S, r, 0, k)
    <3> TAKE k \in 1..L(r)
    <3>1. k \in Nat /\ k >= 1 /\ k - 1 + 1 = k /\ k - 0 + 1 = k + 1 /\ k \in 1..L(r) + Len(Q)
      BY <1>5
    <3> QED
      BY <1>6, <3>1 DEF WordFor
  <2>2. ASSUME NEW i \in 1..Len(Q) PROVE U[L(r) + 1 - 1 + i] = Q[i]
    <3>0. i \in Nat /\ i >= 1 /\ i <= Len(Q)
      BY <1>5
    <3>1. L(r) + 1 - 1 + i = L(r) + i /\ L(r) + i \in 1..L(r) + Len(Q)
          /\ L(r) + 1 - 0 + i = (L(r) + i) + 1
      BY ONLY <1>5, <3>0
    <3>2. S[L(r) + 1 - 0 + i] = Q[i]
      BY <1>4 DEF Holds
    <3> QED
      BY <1>6, <3>1, <3>2
  <2>3. Len(U) = L(r) + 1 - 1 + Len(Q)
    BY <1>5, <1>6
  <2> QED
    BY <1>4, <2>1, <2>2, <2>3 DEF Holds
<1>10. Link(T, U, P, Q)
  <2>1. 1 \in 1..L(r)
    BY <1>5
  <2> QED
    BY <1>7, <1>9, <2>1 DEF Link, InRestorer
<1> QED
  BY <1>3, <1>8, <1>10, ChainPush DEF T, U

\* The n-th instruction of the restorer r.
AfterTake(R, S, r, n) ==
    [q \in Registers |-> IF q = Restorer[r][n] THEN Head(S)
                         ELSE IF q = "eip" THEN <<r, n + 1>> ELSE R[q]]

LEMMA RestoreStep ==
    ASSUME NEW R, NEW S, InChain(R, S), NEW r \in Restorers, NEW n \in 1..L(r),
           R["eip"] = <<r, n>>
    PROVE  InChain(AfterTake(R, S, r, n), Tail(S))
<1> DEFINE to == Restorer[r][n]
           T == AfterTake(R, S, r, n)
           U == Tail(S)
<1>0. /\ L(r) \in Nat /\ L(r) > 1 /\ n \in Nat /\ n >= 1 /\ n <= L(r)
      /\ \A k \in 1..L(r) : Restorer[r][k] = "eip" <=> k = L(r)
      /\ \A k, m \in 1..L(r) : Restorer[r][k] = Restorer[r][m] => k = m
      /\ \A q \in Registers : \E k \in 1..L(r) : Restorer[r][k] = q
  BY RestorerProps
<1>1. Sound(R, S) /\ R["eip"] # <<"program", 0>>
  BY ChainProps DEF Restorers
<1>3. PICK P, Q : InChain(P, Q) /\ Sound(P, Q) /\ Link(R, S, P, Q)
  BY <1>1, ChainProps
<1>4. Holds(R, S, P, Q, r, n)
  <2>1. InRestorer(R, S, P, Q)
    BY <1>3 DEF Link, InHandler, Restorers
  <2>2. PICK r0 \in Restorers : \E n0 \in 1..L(r0) :
            R["eip"] = <<r0, n0>> /\ Holds(R, S, P, Q, r0, n0)
    BY <2>1 DEF InRestorer
  <2>3. PICK n0 \in 1..L(r0) : R["eip"] = <<r0, n0>> /\ Holds(R, S, P, Q, r0, n0)
    BY <2>2
  <2>4. r0 = r /\ n0 = n
    BY <2>3
  <2> QED
    BY <2>3, <2>4
<1>5. /\ Q \in Seq(Word) /\ Len(Q) \in Nat /\ S \in Seq(Word) /\ Len(S) <= MaxStack
      /\ Len(S) = L(r) + 1 - n + Len(Q) /\ MaxStack \in Nat
      /\ R \in [Registers -> Word] /\ P \in [Registers -> Word] /\ P["eip"] \in Instruction
      /\ \A q \in Saved : R[q] \in {q} \X (0..MaxStack) /\ P[q] \in {q} \X (0..MaxStack)
  <2>1. Q \in Seq(Word)
    BY <1>3 DEF Sound
  <2>2. Len(Q) \in Nat
    BY <2>1
  <2> QED
    BY <1>1, <1>3, <1>4, <2>1, <2>2, SignalAssumption DEF Sound, Holds
<1>6. /\ U \in Seq(Word) /\ Len(U) = L(r) - n + Len(Q) /\ Len(U) <= MaxStack
      /\ Head(S) = S[1]
      /\ \A i \in 1..L(r) - n + Len(Q) : U[i] = S[i + 1]
  <2>1. Len(S) >= 1 /\ Len(S) - 1 = L(r) - n + Len(Q)
    BY <1>0, <1>5
  <2>2. /\ U \in Seq(Word) /\ Len(U) = Len(S) - 1 /\ Head(S) = S[1]
        /\ \A i \in 1..Len(S) - 1 : U[i] = S[i + 1]
    BY <1>5, <2>1, TailWords
  <2> HIDE DEF U
  <2>3. Len(U) = L(r) - n + Len(Q) /\ Len(U) <= MaxStack
    <3>1. Len(S) \in Nat
      BY <1>5
    <3> QED
      BY ONLY <1>5, <2>1, <2>2, <3>1
  <2>4. \A i \in 1..L(r) - n + Len(Q) : U[i] = S[i + 1]
    BY ONLY <2>1, <2>2
  <2> QED
    BY ONLY <2>2, <2>3, <2>4
<1>7. to \in Registers => S[1] = P[to]
  <2>1. WordFor(R, S, r, n, n) = S[1]
    BY <1>0 DEF WordFor
  <2>2. n \in 1..L(r)
    OBVIOUS
  <2> QED
    BY <1>4, <2>1, <2>2 DEF Holds
<1>8. Registers = {"eip"} \cup Saved /\ "eip" \notin Saved
  BY DEF Registers, Saved
<1>9. /\ T = [q \in Registers |-> T[q]]
      /\ \A q \in Registers : T[q] = IF q = to THEN S[1]
                                     ELSE IF q = "eip" THEN <<r, n + 1>> ELSE R[q]
  BY <1>6 DEF AfterTake
<1> HIDE DEF T, U, to
<1>10. CASE n = L(r)
  <2>1. to = "eip"
    BY <1>0, <1>10 DEF to
  <2>2. T["eip"] = P["eip"]
    BY <1>7, <1>8, <1>9, <2>1
  <2>3. ASSUME NEW q \in Saved PROVE T[q] = P[q]
    <3>1. PICK k \in 1..L(r) : Restorer[r][k] = q
      BY <1>0, <1>8
    <3>2. k < n
      BY <1>0, <1>8, <1>10, <3>1
    <3>3. WordFor(R, S, r, n, k) = R[q] /\ WordFor(R, S, r, n, k) = P[q]
      BY <1>4, <1>8, <3>1, <3>2 DEF WordFor, Holds
    <3>4. T[q] = R[q]
      BY <1>8, <1>9, <2>1
    <3> QED
      BY <3>3, <3>4
  <2>4. T = P
    BY <1>5, <1>8, <1>9, <2>2, <2>3
  <2>5. Len(U) = Len(Q) /\ Len(Q) \in Nat
    BY <1>0, <1>5, <1>6, <1>10
  <2>6. ASSUME NEW i \in 1..Len(U) PROVE U[i] = Q[i]
    <3>1. S[L(r) + 1 - n + i] = Q[i]
      BY <1>4, <2>5 DEF Holds
    <3>2. L(r) + 1 - n + i = i + 1 /\ i \in 1..L(r) - n + Len(Q)
      <4>1. PICK a \in Nat : a = Len(Q) /\ i \in 1..a
        BY ONLY <2>5, i \in 1..Len(U)
      <4>2. PICK l \in Nat : l = L(r) /\ n = l
        BY ONLY <1>0, <1>10
      <4> QED
        BY ONLY <4>1, <4>2
    <3> QED
      BY <1>6, <3>1, <3>2
  <2>7. U = Q
    BY <1>5, <1>6, <2>5, <2>6
  <2> QED
    BY <1>3, <2>4, <2>7 DEF T, U
<1>11. CASE n # L(r)
  <2>0. n + 1 \in 1..L(r)
    BY <1>0, <1>11
  <2>1. to # "eip"
    BY <1>0, <1>11 DEF to
  <2>2. T["eip"] = <<r, n + 1>> /\ T["eip"] \in Instruction
    <3>1. <<r, n + 1>> \in Instruction
      BY <2>0, InstructionProps
    <3> QED
      BY <1>8, <1>9, <2>1, <3>1
  <2>3. \A q \in Saved : T[q] = IF q = to THEN P[q] ELSE R[q]
    BY <1>7, <1>8, <1>9
  <2>4. T \in [Registers -> Word]
    <3>1. \A q \in Registers : T[q] \in Word
      BY <1>5, <1>8, <2>2, <2>3, InstructionProps
    <3> QED
      BY <1>9, <3>1
  <2>5. Sound(T, U)
    <3>1. \A u \in Signal : T["eip"] # <<"handling", u>> /\ T["eip"] # <<"program", 0>>
      BY <2>2 DEF Restorers
    <3>2. T["eip"] # <<"program", 0>>
      BY <2>2 DEF Restorers
    <3>3. \A q \in Saved : T[q] \in {q} \X (0..MaxStack)
      BY <1>5, <2>3
    <3> QED
      BY <1>6, <2>2, <2>4, <3>1, <3>2, <3>3 DEF Sound
  <2>6. Holds(T, U, P, Q, r, n + 1)
    <3>1. ASSUME NEW k \in 1..L(r), Restorer[r][k] \in Registers
          PROVE  WordFor(T, U, r, n + 1, k) = P[Restorer[r][k]]
      <4>0. WordFor(R, S, r, n, k) = P[Restorer[r][k]] /\ k \in Nat /\ k >= 1 /\ k <= L(r)
        BY <1>0, <1>4, <3>1 DEF Holds
      <4>1. CASE k < n
        <5>1. Restorer[r][k] # to /\ Restorer[r][k] # "eip"
          BY <1>0, <1>11, <4>1 DEF to
        <5>2. T[Restorer[r][k]] = R[Restorer[r][k]]
          BY <1>9, <3>1, <5>1
        <5> QED
          BY <1>0, <4>0, <4>1, <5>2 DEF WordFor
      <4>2. CASE k = n
        <5>1. T[to] = P[to] /\ Restorer[r][k] = to
          BY <1>7, <1>9, <3>1, <4>2 DEF to
        <5>2. k < n + 1
          BY <1>0, <4>2
        <5> QED
          BY <5>1, <5>2 DEF WordFor
      <4>3. CASE k > n
        <5>1. ~(k < n) /\ ~(k < n + 1) /\ k - (n + 1) + 1 = k - n
              /\ k - n \in 1..L(r) - n + Len(Q)
          <6>1. PICK a \in Nat, b \in Nat : a = L(r) /\ b = Len(Q)
            BY <1>0, <1>5
          <6>2. n \in Nat /\ n >= 1 /\ k \in Nat /\ k <= a /\ k > n
            BY <1>0, <4>0, <4>3, <6>1
          <6> QED
            BY ONLY <6>1, <6>2
        <5>2. U[k - n] = S[k - n + 1]
          BY <1>6, <5>1
        <5> QED
          BY <4>0, <5>1, <5>2 DEF WordFor
      <4> QED
        BY <1>0, <4>0, <4>1, <4>2, <4>3
    <3>2. ASSUME NEW i \in 1..Len(Q) PROVE U[L(r) + 1 - (n + 1) + i] = Q[i]
      <4>0. i \in Nat /\ i >= 1 /\ i <= Len(Q)
        BY <1>5
      <4>1. /\ L(r) + 1 - (n + 1) + i \in 1..L(r) - n + Len(Q)
            /\ (L(r) + 1 - (n + 1) + i) + 1 = L(r) + 1 - n + i
        <5>1. PICK a \in Nat, b \in Nat : a = L(r) /\ b = Len(Q)
          BY <1>0, <1>5
        <5>2. n \in Nat /\ n >= 1 /\ n < a
          BY <1>0, <1>11, <5>1
        <5>3. a + 1 - (n + 1) + i = a - n + i /\ a - n + i >= 1 /\ a - n + i <= a - n + b
          BY ONLY <4>0, <5>1, <5>2
        <5>4. (a - n + i) + 1 = a + 1 - n + i /\ a - n + i \in Nat /\ a - n + b \in Nat
          BY ONLY <4>0, <5>1, <5>2
        <5> QED
          BY ONLY <5>1, <5>2, <5>3, <5>4
      <4>2. S[L(r) + 1 - n + i] = Q[i]
        BY <1>4 DEF Holds
      <4> QED
        BY <1>6, <4>1, <4>2
    <3>3. Len(U) = L(r) + 1 - (n + 1) + Len(Q)
      BY <1>0, <1>5, <1>6
    <3> QED
      BY <3>1, <3>2, <3>3 DEF Holds
  <2>7. Link(T, U, P, Q)
    BY <2>0, <2>2, <2>6 DEF Link, InRestorer
  <2> QED
    BY <1>3, <2>5, <2>7, ChainPush DEF T, U
<1> QED
  BY <1>10, <1>11

\* Sequences that are written in parts.
LEMMA JoinSeven ==
    ASSUME NEW x, NEW g, NEW a, NEW b, NEW c, NEW d, NEW e
    PROVE  <<x, g>> \o << >> \o <<a, b, c, d, e>> = <<x, g, a, b, c, d, e>>
<1> DEFINE W == {x, g, a, b, c, d, e}
           q == <<a, b, c, d, e>>
           t == <<x, g, a, b, c, d, e>>
           u == <<x, g>> \o q
<1>1. <<x, g>> \o << >> = <<x, g>>
  OBVIOUS
<1>2. u \in Seq(W) /\ Len(u) = 7
  OBVIOUS
<1>3. t \in Seq(W) /\ Len(t) = 7
  OBVIOUS
<1>4. u[1] = t[1] /\ u[2] = t[2] /\ u[3] = t[3] /\ u[4] = t[4] /\ u[5] = t[5]
      /\ u[6] = t[6] /\ u[7] = t[7]
  OBVIOUS
<1>5. \A i \in 1..7 : i = 1 \/ i = 2 \/ i = 3 \/ i = 4 \/ i = 5 \/ i = 6 \/ i = 7
  OBVIOUS
<1> HIDE DEF u, t, W
<1>6. \A i \in 1..7 : u[i] = t[i]
  BY <1>4, <1>5
<1>7. u = t
  BY <1>2, <1>3, <1>6
<1> QED
  BY <1>1, <1>7 DEF u, t

LEMMA JoinEight ==
    ASSUME NEW x, NEW g, NEW h, NEW a, NEW b, NEW c, NEW d, NEW e
    PROVE  <<x, g>> \o <<h>> \o <<a, b, c, d, e>> = <<x, g, h, a, b, c, d, e>>
<1> DEFINE W == {x, g, h, a, b, c, d, e}
           q == <<a, b, c, d, e>>
           v == <<x, g>> \o <<h>>
           t == <<x, g, h, a, b, c, d, e>>
           u == <<x, g, h>> \o q
<1>1. v = <<x, g, h>>
  <2>1. v \in Seq({x, g, h}) /\ Len(v) = 3 /\ <<x, g, h>> \in Seq({x, g, h})
    OBVIOUS
  <2>2. v[1] = x /\ v[2] = g /\ v[3] = h
    OBVIOUS
  <2> HIDE DEF v
  <2>3. \A i \in 1..3 : v[i] = <<x, g, h>>[i]
    BY <2>2
  <2> QED
    BY <2>1, <2>3
<1>2. u \in Seq(W) /\ Len(u) = 8
  OBVIOUS
<1>3. t \in Seq(W) /\ Len(t) = 8
  OBVIOUS
<1>4. u[1] = t[1] /\ u[2] = t[2] /\ u[3] = t[3] /\ u[4] = t[4] /\ u[5] = t[5]
      /\ u[6] = t[6] /\ u[7] = t[7] /\ u[8] = t[8]
  OBVIOUS
<1>5. \A i \in 1..8 : i = 1 \/ i = 2 \/ i = 3 \/ i = 4 \/ i = 5 \/ i = 6 \/ i = 7 \/ i = 8
  OBVIOUS
<1> HIDE DEF u, t, W
<1>6. \A i \in 1..8 : u[i] = t[i]
  BY <1>4, <1>5
<1>7. u = t
  BY <1>2, <1>3, <1>6
<1> QED
  BY <1>1, <1>7 DEF u, t

\* The frame of s: what its restorer takes, each word in its place.
RestorerOf(s) == IF sigaction[s].nomask THEN "sig" ELSE "masksig"

LEMMA FrameIs ==
    ASSUME NEW s \in Signal, Sound(reg, stack), sigaction \in [Signal -> Action]
    PROVE  LET F == Frame(s)
               r == RestorerOf(s)
           IN  /\ r \in Restorers /\ F \in Seq(Word) /\ Len(F) = L(r) + 1 /\ Longs(s) = L(r) + 1
               /\ F[1] = Entry(r) /\ F[2] = <<"signr", s>>
               /\ \A k \in 1..L(r) : Restorer[r][k] \in Registers =>
                                         F[k + 1] = reg[Restorer[r][k]]
               /\ F[L(r) + 1] = reg["eip"]
               /\ \A j \in 2..L(r) : F[j] \notin Entries
<1>1. /\ reg["eip"] \in Word
      /\ \A q \in Saved : reg[q] \in Word /\ reg[q] \notin Entries
  <2>1. reg["eip"] \in Word
    BY InstructionProps DEF Sound
  <2>2. ASSUME NEW q \in Saved PROVE reg[q] \in Word /\ reg[q] \notin Entries
    <3>1. reg \in [Registers -> Word] /\ reg[q] \in {q} \X (0..MaxStack)
      BY DEF Sound
    <3>2. q \in Registers
      BY DEF Saved, Registers
    <3>3. \A r \in Restorers : reg[q] # Entry(r)
      BY <3>1 DEF Entry, Restorers, Saved
    <3> QED
      BY <3>1, <3>2, <3>3, InstructionProps
  <2> QED
    BY <2>1, <2>2
<1>2. /\ <<"signr", s>> \in Word /\ <<"signr", s>> \notin Entries
      /\ <<"blocked", 0>> \in Word /\ <<"blocked", 0>> \notin Entries
      /\ \A r \in Restorers : Entry(r) \in Word
  <2>1. /\ \A r \in Restorers : <<"signr", s>> # Entry(r) /\ <<"blocked", 0>> # Entry(r)
    BY DEF Entry, Restorers
  <2>2. <<"signr", s>> \in Word /\ <<"blocked", 0>> \in Word
    BY DEF Word
  <2> QED
    BY <2>1, <2>2, InstructionProps
<1>3. sigaction[s].nomask \in BOOLEAN
  BY DEF Action
<1> DEFINE a == reg["eax"]
           b == reg["ecx"]
           c == reg["edx"]
           d == reg["eflags"]
           e == reg["eip"]
           g == <<"signr", s>>
           h == <<"blocked", 0>>
<1>4. /\ a \in Word /\ b \in Word /\ c \in Word /\ d \in Word
      /\ a \notin Entries /\ b \notin Entries /\ c \notin Entries /\ d \notin Entries
      /\ e \in Word
  BY <1>1 DEF Saved
<1>5. CASE sigaction[s].nomask
  <2> DEFINE F == <<Entry("sig"), g, a, b, c, d, e>>
  <2>1. Frame(s) = F
    <3>1. Frame(s) = <<Entry("sig"), g>> \o << >> \o <<a, b, c, d, e>>
      BY <1>5 DEF Frame
    <3> DEFINE x == Entry("sig")
    <3> HIDE DEF a, b, c, d, e, g, x
    <3>2. <<x, g>> \o << >> \o <<a, b, c, d, e>> = <<x, g, a, b, c, d, e>>
      BY JoinSeven
    <3> QED
      BY <3>1, <3>2 DEF x
  <2>2. RestorerOf(s) = "sig" /\ L("sig") = 6 /\ Longs(s) = 7 /\ "sig" \in Restorers
    BY <1>5 DEF RestorerOf, L, Longs, Restorers
  <2>3. Restorer["sig"] = <<"signr", "eax", "ecx", "edx", "eflags", "eip">>
    BY DEF Restorer
  <2>4. Entry("sig") \in Word
    BY <1>2, <2>2
  <2> HIDE DEF a, b, c, d, e, g
  <2>5. F \in Seq(Word) /\ Len(F) = 7
    BY <1>2, <1>4, <2>4 DEF g
  <2>6. F[1] = Entry("sig") /\ F[2] = g /\ F[3] = a /\ F[4] = b /\ F[5] = c /\ F[6] = d /\ F[7] = e
    OBVIOUS
  <2> HIDE DEF F
  <2>7. \A j \in 2..6 : F[j] \notin Entries
    <3>1. \A j \in 2..6 : j = 2 \/ j = 3 \/ j = 4 \/ j = 5 \/ j = 6
      OBVIOUS
    <3> QED
      BY <1>2, <1>4, <2>6, <3>1 DEF g
  <2>8. \A k \in 1..6 : Restorer["sig"][k] \in Registers => F[k + 1] = reg[Restorer["sig"][k]]
    <3>1. \A k \in 1..6 : k = 1 \/ k = 2 \/ k = 3 \/ k = 4 \/ k = 5 \/ k = 6
      OBVIOUS
    <3>2. /\ Restorer["sig"][1] = "signr" /\ Restorer["sig"][2] = "eax" /\ Restorer["sig"][3] = "ecx"
          /\ Restorer["sig"][4] = "edx" /\ Restorer["sig"][5] = "eflags" /\ Restorer["sig"][6] = "eip"
      BY <2>3
    <3>3. "signr" \notin Registers
      BY DEF Registers
    <3> QED
      BY <2>6, <3>1, <3>2, <3>3 DEF a, b, c, d, e
  <2> QED
    BY <2>1, <2>2, <2>5, <2>6, <2>7, <2>8 DEF e, g
<1>6. CASE ~sigaction[s].nomask
  <2> DEFINE F == <<Entry("masksig"), g, h, a, b, c, d, e>>
  <2>1. Frame(s) = F
    <3>1. Frame(s) = <<Entry("masksig"), g>> \o <<h>> \o <<a, b, c, d, e>>
      BY <1>6 DEF Frame
    <3> DEFINE x == Entry("masksig")
    <3> HIDE DEF a, b, c, d, e, g, h, x
    <3>2. <<x, g>> \o <<h>> \o <<a, b, c, d, e>> = <<x, g, h, a, b, c, d, e>>
      BY JoinEight
    <3> QED
      BY <3>1, <3>2 DEF x
  <2>2. RestorerOf(s) = "masksig" /\ L("masksig") = 7 /\ Longs(s) = 8 /\ "masksig" \in Restorers
    BY <1>6 DEF RestorerOf, L, Longs, Restorers
  <2>3. Restorer["masksig"] = <<"signr", "blocked", "eax", "ecx", "edx", "eflags", "eip">>
    BY DEF Restorer
  <2>4. Entry("masksig") \in Word
    BY <1>2, <2>2
  <2> HIDE DEF a, b, c, d, e, g, h
  <2>5. F \in Seq(Word) /\ Len(F) = 8
    BY <1>2, <1>4, <2>4 DEF g, h
  <2>6. /\ F[1] = Entry("masksig") /\ F[2] = g /\ F[3] = h /\ F[4] = a /\ F[5] = b
        /\ F[6] = c /\ F[7] = d /\ F[8] = e
    OBVIOUS
  <2> HIDE DEF F
  <2>7. \A j \in 2..7 : F[j] \notin Entries
    <3>1. \A j \in 2..7 : j = 2 \/ j = 3 \/ j = 4 \/ j = 5 \/ j = 6 \/ j = 7
      OBVIOUS
    <3> QED
      BY <1>2, <1>4, <2>6, <3>1 DEF g, h
  <2>8. \A k \in 1..7 : Restorer["masksig"][k] \in Registers => F[k + 1] = reg[Restorer["masksig"][k]]
    <3>1. \A k \in 1..7 : k = 1 \/ k = 2 \/ k = 3 \/ k = 4 \/ k = 5 \/ k = 6 \/ k = 7
      OBVIOUS
    <3>2. /\ Restorer["masksig"][1] = "signr" /\ Restorer["masksig"][2] = "blocked"
          /\ Restorer["masksig"][3] = "eax" /\ Restorer["masksig"][4] = "ecx"
          /\ Restorer["masksig"][5] = "edx" /\ Restorer["masksig"][6] = "eflags"
          /\ Restorer["masksig"][7] = "eip"
      BY <2>3
    <3>3. "signr" \notin Registers /\ "blocked" \notin Registers
      BY DEF Registers
    <3> QED
      BY <2>6, <3>1, <3>2, <3>3 DEF a, b, c, d, e
  <2> QED
    BY <2>1, <2>2, <2>5, <2>6, <2>7, <2>8 DEF e, g
<1> QED
  BY <1>3, <1>5, <1>6

\* The stack with it.
Pushed(A, S, T) ==
    /\ T \in Seq(Word) /\ Len(T) = Len(A) + Len(S)
    /\ Len(A) \in Nat /\ Len(S) \in Nat
    /\ \A i \in 1..Len(A) : T[i] = A[i]
    /\ \A i \in 1..Len(S) : T[Len(A) + i] = S[i]

LEMMA PushProps ==
    ASSUME NEW A \in Seq(Word), NEW S \in Seq(Word)
    PROVE  Pushed(A, S, A \o SubSeq(S, 1, Len(S)))
<1>1. SubSeq(S, 1, Len(S)) = S
  OBVIOUS
<1>2. /\ A \o S \in Seq(Word) /\ Len(A \o S) = Len(A) + Len(S)
      /\ Len(A) \in Nat /\ Len(S) \in Nat
      /\ \A i \in 1..Len(A) : (A \o S)[i] = A[i]
      /\ \A i \in 1..Len(S) : (A \o S)[Len(A) + i] = S[i]
  OBVIOUS
<1>3. Pushed(A, S, A \o S)
  BY <1>2 DEF Pushed
<1> QED
  BY <1>1, <1>3

LEMMA FrameOnStack ==
    ASSUME NEW s \in Signal, Sound(reg, stack), sigaction \in [Signal -> Action]
    PROVE  LET F == Write(Frame(s), Longs(s))
               r == RestorerOf(s)
           IN  /\ r \in Restorers /\ F \in Seq(Word) /\ Len(F) = L(r) + 1 + Len(stack)
               /\ L(r) \in 6..7 /\ Len(stack) \in Nat
               /\ F[1] = Entry(r) /\ F[2] = <<"signr", s>>
               /\ \A k \in 1..L(r) : Restorer[r][k] \in Registers =>
                                         F[k + 1] = reg[Restorer[r][k]]
               /\ F[L(r) + 1] = reg["eip"]
               /\ \A j \in 2..L(r) : F[j] \notin Entries
               /\ \A i \in 1..Len(stack) : F[L(r) + 1 + i] = stack[i]
<1> DEFINE G == Frame(s)
           F == Write(G, Longs(s))
           r == RestorerOf(s)
<1>1. /\ r \in Restorers /\ G \in Seq(Word) /\ Len(G) = L(r) + 1 /\ Longs(s) = L(r) + 1
      /\ G[1] = Entry(r) /\ G[2] = <<"signr", s>>
      /\ \A k \in 1..L(r) : Restorer[r][k] \in Registers => G[k + 1] = reg[Restorer[r][k]]
      /\ G[L(r) + 1] = reg["eip"]
      /\ \A j \in 2..L(r) : G[j] \notin Entries
  BY FrameIs
<1>2. L(r) \in 6..7 /\ stack \in Seq(Word)
  BY <1>1 DEF L, Restorers, Sound
<1> HIDE DEF G, r
<1> PICK l \in 6..7 : l = L(r)
  BY <1>2
<1>3. F = G \o SubSeq(stack, 1, Len(stack))
  <2>1. Len(G) - Longs(s) + 1 = 1
    BY <1>1
  <2> QED
    BY <2>1 DEF Write
<1> HIDE DEF F
<1>4. /\ F \in Seq(Word) /\ Len(F) = l + 1 + Len(stack) /\ Len(stack) \in Nat
      /\ \A i \in 1..l + 1 : F[i] = G[i]
      /\ \A i \in 1..Len(stack) : F[l + 1 + i] = stack[i]
  <2>1. Len(G) = l + 1 /\ G \in Seq(Word) /\ stack \in Seq(Word)
    BY <1>1, <1>2
  <2>2. /\ F \in Seq(Word) /\ Len(F) = Len(G) + Len(stack) /\ Len(stack) \in Nat
        /\ \A i \in 1..Len(G) : F[i] = G[i]
        /\ \A i \in 1..Len(stack) : F[Len(G) + i] = stack[i]
    <3>1. Pushed(G, stack, F)
      BY <1>3, <2>1, PushProps
    <3> QED
      BY <3>1 DEF Pushed
  <2> QED
    BY <2>1, <2>2
<1>5. \A k \in 1..l : k + 1 \in 1..l + 1
  OBVIOUS
<1>6. 1 \in 1..l + 1 /\ 2 \in 1..l + 1 /\ l + 1 \in 1..l + 1 /\ \A j \in 2..l : j \in 1..l + 1
  OBVIOUS
<1> QED
  BY <1>1, <1>4, <1>5, <1>6 DEF F, G, r

\* A signal is delivered to its handler.
LEMMA DeliverStep ==
    ASSUME NEW s \in Signal, ContextInv, Len(stack) + 8 <= MaxStack
    PROVE  InChain([reg EXCEPT !["eip"] = <<"handler", s>>], Write(Frame(s), Longs(s)))
<1> DEFINE T == [reg EXCEPT !["eip"] = <<"handler", s>>]
           U == Write(Frame(s), Longs(s))
           r == RestorerOf(s)
<1>1. InChain(reg, stack) /\ Sound(reg, stack) /\ sigaction \in [Signal -> Action]
  BY ChainProps DEF ContextInv, Rest
<1>2. /\ r \in Restorers /\ U \in Seq(Word) /\ Len(U) = L(r) + 1 + Len(stack)
      /\ L(r) \in 6..7 /\ Len(stack) \in Nat
      /\ U[1] = Entry(r) /\ U[2] = <<"signr", s>>
      /\ \A k \in 1..L(r) : Restorer[r][k] \in Registers => U[k + 1] = reg[Restorer[r][k]]
      /\ \A i \in 1..Len(stack) : U[L(r) + 1 + i] = stack[i]
  BY <1>1, FrameOnStack
<1>3. <<"handler", s>> \in Instruction
  BY InstructionProps
<1>4. T \in [Registers -> Word] /\ T["eip"] = <<"handler", s>> /\ \A q \in Saved : T[q] = reg[q]
  BY <1>1, <1>3, EipProps DEF Sound
<1> HIDE DEF T, U, r
<1>5. Sound(T, U)
  <2>1. Len(U) <= MaxStack
    BY <1>2, SignalAssumption
  <2>2. T["eip"] # <<"program", 0>> /\ \A u \in Signal : T["eip"] # <<"handling", u>>
    BY <1>4
  <2>3. \A q \in Saved : T[q] \in {q} \X (0..MaxStack)
    BY <1>1, <1>4 DEF Sound
  <2> QED
    BY <1>2, <1>3, <1>4, <2>1, <2>2, <2>3 DEF Sound
<1>6. Holds(T, U, reg, stack, r, 0)
  <2>1. \A k \in 1..L(r) : WordFor(T, U, r, 0, k) = U[k + 1]
    <3> TAKE k \in 1..L(r)
    <3>1. ~(k < 0) /\ k - 0 + 1 = k + 1
      BY <1>2
    <3> QED
      BY <3>1 DEF WordFor
  <2>2. L(r) + 1 - 0 = L(r) + 1
    BY <1>2
  <2> QED
    BY <1>2, <2>1, <2>2 DEF Holds
<1>7. Link(T, U, reg, stack)
  BY <1>2, <1>4, <1>6 DEF Link, InHandler
<1> QED
  BY <1>1, <1>5, <1>7, ChainPush DEF T, U

-----------------------------------------------------------------------------
\* Contexts: the invariant.
LEMMA ContextInit == Init => ContextInv
<1> SUFFICES ASSUME Init PROVE ContextInv
  OBVIOUS
<1>1. InChain(reg, stack)
  BY ChainEnd DEF Init
<1>2. Rest
  BY DEF Init, Rest, Action, Handlers
<1> QED
  BY <1>1, <1>2 DEF ContextInv

\* do_signal() keeps the kind of the action.
LEMMA OneshotType ==
    ASSUME NEW s \in Signal, sigaction \in [Signal -> Action]
    PROVE  [sigaction EXCEPT ![s].sa_handler = "SIG_DFL"] \in [Signal -> Action]
  BY DEF Action, Handlers

LEMMA ContextNext == ContextInv /\ [Next]_vars => ContextInv'
<1> SUFFICES ASSUME ContextInv, [Next]_vars PROVE ContextInv'
  OBVIOUS
<1>1. Rest /\ InChain(reg, stack) /\ Sound(reg, stack)
  BY ChainProps DEF ContextInv
<1> USE SignalAssumption
<1>2. ASSUME NEW s \in Signal, NEW a \in Requests, SigAction(s, a)
      PROVE  ContextInv'
  <2>1. a \in Action
    OBVIOUS
  <2>2. [a EXCEPT !.sa_mask = IF a.nomask THEN {} ELSE @ \cup {s}] \in Action
    BY <2>1 DEF Action
  <2>3. sigaction' \in [Signal -> Action]
    BY <1>1, <1>2, <2>2 DEF SigAction, Rest
  <2> QED
    BY <1>1, <1>2, <2>3 DEF SigAction, ContextInv, Rest
<1>3. ASSUME NEW m \in SUBSET Signal, SSetMask(m)
      PROVE  ContextInv'
  BY <1>1, <1>3 DEF SSetMask, ContextInv, Rest
<1>4. ASSUME NEW s \in Signal, Raise(s)
      PROVE  ContextInv'
  BY <1>1, <1>4 DEF Raise, ContextInv, Rest
<1>5. ASSUME Return
      PROVE  ContextInv'
  <2>1. PICK s \in signal \ blocked : signal' = Taken(s) /\ DoSignal(s)
    BY <1>5 DEF Return
  <2>2. s \in Signal
    BY <1>1 DEF Rest
  <2>3. signal' \subseteq Signal
    BY <1>1, <2>1 DEF Taken, Rest
  <2>4. CASE sigaction[s].sa_handler # "function"
    BY <1>1, <2>1, <2>3, <2>4 DEF DoSignal, ContextInv, Rest
  <2>5. CASE sigaction[s].sa_handler = "function"
    <3>1. /\ Len(stack) + 8 <= MaxStack
          /\ stack' = Write(Frame(s), Longs(s))
          /\ reg' = [reg EXCEPT !["eip"] = <<"handler", s>>]
          /\ sigaction' = IF sigaction[s].oneshot
                          THEN [sigaction EXCEPT ![s].sa_handler = "SIG_DFL"]
                          ELSE sigaction
          /\ blocked' = Masked(s)
      BY <2>1, <2>5 DEF DoSignal
    <3>2. InChain(reg', stack')
      BY <2>2, <3>1, DeliverStep
    <3>3. sigaction' \in [Signal -> Action]
      BY <1>1, <2>2, <3>1, OneshotType DEF Rest
    <3>4. blocked' \subseteq Signal
      BY <1>1, <2>2, <3>1 DEF Masked, Rest, Action
    <3> QED
      BY <2>3, <3>2, <3>3, <3>4 DEF ContextInv, Rest
  <2> QED
    BY <2>4, <2>5
<1>6. ASSUME NEW s \in Signal, Handle(s)
      PROVE  ContextInv'
  <2>1. reg["eip"] = <<"handler", s>> /\ reg' = Own(<<"handling", s>>, DepthOf(stack))
    BY <1>6 DEF Handle, Depth, DepthOf
  <2>2. InChain(reg', stack)
    BY <1>1, <2>1, HandleStep
  <2> QED
    BY <1>1, <1>6, <2>2 DEF Handle, ContextInv, Rest
<1>7. ASSUME NEW s \in Signal, HandlerReturns(s)
      PROVE  ContextInv'
  <2>1. /\ reg["eip"] = <<"handling", s>>
        /\ reg' = [reg EXCEPT !["eip"] = Head(stack)] /\ stack' = Tail(stack)
    BY <1>7 DEF HandlerReturns
  <2>2. InChain(reg', stack')
    BY <1>1, <2>1, HandlerReturnsStep
  <2> QED
    BY <1>1, <1>7, <2>2 DEF HandlerReturns, ContextInv, Rest
<1>8. ASSUME NEW r \in DOMAIN Restorer, NEW n \in DOMAIN Restorer[r], Restore(r, n)
      PROVE  ContextInv'
  <2>1. r \in Restorers /\ n \in 1..L(r)
    BY RestorerProps
  <2>2. /\ reg["eip"] = <<r, n>>
        /\ reg' = AfterTake(reg, stack, r, n) /\ stack' = Tail(stack)
    BY <1>8 DEF Restore, AfterTake
  <2>3. InChain(reg', stack')
    BY <1>1, <2>1, <2>2, RestoreStep
  <2> QED
    BY <1>1, <1>8, <2>3 DEF Restore, ContextInv, Rest
<1>9. CASE UNCHANGED vars
  BY <1>1, <1>9 DEF vars, ContextInv, Rest
<1> QED
  BY <1>2, <1>3, <1>4, <1>5, <1>6, <1>7, <1>8, <1>9 DEF Next, UserStep

\* What the invariant says of the running code.
LEMMA ContextMeans == ContextInv => ContextKept
<1> SUFFICES ASSUME ContextInv PROVE ContextKept
  OBVIOUS
<1>1. Rest /\ InChain(reg, stack) /\ Sound(reg, stack)
  BY ChainProps DEF ContextInv
<1>2. TypeOK
  BY <1>1 DEF TypeOK, Rest, Sound
<1>3. InProgram => stack = << >> /\ reg = Own(<<"program", 0>>, 0)
  BY <1>1 DEF InProgram, Sound
<1>4. ASSUME reg["eip"][1] = "handling"
      PROVE  /\ reg = Own(reg["eip"], Depth)
             /\ Head(stack) \in Entries
             /\ stack[2] = <<"signr", reg["eip"][2]>>
  <2>1. reg["eip"] \in Instruction
    BY <1>1 DEF Sound
  <2>2. PICK s \in Signal : reg["eip"] = <<"handling", s>>
    <3>1. ASSUME NEW r \in Restorers, NEW n, reg["eip"] = <<r, n>>
          PROVE  FALSE
      BY <1>4, <3>1 DEF Restorers
    <3> QED
      BY <1>4, <2>1, <3>1, InstructionProps
  <2>3. reg = Own(reg["eip"], Depth)
    BY <1>1, <2>2 DEF Sound, Depth, DepthOf
  <2>4. reg["eip"] # <<"program", 0>>
    BY <2>2
  <2>5. PICK P, Q : Sound(P, Q) /\ Link(reg, stack, P, Q)
    BY <1>1, <2>4, ChainProps
  <2>6. PICK u \in Signal, r \in Restorers :
            /\ reg["eip"] = <<"handler", u>> \/ reg["eip"] = <<"handling", u>>
            /\ stack[1] = Entry(r) /\ stack[2] = <<"signr", u>>
            /\ Holds(reg, stack, P, Q, r, 0)
    <3>1. InHandler(reg, stack, P, Q)
      BY <2>2, <2>5 DEF Link, InRestorer, Restorers
    <3> QED
      BY <3>1 DEF InHandler
  <2>7. u = s
    BY <2>2, <2>6
  <2>8. Head(stack) = stack[1]
    <3>1. Q \in Seq(Word) /\ stack \in Seq(Word)
      BY <1>1, <2>5 DEF Sound
    <3>2. Len(stack) = L(r) + 1 - 0 + Len(Q) /\ L(r) \in Nat
      BY <2>6, RestorerProps DEF Holds
    <3>3. Len(Q) \in Nat
      BY <3>1
    <3>4. Len(stack) >= 1
      BY <3>2, <3>3
    <3> QED
      BY <3>1, <3>4, TailWords
  <2> QED
    BY <2>2, <2>3, <2>6, <2>7, <2>8, InstructionProps
<1> QED
  BY <1>2, <1>3, <1>4 DEF ContextKept

\* Interrupted code goes on with its registers and its stack (ContextKept),
\* however deep the handlers nest and wherever a signal finds them: the frames
\* of do_signal() and the two restorers fit each other.
THEOREM ContextIsKept == Spec => []ContextKept
<1>1. Spec => []ContextInv
  BY ContextInit, ContextNext, PTL DEF Spec
<1> QED
  BY <1>1, ContextMeans, PTL

-----------------------------------------------------------------------------
(***************************************************************************)
(* Handlers that have been called and have not returned.  Their entries    *)
(* are looked for on the stack and, word 0, in eip: the restorer that a    *)
(* handler has just returned to may be interrupted before it does          *)
(* anything, and then its address is on the stack again.                   *)
(***************************************************************************)
At(R, S, i) == IF i = 0 THEN R["eip"] ELSE S[i]

Called(R, S, s) ==
    {i \in 0..Len(S) : At(R, S, i) \in Entries /\ i < Len(S) /\ S[i + 1] = <<"signr", s>>}

\* S is what is left of U when k words have been taken.
Left(S, U, k) == Len(U) = k + Len(S) /\ \A i \in 1..Len(S) : U[k + i] = S[i]

\* The program is at the bottom.
Bottom(R, S) == At(R, S, Len(S)) = <<"program", 0>>

\* An action that calls a handler masks its own signal, unless SA_NOMASK.
MasksItself(s) ==
    sigaction[s].sa_handler = "function" => (sigaction[s].nomask \/ s \in sigaction[s].sa_mask)

\* The signal of a handler that has not returned cannot be delivered, unless SA_NOMASK,
\* nor after SA_ONESHOT.
Guarded(s) ==
    /\ sigaction[s].nomask \/ s \in blocked
    /\ sigaction[s].oneshot => sigaction[s].sa_handler # "function"

MayNest(s) == sigaction[s].nomask /\ ~sigaction[s].oneshot

OnceInv ==
    /\ Bottom(reg, stack)
    /\ \A s \in Signal : MasksItself(s)
    /\ \A s \in Signal : \A i \in Called(reg, stack, s) : Guarded(s)
    /\ \A s \in Signal : \A i, j \in Called(reg, stack, s) : i # j => MayNest(s)

NestInv == ContextInv /\ OnceInv

LEMMA EntryProps ==
    /\ <<"program", 0>> \notin Entries
    /\ \A s \in Signal : <<"handler", s>> \notin Entries /\ <<"handling", s>> \notin Entries
    /\ \A r \in Restorers : \A n \in Nat : n > 1 => <<r, n>> \notin Entries
<1>1. \A w \in Entries : w = <<"sig", 1>> \/ w = <<"masksig", 1>>
  BY InstructionProps DEF Entry, Restorers
<1>2. <<"program", 0>> \notin Entries
  BY <1>1
<1>3. \A s \in Signal : <<"handler", s>> \notin Entries /\ <<"handling", s>> \notin Entries
  BY <1>1
<1>4. ASSUME NEW r \in Restorers, NEW n \in Nat, n > 1 PROVE <<r, n>> \notin Entries
  BY <1>1, <1>4
<1> QED
  BY <1>2, <1>3, <1>4

\* The calls of the words that are left when k words have been taken.
LEMMA CallsMoved ==
    ASSUME NEW R, NEW S \in Seq(Word), NEW T, NEW U \in Seq(Word), NEW k \in Nat,
           Left(S, U, k),
           R["eip"] \notin Entries \/ At(T, U, k) = R["eip"],
           NEW s, NEW i \in Called(R, S, s)
    PROVE  k + i \in Called(T, U, s)
<1>1. Len(S) \in Nat
  OBVIOUS
<1>2. PICK l \in Nat : l = Len(S) /\ Len(U) = k + l /\ \A j \in 1..l : U[k + j] = S[j]
  BY <1>1 DEF Left
<1>3. i \in 0..l /\ At(R, S, i) \in Entries /\ i < l /\ S[i + 1] = <<"signr", s>>
  BY <1>2 DEF Called
<1>4. k + i \in 0..k + l /\ k + i < k + l /\ i + 1 \in 1..l /\ k + (i + 1) = (k + i) + 1
  <2>1. i \in 0..l /\ i < l
    BY <1>3
  <2> QED
    BY ONLY <2>1, k \in Nat, l \in Nat
<1>5. U[(k + i) + 1] = <<"signr", s>>
  BY <1>2, <1>3, <1>4
<1>6. At(T, U, k + i) \in Entries
  <2>1. CASE i = 0
    <3>1. k + i = k /\ R["eip"] \in Entries
      BY <1>3, <2>1 DEF At
    <3> QED
      BY <3>1
  <2>2. CASE i # 0
    <3>1. k + i # 0 /\ i \in 1..l /\ S[i] \in Entries
      BY <1>3, <2>2 DEF At
    <3> QED
      BY <1>2, <3>1 DEF At
  <2> QED
    BY <2>1, <2>2
<1> QED
  BY <1>2, <1>4, <1>5, <1>6 DEF Called

\* One word taken.
LEMMA TailLeft ==
    ASSUME NEW S \in Seq(Word), Len(S) >= 1
    PROVE  Tail(S) \in Seq(Word) /\ Left(Tail(S), S, 1) /\ Head(S) = S[1]
<1>1. /\ Tail(S) \in Seq(Word) /\ Len(Tail(S)) = Len(S) - 1 /\ Head(S) = S[1]
      /\ \A i \in 1..Len(S) - 1 : Tail(S)[i] = S[i + 1]
  BY TailWords
<1>2. Len(S) = 1 + Len(Tail(S))
  BY <1>1
<1>3. ASSUME NEW i \in 1..Len(Tail(S)) PROVE S[1 + i] = Tail(S)[i]
  <2>1. i \in 1..Len(S) - 1 /\ 1 + i = i + 1
    BY <1>1
  <2> QED
    BY <1>1, <2>1
<1> QED
  BY <1>1, <1>2, <1>3 DEF Left

\* And the bottom.
LEMMA BottomMoved ==
    ASSUME NEW R, NEW S \in Seq(Word), NEW T, NEW U \in Seq(Word), NEW k \in Nat,
           Left(S, U, k), Len(S) > 0 \/ At(T, U, k) = R["eip"]
    PROVE  Bottom(R, S) <=> Bottom(T, U)
<1>0. Len(S) \in Nat
  OBVIOUS
<1>1. PICK l \in Nat : l = Len(S) /\ Len(U) = k + l /\ \A j \in 1..l : U[k + j] = S[j]
  BY <1>0 DEF Left
<1>2. CASE l = 0
  BY <1>1, <1>2 DEF Bottom, At
<1>3. CASE l # 0
  <2>1. l \in 1..l /\ k + l # 0
    BY <1>3
  <2>2. At(T, U, k + l) = At(R, S, l)
    BY <1>1, <1>3, <2>1 DEF At
  <2> QED
    BY <1>1, <2>2 DEF Bottom
<1> QED
  BY <1>2, <1>3

\* Steps of the user mode only take words away.
LEMMA OnceTaken ==
    ASSUME NestInv, UNCHANGED <<sigaction, blocked>>, stack' \in Seq(Word), NEW k \in Nat,
           Left(stack', stack, k), Bottom(reg', stack'),
           reg'["eip"] \notin Entries \/ At(reg, stack, k) = reg'["eip"]
    PROVE  OnceInv'
<1>1. OnceInv /\ stack \in Seq(Word)
  BY ChainProps DEF NestInv, ContextInv, Sound
<1>2. \A s : \A i \in Called(reg', stack', s) : k + i \in Called(reg, stack, s)
  BY <1>1, CallsMoved
<1>3. \A s \in Signal : MasksItself(s)'
  BY <1>1 DEF OnceInv, MasksItself
<1>4. ASSUME NEW s \in Signal, NEW i \in Called(reg', stack', s) PROVE Guarded(s)'
  <2>1. Guarded(s)
    BY <1>1, <1>2 DEF OnceInv
  <2> QED
    BY <2>1 DEF Guarded
<1>5. ASSUME NEW s \in Signal, NEW i \in Called(reg', stack', s), NEW j \in Called(reg', stack', s),
             i # j
      PROVE  MayNest(s)'
  <2>1. k + i # k + j
    BY <1>5 DEF Called
  <2>2. MayNest(s)
    BY <1>1, <1>2, <2>1 DEF OnceInv
  <2> QED
    BY <2>2 DEF MayNest
<1>6. \A s : Called(reg, stack, s)' = Called(reg', stack', s)
  BY DEF Called, At
<1>7. Bottom(reg, stack)'
  BY DEF Bottom, At
<1> QED
  BY <1>3, <1>4, <1>5, <1>6, <1>7 DEF OnceInv

\* A call is added, and none of those before it may be of the same handler,
\* unless that one may nest.
LEMMA OnceDeliver ==
    ASSUME NestInv, NEW s \in Signal, s \notin blocked,
           sigaction[s].sa_handler = "function",
           Len(stack) + 8 <= MaxStack,
           stack' = Write(Frame(s), Longs(s)),
           reg' = [reg EXCEPT !["eip"] = <<"handler", s>>],
           sigaction' = IF sigaction[s].oneshot
                        THEN [sigaction EXCEPT ![s].sa_handler = "SIG_DFL"]
                        ELSE sigaction,
           blocked' = Masked(s)
    PROVE  OnceInv'
<1>1. /\ OnceInv /\ Rest /\ Sound(reg, stack) /\ stack \in Seq(Word)
      /\ reg \in [Registers -> Word] /\ sigaction \in [Signal -> Action]
  BY ChainProps DEF NestInv, ContextInv, Rest, Sound
<1>2. PICK l \in 6..7, r \in Restorers :
          /\ stack' \in Seq(Word) /\ Len(stack') = l + 1 + Len(stack) /\ Len(stack) \in Nat
          /\ stack'[1] = Entry(r) /\ stack'[2] = <<"signr", s>>
          /\ stack'[l + 1] = reg["eip"]
          /\ \A j \in 2..l : stack'[j] \notin Entries
          /\ \A i \in 1..Len(stack) : stack'[l + 1 + i] = stack[i]
  BY <1>1, FrameOnStack
<1>3. reg'["eip"] = <<"handler", s>> /\ reg'["eip"] \notin Entries
  BY <1>1, EntryProps DEF Registers
<1> DEFINE k == l + 1
<1>4. At(reg', stack', k) = reg["eip"] /\ k \in Nat
  BY <1>2 DEF At
<1>5. Bottom(reg', stack')
  <2>1. Bottom(reg, stack)
    BY <1>1 DEF OnceInv
  <2>2. Left(stack, stack', k)
    BY <1>2 DEF Left
  <2>3. stack \in Seq(Word) /\ stack' \in Seq(Word)
    BY <1>1, <1>2
  <2> HIDE DEF k
  <2> QED
    BY ONLY <1>4, <2>1, <2>2, <2>3, BottomMoved
<1>6. \A i \in 0..Len(stack) : At(reg', stack', k + i) = At(reg, stack, i)
  BY <1>2, <1>4 DEF At
<1> HIDE DEF k
<1>7. ASSUME NEW u, NEW j \in Called(reg', stack', u)
      PROVE  (j = 1 /\ u = s) \/ (j - k \in Called(reg, stack, u) /\ j > 1)
  <2>1. PICK m \in Nat : m = Len(stack)
    BY <1>2
  <2>2. /\ j \in 0..k + m /\ At(reg', stack', j) \in Entries /\ j < k + m
        /\ stack'[j + 1] = <<"signr", u>>
    BY <1>2, <2>1 DEF Called, k
  <2>3. k \in 7..8 /\ k = l + 1
    BY DEF k
  <2>4. j # 0 /\ j \notin 2..l
    BY <1>2, <1>3, <2>2, <2>3 DEF At
  <2>5. CASE j = 1
    BY <1>2, <2>2, <2>5
  <2>6. CASE j # 1
    <3>0. j > l /\ j < k + m /\ j \in Nat /\ k \in Nat /\ k = l + 1
      BY ONLY <1>2, <2>1, <2>2, <2>3, <2>4, <2>6
    <3>1. /\ j - k \in 0..m /\ k + (j - k) = j /\ j - k < m /\ j > 1
          /\ (j - k) + 1 \in 1..m /\ l + 1 + ((j - k) + 1) = j + 1
      BY ONLY <1>2, <2>1, <3>0
    <3>2. At(reg, stack, j - k) \in Entries
      BY <1>6, <2>1, <2>2, <3>1
    <3>3. stack[(j - k) + 1] = <<"signr", u>>
      BY <1>2, <2>1, <2>2, <3>1
    <3>4. j - k \in Called(reg, stack, u)
      BY <2>1, <3>1, <3>2, <3>3 DEF Called
    <3> QED
      BY <3>1, <3>4
  <2> QED
    BY <2>5, <2>6
<1>8. /\ \A u \in Signal : /\ sigaction'[u].nomask <=> sigaction[u].nomask
                           /\ sigaction'[u].oneshot <=> sigaction[u].oneshot
                           /\ sigaction'[u].sa_mask = sigaction[u].sa_mask
                           /\ \/ sigaction'[u].sa_handler = sigaction[u].sa_handler
                              \/ sigaction'[u].sa_handler = "SIG_DFL"
      /\ sigaction[s].oneshot => sigaction'[s].sa_handler = "SIG_DFL"
      /\ blocked \subseteq blocked' /\ sigaction[s].sa_mask \subseteq blocked'
  BY <1>1 DEF Masked, Action
<1>9. \A u \in Signal : MasksItself(u)'
  BY <1>1, <1>8 DEF OnceInv, MasksItself
<1>10. ASSUME NEW u \in Signal, Guarded(u) PROVE Guarded(u)'
  BY <1>8, <1>10 DEF Guarded
<1>11. Guarded(s)'
  <2>1. sigaction[s].nomask \/ s \in sigaction[s].sa_mask
    BY <1>1 DEF OnceInv, MasksItself
  <2> QED
    BY <1>8, <2>1 DEF Guarded
<1>12. ASSUME NEW u \in Signal, NEW j \in Called(reg', stack', u) PROVE Guarded(u)'
  <2>1. CASE u = s
    BY <1>11, <2>1
  <2>2. CASE u # s
    BY <1>1, <1>7, <1>10, <1>12, <2>2 DEF OnceInv
  <2> QED
    BY <2>1, <2>2
<1>13. ASSUME NEW i \in Called(reg, stack, s) PROVE MayNest(s)
  <2>1. Guarded(s)
    BY <1>1 DEF OnceInv
  <2> QED
    BY <2>1 DEF Guarded, MayNest
<1>14. ASSUME NEW u \in Signal, NEW i \in Called(reg', stack', u), NEW j \in Called(reg', stack', u),
              i # j
       PROVE  MayNest(u)'
  <2>0. i \in Int /\ j \in Int /\ k \in Int
    <3>1. Len(stack') \in Nat
      BY <1>2
    <3> QED
      BY <3>1 DEF Called, k
  <2>1. MayNest(u)
    <3>1. CASE i = 1
      <4>1. ~(1 > 1)
        OBVIOUS
      <4>2. u = s
        BY <1>7, <3>1, <4>1
      <4>3. j - k \in Called(reg, stack, s)
        BY <1>7, <1>14, <3>1, <4>2
      <4> QED
        BY <1>13, <4>2, <4>3
    <3>2. CASE j = 1
      <4>1. ~(1 > 1)
        OBVIOUS
      <4>2. u = s
        BY <1>7, <3>2, <4>1
      <4>3. i - k \in Called(reg, stack, s)
        BY <1>7, <1>14, <3>2, <4>2
      <4> QED
        BY <1>13, <4>2, <4>3
    <3>3. CASE i # 1 /\ j # 1
      <4>1. i - k \in Called(reg, stack, u) /\ j - k \in Called(reg, stack, u)
        BY <1>7, <3>3
      <4>2. i - k # j - k
        BY <1>14, <2>0
      <4> QED
        BY <1>1, <4>1, <4>2 DEF OnceInv
    <3> QED
      BY <3>1, <3>2, <3>3
  <2> QED
    BY <1>8, <2>1 DEF MayNest
<1>15. \A u : Called(reg, stack, u)' = Called(reg', stack', u)
  BY DEF Called, At
<1>16. Bottom(reg, stack)'
  BY <1>5 DEF Bottom, At
<1> QED
  BY <1>9, <1>12, <1>14, <1>15, <1>16 DEF OnceInv

LEMMA OnceInit == Init => OnceInv
<1> SUFFICES ASSUME Init PROVE OnceInv
  OBVIOUS
<1>1. stack = << >> /\ Len(stack) = 0 /\ reg["eip"] = <<"program", 0>>
  BY DEF Init, Own, Registers
<1>2. \A s : Called(reg, stack, s) = {}
  BY <1>1 DEF Called
<1>3. \A s \in Signal : MasksItself(s)
  BY DEF Init, MasksItself
<1> QED
  BY <1>1, <1>2, <1>3 DEF OnceInv, Bottom, At

\* In the program no handler is left.
LEMMA NoneInProgram ==
    ASSUME ContextInv, InProgram
    PROVE  \A s : Called(reg, stack, s) = {}
<1>1. stack = << >>
  BY ChainProps DEF ContextInv, Sound, InProgram
<1>2. Len(stack) = 0
  BY <1>1
<1> QED
  BY <1>2 DEF Called

LEMMA OnceHandle ==
    ASSUME NestInv, NEW s \in Signal, Handle(s)
    PROVE  OnceInv'
<1>1. stack \in Seq(Word) /\ OnceInv
  BY ChainProps DEF NestInv, ContextInv, Sound
<1>2. /\ reg["eip"] = <<"handler", s>> /\ reg' = Own(<<"handling", s>>, Depth)
      /\ stack' = stack /\ UNCHANGED <<sigaction, blocked>>
  BY DEF Handle
<1>3. reg'["eip"] = <<"handling", s>>
  BY <1>2 DEF Own, Registers
<1>4. reg'["eip"] \notin Entries
  BY <1>3, EntryProps
<1>5. Left(stack', stack, 0)
  BY <1>1, <1>2 DEF Left
<1>6. Bottom(reg', stack')
  <2>1. Bottom(reg, stack)
    BY <1>1 DEF OnceInv
  <2>2. Len(stack) # 0
    BY <1>2, <2>1 DEF Bottom, At
  <2> QED
    BY <1>2, <2>1, <2>2 DEF Bottom, At
<1> QED
  BY <1>1, <1>2, <1>4, <1>5, <1>6, OnceTaken

LEMMA OnceReturns ==
    ASSUME NestInv, NEW s \in Signal, HandlerReturns(s)
    PROVE  OnceInv'
<1>1. stack \in Seq(Word) /\ OnceInv /\ Bottom(reg, stack) /\ reg \in [Registers -> Word]
  BY ChainProps DEF NestInv, ContextInv, Sound, OnceInv
<1>2. /\ reg["eip"] = <<"handling", s>> /\ reg' = [reg EXCEPT !["eip"] = Head(stack)]
      /\ stack' = Tail(stack) /\ UNCHANGED <<sigaction, blocked>>
  BY DEF HandlerReturns
<1>3. Len(stack) \in Nat /\ Len(stack) # 0
  BY <1>1, <1>2 DEF Bottom, At
<1>4. stack' \in Seq(Word) /\ Left(stack', stack, 1) /\ Head(stack) = stack[1]
  BY <1>1, <1>2, <1>3, TailLeft
<1>5. At(reg, stack, 1) = reg'["eip"]
  BY <1>1, <1>2, <1>4 DEF At, Registers
<1>6. Bottom(reg', stack')
  BY <1>1, <1>4, <1>5, BottomMoved
<1> QED
  BY <1>2, <1>4, <1>5, <1>6, OnceTaken

\* A restorer works on the frame of a context.
LEMMA RestorerHolds ==
    ASSUME NEW R, NEW S, InChain(R, S), NEW r \in Restorers, NEW n \in 1..L(r),
           R["eip"] = <<r, n>>
    PROVE  Len(S) \in Nat /\ Len(S) >= L(r) + 1 - n
<1>1. Sound(R, S) /\ R["eip"] # <<"program", 0>>
  BY ChainProps DEF Restorers
<1>3. PICK P, Q : InChain(P, Q) /\ Sound(P, Q) /\ Link(R, S, P, Q)
  BY <1>1, ChainProps
<1>4. Holds(R, S, P, Q, r, n)
  <2>1. InRestorer(R, S, P, Q)
    BY <1>3 DEF Link, InHandler, Restorers
  <2>2. PICK r0 \in Restorers : \E n0 \in 1..L(r0) :
            R["eip"] = <<r0, n0>> /\ Holds(R, S, P, Q, r0, n0)
    BY <2>1 DEF InRestorer
  <2>3. PICK n0 \in 1..L(r0) : R["eip"] = <<r0, n0>> /\ Holds(R, S, P, Q, r0, n0)
    BY <2>2
  <2>4. r0 = r /\ n0 = n
    BY <2>3
  <2> QED
    BY <2>3, <2>4
<1>5. Q \in Seq(Word) /\ S \in Seq(Word)
  BY <1>1, <1>3 DEF Sound
<1>6. Len(Q) \in Nat /\ Len(S) \in Nat /\ L(r) \in Nat
  BY <1>5, RestorerProps
<1>7. Len(S) = L(r) + 1 - n + Len(Q)
  BY <1>4 DEF Holds
<1> QED
  BY <1>6, <1>7

LEMMA OnceRestore ==
    ASSUME NestInv, NEW r \in Restorers, NEW n \in 1..L(r), Restore(r, n)
    PROVE  OnceInv'
<1>1. /\ stack \in Seq(Word) /\ OnceInv /\ Bottom(reg, stack) /\ reg \in [Registers -> Word]
      /\ InChain(reg, stack)
  BY ChainProps DEF NestInv, ContextInv, Sound, OnceInv
<1>2. /\ reg["eip"] = <<r, n>> /\ reg' = AfterTake(reg, stack, r, n)
      /\ stack' = Tail(stack) /\ UNCHANGED <<sigaction, blocked>>
  BY DEF Restore, AfterTake
<1>3. /\ L(r) \in Nat /\ n \in Nat /\ n >= 1 /\ n <= L(r)
      /\ \A k \in 1..L(r) : Restorer[r][k] = "eip" <=> k = L(r)
  BY RestorerProps
<1>4. Len(stack) \in Nat /\ Len(stack) >= L(r) + 1 - n
  BY <1>1, <1>2, RestorerHolds
<1>5. stack' \in Seq(Word) /\ Left(stack', stack, 1) /\ Head(stack) = stack[1]
  <2>1. Len(stack) >= 1
    BY ONLY <1>3, <1>4
  <2> QED
    BY <1>1, <1>2, <2>1, TailLeft
<1>6. reg'["eip"] = IF n = L(r) THEN stack[1] ELSE <<r, n + 1>>
  BY <1>2, <1>3, <1>5 DEF AfterTake, Registers
<1>7. CASE n = L(r)
  <2>1. At(reg, stack, 1) = reg'["eip"]
    BY <1>6, <1>7 DEF At
  <2>2. Bottom(reg', stack')
    BY <1>1, <1>5, <2>1, BottomMoved
  <2> QED
    BY <1>2, <1>5, <2>1, <2>2, OnceTaken
<1>8. CASE n # L(r)
  <2>1. reg'["eip"] \notin Entries
    <3>1. n + 1 \in Nat /\ n + 1 > 1
      BY <1>3
    <3> QED
      BY <1>6, <1>8, <3>1, EntryProps
  <2>2. Len(stack') > 0
    <3>1. Len(stack') \in Nat /\ Len(stack) = 1 + Len(stack')
      BY <1>5 DEF Left
    <3> QED
      BY ONLY <1>3, <1>4, <1>8, <3>1
  <2>3. Bottom(reg', stack')
    BY <1>1, <1>5, <2>2, BottomMoved
  <2> QED
    BY <1>2, <1>5, <2>1, <2>3, OnceTaken
<1> QED
  BY <1>7, <1>8

LEMMA OnceNext == NestInv /\ [Next]_vars => OnceInv'
<1> SUFFICES ASSUME NestInv, [Next]_vars PROVE OnceInv'
  OBVIOUS
<1>1. /\ OnceInv /\ Rest /\ ContextInv /\ sigaction \in [Signal -> Action]
      /\ \A s \in Signal : \A i \in Called(reg, stack, s) : Guarded(s)
      /\ \A s \in Signal : \A i, j \in Called(reg, stack, s) : i # j => MayNest(s)
      /\ \A s \in Signal : MasksItself(s)
      /\ Bottom(reg, stack)
  BY DEF NestInv, ContextInv, Rest, OnceInv
<1>0. ASSUME UNCHANGED <<reg, stack>>
      PROVE  /\ \A s : Called(reg, stack, s)' = Called(reg, stack, s)
             /\ Bottom(reg, stack)'
  BY <1>0, <1>1 DEF Called, Bottom, At
<1>2. ASSUME NEW s \in Signal, NEW a \in Requests, SigAction(s, a)
      PROVE  OnceInv'
  <2>1. UNCHANGED <<reg, stack>> /\ InProgram
    BY <1>2 DEF SigAction
  <2>2. \A u : Called(reg, stack, u)' = {}
    BY <1>0, <1>1, <2>1, NoneInProgram
  <2>3. ASSUME NEW u \in Signal PROVE MasksItself(u)'
    <3>1. CASE u = s
      <4>1. a \in Action
        BY SignalAssumption
      <4> DEFINE b == [a EXCEPT !.sa_mask = IF a.nomask THEN {} ELSE @ \cup {s}]
      <4>2. sigaction'[s] = b
        BY <1>1, <1>2 DEF SigAction
      <4>3. (b.nomask <=> a.nomask) /\ (~a.nomask => s \in b.sa_mask)
        BY <4>1 DEF Action
      <4> HIDE DEF b
      <4> QED
        BY <3>1, <4>2, <4>3 DEF MasksItself
    <3>2. CASE u # s
      <4>1. sigaction'[u] = sigaction[u]
        BY <1>1, <1>2, <3>2 DEF SigAction
      <4> QED
        BY <1>1, <4>1 DEF MasksItself
    <3> QED
      BY <3>1, <3>2
  <2> QED
    BY <1>0, <2>1, <2>2, <2>3 DEF OnceInv
<1>3. ASSUME NEW m \in SUBSET Signal, SSetMask(m)
      PROVE  OnceInv'
  <2>1. UNCHANGED <<reg, stack, sigaction>> /\ InProgram
    BY <1>3 DEF SSetMask
  <2>2. \A u : Called(reg, stack, u)' = {}
    BY <1>0, <1>1, <2>1, NoneInProgram
  <2>3. \A u \in Signal : MasksItself(u)'
    BY <1>1, <2>1 DEF MasksItself
  <2> QED
    BY <1>0, <2>1, <2>2, <2>3 DEF OnceInv
<1>4. ASSUME UNCHANGED <<reg, stack, sigaction, blocked>>
      PROVE  OnceInv'
  <2>1. \A u \in Signal : /\ MasksItself(u)' <=> MasksItself(u)
                          /\ Guarded(u)' <=> Guarded(u)
                          /\ MayNest(u)' <=> MayNest(u)
    BY <1>4 DEF MasksItself, Guarded, MayNest
  <2> QED
    BY <1>0, <1>1, <1>4, <2>1 DEF OnceInv
<1>5. ASSUME Return
      PROVE  OnceInv'
  <2>1. PICK s \in signal \ blocked : DoSignal(s)
    BY <1>5 DEF Return
  <2>2. s \in Signal /\ s \notin blocked
    BY <1>1 DEF Rest
  <2>3. CASE sigaction[s].sa_handler # "function"
    BY <1>4, <2>1, <2>3 DEF DoSignal
  <2>4. CASE sigaction[s].sa_handler = "function"
    BY <2>1, <2>2, <2>4, OnceDeliver DEF DoSignal
  <2> QED
    BY <2>3, <2>4
<1>6. ASSUME NEW r \in DOMAIN Restorer, NEW n \in DOMAIN Restorer[r], Restore(r, n)
      PROVE  OnceInv'
  <2>1. r \in Restorers /\ n \in 1..L(r)
    BY RestorerProps
  <2> QED
    BY <1>6, <2>1, OnceRestore
<1>7. ASSUME NEW s \in Signal, Raise(s)
      PROVE  OnceInv'
  BY <1>4, <1>7 DEF Raise
<1>8. CASE UNCHANGED vars
  BY <1>4, <1>8 DEF vars
<1> QED
  BY <1>2, <1>3, <1>5, <1>6, <1>7, <1>8, OnceHandle, OnceReturns DEF Next, UserStep

\* Several handlers of a signal are on the stack only when that one may nest.
LEMMA OnceMeans == NestInv => NeverTwice
<1> SUFFICES ASSUME NestInv, NEW s \in Signal, Cardinality(Calls(s)) > 1
             PROVE  MayNest(s)
  BY DEF NeverTwice, MayNest
<1>1. /\ stack \in Seq(Word) /\ Bottom(reg, stack)
      /\ \A i, j \in Called(reg, stack, s) : i # j => MayNest(s)
  BY ChainProps DEF NestInv, OnceInv, ContextInv, Sound
<1>2. ASSUME NEW i \in Calls(s) PROVE i \in Called(reg, stack, s)
  <2>1. i \in 1..Len(stack) /\ stack[i] \in Entries /\ stack[i + 1] = <<"signr", s>>
    BY <1>1 DEF Calls
  <2>2. PICK m \in Nat : m = Len(stack)
    BY <1>1
  <2>3. i \in 1..m /\ i # 0
    BY <2>1, <2>2
  <2>4. i # m
    BY <1>1, <2>1, <2>2, <2>3, EntryProps DEF Bottom, At
  <2>5. i \in 0..m /\ i < m
    BY <2>3, <2>4
  <2> QED
    BY <2>1, <2>2, <2>3, <2>5 DEF Called, At
<1>3. ASSUME \A i, j \in Calls(s) : i = j PROVE FALSE
  <2> DEFINE C == Calls(s)
  <2>1. \A i, j \in C : i = j
    BY <1>3
  <2>2. Cardinality(C) > 1
    OBVIOUS
  <2> HIDE DEF C
  <2>3. CASE C = {}
    BY <2>2, <2>3, FS_EmptySet
  <2>4. ASSUME NEW x \in C PROVE FALSE
    <3>1. C = {x}
      BY <2>1, <2>4
    <3>2. Cardinality(C) = 1
      BY <3>1, FS_Singleton
    <3> QED
      BY <2>2, <3>2
  <2> QED
    BY <2>3, <2>4
<1> QED
  BY <1>1, <1>2, <1>3

LEMMA NestCorrect == Spec => []NestInv
<1>1. Init => NestInv
  BY ContextInit, OnceInit DEF NestInv
<1>2. NestInv /\ [Next]_vars => NestInv'
  BY ContextNext, OnceNext DEF NestInv
<1> QED
  BY <1>1, <1>2, PTL DEF Spec

\* A handler is not interrupted by itself unless it asks for it, and one that
\* is to run once is not called again (NeverTwice): the mask and SA_ONESHOT
\* that do_signal() sets hold until the last restorer is done.
THEOREM NoHandlerTwice == Spec => []NeverTwice
  BY NestCorrect, OnceMeans, PTL

-----------------------------------------------------------------------------
(***************************************************************************)
(* The way back to the program.                                            *)
(***************************************************************************)

\* What the handlers and restorers still have to do: each word on the stack is
\* taken once, and may be the address of a handler that has two steps.
Load(w) == IF \E s \in Signal : w = <<"handler", s>> THEN 2
           ELSE IF \E s \in Signal : w = <<"handling", s>> THEN 1 ELSE 0
Remaining == 3 * Len(stack) + Load(reg["eip"])

\* Each of their steps leaves less (libc_restore.s).
Unwinds == UserStep => Remaining' \in Nat /\ Remaining' < Remaining

\* Outside of the program eip is at an instruction, and its word is on the stack.
NeverStuck ==
    \/ InProgram
    \/ /\ stack # << >>
       /\ \/ \E s \in Signal : reg["eip"] = <<"handler", s>> \/ reg["eip"] = <<"handling", s>>
          \/ \E r \in DOMAIN Restorer : \E n \in DOMAIN Restorer[r] : reg["eip"] = <<r, n>>

LEMMA LoadProps ==
    /\ \A w : Load(w) \in 0..2
    /\ \A s \in Signal : Load(<<"handler", s>>) = 2 /\ Load(<<"handling", s>>) = 1
    /\ \A r \in Restorers, n \in Nat : Load(<<r, n>>) = 0
<1>1. \A w : Load(w) \in 0..2
  BY DEF Load
<1>2. ASSUME NEW s \in Signal PROVE Load(<<"handler", s>>) = 2 /\ Load(<<"handling", s>>) = 1
  BY DEF Load
<1>3. ASSUME NEW r \in Restorers, NEW n \in Nat PROVE Load(<<r, n>>) = 0
  BY DEF Load, Restorers
<1> QED
  BY <1>1, <1>2, <1>3

LEMMA StackHolds ==
    ASSUME NestInv
    PROVE  stack \in Seq(Word) /\ Len(stack) \in Nat /\ (~InProgram => Len(stack) # 0)
<1>1. stack \in Seq(Word) /\ Bottom(reg, stack)
  BY ChainProps DEF NestInv, ContextInv, Sound, OnceInv
<1>2. Len(stack) \in Nat
  BY <1>1
<1>3. Len(stack) = 0 => InProgram
  BY <1>1 DEF Bottom, At, InProgram
<1> QED
  BY <1>1, <1>2, <1>3

LEMMA StuckNever == NestInv => NeverStuck
<1> SUFFICES ASSUME NestInv PROVE NeverStuck
  OBVIOUS
<1>1. reg["eip"] \in Instruction
  BY ChainProps DEF NestInv, ContextInv, Sound
<1>2. CASE reg["eip"] = <<"program", 0>>
  BY <1>2 DEF NeverStuck, InProgram
<1>3. CASE reg["eip"] # <<"program", 0>>
  <2>1. stack # << >>
    <3>1. Len(stack) # 0
      BY <1>3, StackHolds DEF InProgram
    <3> QED
      BY <3>1
  <2>2. \/ \E s \in Signal : reg["eip"] = <<"handler", s>> \/ reg["eip"] = <<"handling", s>>
        \/ \E r \in Restorers : \E n \in 1..L(r) : reg["eip"] = <<r, n>>
    BY <1>1, <1>3, InstructionProps
  <2> QED
    BY <2>1, <2>2, RestorerProps DEF NeverStuck
<1> QED
  BY <1>2, <1>3

\* A word less, whatever it loads.
LEMMA LessLeft ==
    ASSUME NestInv, stack # << >>, stack' = Tail(stack), Load(reg["eip"]) \in {0, 1}
    PROVE  Remaining' \in Nat /\ Remaining' < Remaining
<1>1. stack \in Seq(Word) /\ Len(stack) \in Nat
  BY ONLY NestInv, StackHolds
<1>2. PICK m \in Nat : m = Len(stack') /\ Len(stack) = m + 1
  <2>1. Len(stack) >= 1
    BY ONLY <1>1, stack # << >>
  <2>2. Len(Tail(stack)) = Len(stack) - 1
    BY ONLY <1>1, <2>1, TailWords
  <2>3. Len(stack') = Len(stack) - 1
    BY ONLY <2>2, stack' = Tail(stack)
  <2> QED
    BY ONLY <1>1, <2>1, <2>3
<1>3. PICK a \in 0..2, b \in 0..1 : a = Load(reg'["eip"]) /\ b = Load(reg["eip"])
  BY LoadProps
<1>4. Remaining' = 3 * m + a /\ Remaining = 3 * (m + 1) + b
  BY <1>2, <1>3 DEF Remaining, Load
<1> QED
  BY ONLY <1>3, <1>4, m \in Nat

LEMMA StepUnwinds == NestInv /\ [Next]_vars => Unwinds
<1> SUFFICES ASSUME NestInv, UserStep PROVE Remaining' \in Nat /\ Remaining' < Remaining
  BY DEF Unwinds
<1>1. ASSUME NEW s \in Signal, Handle(s)
      PROVE  Remaining' \in Nat /\ Remaining' < Remaining
  <2>1. reg'["eip"] = <<"handling", s>> /\ stack' = stack /\ reg["eip"] = <<"handler", s>>
    BY <1>1 DEF Handle, Own, Registers
  <2>2. Remaining' = 3 * Len(stack) + 1 /\ Remaining = 3 * Len(stack) + 2
    <3>1. Load(reg["eip"]) = 2 /\ Load(reg'["eip"]) = 1
      BY <2>1, LoadProps
    <3>2. Load(reg["eip"])' = Load(reg'["eip"])
      BY DEF Load
    <3> QED
      BY <2>1, <3>1, <3>2 DEF Remaining
  <2>3. Len(stack) \in Nat
    BY StackHolds
  <2> QED
    BY ONLY <2>2, <2>3
<1>2. ASSUME NEW s \in Signal, HandlerReturns(s)
      PROVE  Remaining' \in Nat /\ Remaining' < Remaining
  <2>1. reg["eip"] = <<"handling", s>> /\ stack' = Tail(stack)
    BY <1>2 DEF HandlerReturns
  <2>2. stack # << >>
    BY <2>1, StackHolds DEF InProgram
  <2>3. Load(reg["eip"]) \in {0, 1}
    BY <2>1, LoadProps
  <2> QED
    BY <2>1, <2>2, <2>3, LessLeft
<1>3. ASSUME NEW r \in DOMAIN Restorer, NEW n \in DOMAIN Restorer[r], Restore(r, n)
      PROVE  Remaining' \in Nat /\ Remaining' < Remaining
  <2>1. reg["eip"] = <<r, n>> /\ stack' = Tail(stack) /\ r \in Restorers /\ n \in Nat
    BY <1>3, RestorerProps DEF Restore
  <2>2. stack # << >>
    BY <2>1, StackHolds DEF InProgram, Restorers
  <2>3. Load(reg["eip"]) \in {0, 1}
    BY <2>1, LoadProps
  <2> QED
    BY <2>1, <2>2, <2>3, LessLeft
<1> QED
  BY <1>1, <1>2, <1>3 DEF UserStep

\* What ProgramGoesOn needs besides fairness: each step of a handler or of a
\* restorer leaves less to do, in natural numbers, and as long as something is
\* left the next instruction has its word on the stack (libc_restore.s).  So
\* only new signals can keep the program from going on.
THEOREM HandlersUnwind == Spec => []NeverStuck /\ [][Unwinds]_vars
<1>1. Spec => []NestInv
  BY NestCorrect
<1> QED
  BY <1>1, StuckNever, StepUnwinds, PTL DEF Spec
=============================================================================
