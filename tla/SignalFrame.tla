---------------------------- MODULE SignalFrame ----------------------------
(***************************************************************************)
(* Handlers of signals in one task: ret_from_syscall (kernel/              *)
(* system_call.s), do_signal(), sigaction() and ssetmask() (kernel/        *)
(* signal.c), and the two restorers of kernel/libc_restore.s, which run in *)
(* user mode, one instruction at a time.                                   *)
(*                                                                         *)
(* A signal is looked for wherever an interrupt or a system call returns to *)
(* user mode: in the program, in a handler, in a restorer that has undone  *)
(* part of its frame.  The handler gets a frame on the user stack, and     *)
(* returns into the restorer, which is the first word of the frame.        *)
(*                                                                         *)
(* A word is a pair: an instruction <<where, n>>, or the value <<r, d>>    *)
(* that the register r has in the code at depth d, which is the program at *)
(* depth 0 and a handler, the d-th of those that have not returned, else.  *)
(* Depth is what the code works with, so a register that is not given back *)
(* shows as the value of another depth.                                    *)
(***************************************************************************)
EXTENDS Integers, Sequences, FiniteSets

CONSTANTS
    Signal, SIGKILL,
    Requests,       \* the actions that sigaction() is called with: records
                    \* [sa_handler, sa_mask, nomask, oneshot], the flags as BOOLEANs
    MaxStack        \* bound: the words on the user stack

Handlers == {"SIG_DFL", "SIG_IGN", "function"}
Action == [sa_handler : Handlers, sa_mask : SUBSET Signal, nomask : BOOLEAN, oneshot : BOOLEAN]

ASSUME SignalAssumption ==
    /\ Signal \subseteq 1..32 /\ SIGKILL \in Signal
    /\ Requests \subseteq Action
    /\ MaxStack \in Nat

VARIABLES
    signal, blocked,    \* the bitmaps of the task
    sigaction,
    reg,                \* the registers of the user mode
    stack               \* the user stack above the program's, the top first

vars == <<signal, blocked, sigaction, reg, stack>>

Registers == {"eip", "eax", "ecx", "edx", "eflags"}

-----------------------------------------------------------------------------
(***************************************************************************)
(* The restorers: where each instruction puts the word it takes from the   *)
(* stack.  __masksig_restore does not set the mask again ("TODO").         *)
(***************************************************************************)
Restorer == [sig |-> <<"signr", "eax", "ecx", "edx", "eflags", "eip">>,
             masksig |-> <<"signr", "blocked", "eax", "ecx", "edx", "eflags", "eip">>]

Entry(r) == <<r, 1>>
Entries == {Entry(r) : r \in DOMAIN Restorer}

Depth == Cardinality({i \in DOMAIN stack : stack[i] \in Entries})

\* What the code at depth d has in the registers, at the instruction `at'.
Own(at, d) == [r \in Registers |-> IF r = "eip" THEN at ELSE <<r, d>>]

InProgram == reg["eip"] = <<"program", 0>>

-----------------------------------------------------------------------------
(***************************************************************************)
(* System calls of the program.  Its handlers make neither of them.        *)
(***************************************************************************)
SigAction(s, a) ==
    /\ InProgram
    /\ s # SIGKILL
    /\ sigaction' = [sigaction EXCEPT ![s] =
           [a EXCEPT !.sa_mask = IF a.nomask THEN {} ELSE @ \cup {s}]]
    /\ UNCHANGED <<signal, blocked, reg, stack>>

SSetMask(newmask) ==
    /\ InProgram
    /\ blocked' = newmask \ {SIGKILL}
    /\ UNCHANGED <<signal, sigaction, reg, stack>>

\* Somebody sends a signal, or the alarm does.
Raise(s) ==
    /\ signal' = signal \cup {s}
    /\ UNCHANGED <<blocked, sigaction, reg, stack>>

-----------------------------------------------------------------------------
(***************************************************************************)
(* The kernel, before it returns to user mode.                             *)
(***************************************************************************)

\* do_signal(): the frame of the signal s.  Nobody looks at the word that keeps
\* the mask.
Frame(s) ==
    LET nomask == sigaction[s].nomask
    IN  <<Entry(IF nomask THEN "sig" ELSE "masksig"), <<"signr", s>> >>
        \o (IF nomask THEN << >> ELSE << <<"blocked", 0>> >>)
        \o <<reg["eax"], reg["ecx"], reg["edx"], reg["eflags"], reg["eip"]>>

\* esp goes down by so many words, whatever is written.
MutLongs(s) == 7                \* the mask is not counted
Longs(s) == IF sigaction[s].nomask THEN 7 ELSE 8

Write(frame, longs) ==
    frame \o SubSeq(stack, Len(frame) - longs + 1, Len(stack))

MutMasked(s) == blocked         \* the mask of the action is not used
Masked(s) == blocked \cup sigaction[s].sa_mask

\* A signal that is ignored, or left to the default, is only forgotten: the
\* default does not end the task yet ("TODO").
DoSignal(s) ==
    IF sigaction[s].sa_handler # "function"
    THEN UNCHANGED <<blocked, sigaction, reg, stack>>
    ELSE /\ Len(stack) + 8 <= MaxStack
         /\ stack' = Write(Frame(s), Longs(s))
         /\ reg' = [reg EXCEPT !["eip"] = <<"handler", s>>]
         /\ sigaction' = IF sigaction[s].oneshot
                         THEN [sigaction EXCEPT ![s].sa_handler = "SIG_DFL"]
                         ELSE sigaction
         /\ blocked' = Masked(s)

MutTaken(s) == signal           \* the bit is not reset
Taken(s) == signal \ {s}

\* ret_from_syscall takes the lowest signal that is not blocked.
Return ==
    LET Wanted == signal \ blocked
    IN  \E s \in Wanted :
            /\ \A u \in Wanted : s <= u
            /\ signal' = Taken(s)
            /\ DoSignal(s)

-----------------------------------------------------------------------------
(***************************************************************************)
(* User mode.                                                              *)
(***************************************************************************)

\* The handler uses the registers for itself.
Handle(s) ==
    /\ reg["eip"] = <<"handler", s>>
    /\ reg' = Own(<<"handling", s>>, Depth)
    /\ UNCHANGED <<signal, blocked, sigaction, stack>>

\* Its `ret' goes where the top of the stack says.
HandlerReturns(s) ==
    /\ reg["eip"] = <<"handling", s>>
    /\ reg' = [reg EXCEPT !["eip"] = Head(stack)]
    /\ stack' = Tail(stack)
    /\ UNCHANGED <<signal, blocked, sigaction>>

\* The n-th instruction of the restorer r.
Restore(r, n) ==
    LET to == Restorer[r][n]
    IN  /\ reg["eip"] = <<r, n>>
        /\ reg' = [q \in Registers |-> IF q = to THEN Head(stack)
                                       ELSE IF q = "eip" THEN <<r, n + 1>>
                                       ELSE reg[q]]
        /\ stack' = Tail(stack)
        /\ UNCHANGED <<signal, blocked, sigaction>>

Init ==
    /\ signal = {} /\ blocked = {}
    /\ sigaction = [s \in Signal |-> [sa_handler |-> "SIG_DFL", sa_mask |-> {},
                                      nomask |-> FALSE, oneshot |-> FALSE]]
    /\ reg = Own(<<"program", 0>>, 0)
    /\ stack = << >>

UserStep ==
    \/ \E s \in Signal : Handle(s) \/ HandlerReturns(s)
    \/ \E r \in DOMAIN Restorer : \E n \in DOMAIN Restorer[r] : Restore(r, n)

Next ==
    \/ \E s \in Signal, a \in Requests : SigAction(s, a)
    \/ \E newmask \in SUBSET Signal : SSetMask(newmask)
    \/ \E s \in Signal : Raise(s)
    \/ Return
    \/ UserStep

Spec == Init /\ [][Next]_vars

-----------------------------------------------------------------------------
\* Type correctness.  Every word in eip is an instruction.
Instruction ==
    {<<"program", 0>>} \cup ({"handler", "handling"} \X Signal)
    \cup UNION {{<<r, n>> : n \in DOMAIN Restorer[r]} : r \in DOMAIN Restorer}
Word == Instruction \cup ({"eax", "ecx", "edx", "eflags"} \X (0..MaxStack))
        \cup ({"signr"} \X Signal) \cup {<<"blocked", 0>>}

TypeOK ==
    /\ signal \subseteq Signal /\ blocked \subseteq Signal
    /\ sigaction \in [Signal -> Action]
    /\ reg \in [Registers -> Word] /\ reg["eip"] \in Instruction
    /\ stack \in Seq(Word) /\ Len(stack) <= MaxStack

\* Code that was interrupted, anywhere, goes on with its registers and its
\* stack, however many handlers have run on top of it and wherever they, or
\* their restorers, were interrupted themselves (signal.c:86, libc_restore.s).
\* (The types are part of it: registers and stack hold words of their kind.)
ContextKept ==
    /\ TypeOK
    /\ InProgram => stack = << >> /\ reg = Own(<<"program", 0>>, 0)
    /\ reg["eip"][1] = "handling" => /\ reg = Own(reg["eip"], Depth)
                                     /\ Head(stack) \in Entries
                                     /\ stack[2] = <<"signr", reg["eip"][2]>>

\* A handler is not interrupted by itself, at whatever depth, unless SA_NOMASK
\* asks for it, and one that is to run once is not called again (signal.c:65,
\* 101).  The program changes actions and masks only outside of handlers.
Calls(s) == {i \in DOMAIN stack : stack[i] \in Entries /\ stack[i + 1] = <<"signr", s>>}
NeverTwice ==
    \A s \in Signal :
        Cardinality(Calls(s)) > 1 => sigaction[s].nomask /\ ~sigaction[s].oneshot

(***************************************************************************)
(* Liveness: the program, its handlers and the restorers go on.            *)
(***************************************************************************)
FairSpec == Spec /\ WF_vars(UserStep)

\* A handler returns to the program it interrupted, if only finitely many
\* signals come.
ProgramGoesOn == <>[][~ \E s \in Signal : Raise(s)]_vars => []<>InProgram
=============================================================================
