------------------------------ MODULE Terminal ------------------------------
(***************************************************************************)
(* The terminal: the keyboard's interrupt with its line editing            *)
(* (copy_to_buffer() of kernel/chr_drv/tty_io.c) and tty_read(), over the  *)
(* ring queue `buffer' of tty.h, with the sleep of interruptible_sleep_on() *)
(* (kernel/sched.c).                                                       *)
(*                                                                         *)
(* Keys come between any two steps of a reader, except where it has        *)
(* interrupts off, and inside the handling of another key: the gate of the *)
(* keyboard is a trap gate (console.c:169), and the interrupt controller   *)
(* is told at once that the interrupt is over (keyboard.s:19).  frames is  *)
(* the stack of the handlers that have begun; the innermost goes on, and   *)
(* no task does before all have returned, since the timer does not switch  *)
(* tasks in kernel mode (sched.c:243).                                     *)
(*                                                                         *)
(* A handler takes a few steps.  A key may strike before such a step or in *)
(* the middle of it; it is then `cut', and each of its accesses to a queue *)
(* finds what was there before that key or what is there after it.         *)
(***************************************************************************)
EXTENDS Integers, Sequences, FiniteSets, SequencesExt

CONSTANTS
    Task,           \* the tasks that read
    Char, NL, BS,   \* ordinary characters, the newline, the backspace
    NUL,            \* what a queue has at first
    TTY_BUF_SIZE,   \* the size of a queue, a power of two
    MaxNr,          \* bound: how many characters one read asks for
    Reads,          \* bound: which task asks for how many
    Signalled,      \* bound: the tasks that others send signals to
    MaxNest,        \* bound: how many handlers are under way at once
    NULL            \* a null pointer

ASSUME TerminalAssumption ==
    /\ NULL \notin Task
    /\ NL \notin Char /\ BS \notin Char \cup {NL} /\ NUL \notin Char \cup {NL, BS}
    /\ TTY_BUF_SIZE \in Nat \ {0, 1}
    /\ MaxNr \in Nat \ {0}
    /\ Reads \subseteq Task \X (1..MaxNr) /\ Signalled \subseteq Task
    /\ MaxNest \in 1..TTY_BUF_SIZE - 1

VARIABLES
    scan,               \* what read_q holds
    buf, head, tail,    \* the queue `buffer'
    frames,             \* the handlers under way, the innermost last
    wait_proc,          \* the tasks that wait for a line
    state, signal,      \* of each task: may it run, has it a signal
    tmp,                \* the local variable of interruptible_sleep_on()
    pc, nr,             \* of each task: its place, how much it has asked for
    data,               \* and what it has got (buf and len)
    cpu,                \* the task in the kernel, or NULL
    kept                \* TRUE until a step spoils the line (a history variable)

queue == <<buf, head, tail>>
handlers == <<scan, frames>>
sleepers == <<wait_proc, state, tmp>>
tasks == <<signal, pc, nr, data, cpu>>
vars == <<handlers, queue, sleepers, tasks, kept>>

Index == 0..TTY_BUF_SIZE - 1
Key == Char \cup {NL, BS}
Code == Key \cup {NUL}

-----------------------------------------------------------------------------
(***************************************************************************)
(* The ring queue (tty.h).                                                 *)
(***************************************************************************)
Inc(n) == (n + 1) % TTY_BUF_SIZE
Dec(n) == (n - 1) % TTY_BUF_SIZE

EMPTY == head = tail
CHARS == (head - tail) % TTY_BUF_SIZE

\* Is the queue full, if its head is h?
FULL(h) == (tail - h - 1) % TTY_BUF_SIZE = 0

-----------------------------------------------------------------------------
(***************************************************************************)
(* The handlers: at what step each is, the character that it has in hand,  *)
(* and the heads of `buffer' that its step may have read before other keys *)
(* cut it.                                                                 *)
(***************************************************************************)
Frame(at, ch) == [at |-> at, ch |-> ch, seen |-> {}]

Top == frames[Len(frames)]
At(place) == frames # << >> /\ Top.at = place
Cut == Top.seen # {}
Heads == Top.seen \cup {head}

NowAt(place, ch) == frames' = [frames EXCEPT ![Len(frames)] = Frame(place, ch)]

\* A key k interrupts what runs, in the middle of a handler's step if cuts.
\* It does no harm before a loop test, where the new handler finds in read_q
\* what the old one has put there, and before a wake-up.  Elsewhere the order
\* of the keys is lost, or a queue.
Strike(k, cuts) ==
    /\ Len(frames) < MaxNest
    /\ cuts => frames # << >>
    /\ frames' = Append(
          IF cuts THEN [frames EXCEPT ![Len(frames)].seen = @ \cup {head}] ELSE frames,
          Frame("struck", k))
    /\ kept' = (kept /\ (frames # << >> => ~cuts /\ Top.at \in {"loop", "wake"}))
    /\ UNCHANGED <<scan, queue, sleepers, tasks>>

\* What read_q may hold after an access that was cut: with an index that is
\* stale, head and tail miss each other, and all that is there seems new.
Content == UNION {[1..n -> Code] : n \in Index}

\* PUTCH into read_q.
Scan ==
    /\ At("struck")
    /\ scan' \in IF Cut THEN Content
               ELSE {IF Len(scan) = TTY_BUF_SIZE - 1 THEN << >> ELSE Append(scan, Top.ch)}
    /\ NowAt("loop", NUL)
    /\ UNCHANGED <<queue, sleepers, tasks, kept>>

\* The loop of copy_to_buffer(): its test, and GETCH from read_q.
Loop ==
    /\ At("loop") /\ (scan # << >> \/ Cut)
    /\ scan' \in IF Cut THEN Content ELSE {Tail(scan)}
    /\ \E ch \in IF Cut THEN Code ELSE {Head(scan)} : NowAt("switch", ch)
    /\ UNCHANGED <<queue, sleepers, tasks, kept>>

Return ==
    /\ At("loop") /\ (scan = << >> \/ Cut)
    /\ frames' = Front(frames)
    /\ UNCHANGED <<scan, queue, sleepers, tasks, kept>>

\* PUTCH into `buffer', with the head read twice.  If the step is cut, another
\* handler may have written over the character.
PutCh(ch) ==
    /\ \E h \in Heads :
          buf' \in {[buf EXCEPT ![h] = ch]} \cup (IF Cut THEN {buf} ELSE {})
    /\ \E h \in Heads : head' = Inc(h)
    /\ UNCHANGED tail

\* An ordinary character is dropped when the queue is full.
Ordinary == At("switch") /\ Top.ch \notin {NL, BS}

MutPut ==                       \* the test for a full queue is left out
    /\ Ordinary
    /\ PutCh(Top.ch)
    /\ NowAt("loop", NUL)
    /\ UNCHANGED <<scan, sleepers, tasks, kept>>
Put ==
    /\ Ordinary /\ \E h \in Heads : ~FULL(h)
    /\ PutCh(Top.ch)
    /\ NowAt("loop", NUL)
    /\ UNCHANGED <<scan, sleepers, tasks, kept>>

Drop ==
    /\ Ordinary /\ \E h \in Heads : FULL(h)
    /\ NowAt("loop", NUL)
    /\ UNCHANGED <<scan, queue, sleepers, tasks, kept>>

\* The newline is put without that test, after a message to the serial line: a
\* full queue becomes an empty one.
Newline ==
    /\ At("switch") /\ Top.ch = NL
    /\ PutCh(NL)
    /\ NowAt("wake", NUL)
    /\ kept' = (kept /\ ~FULL(head))
    /\ UNCHANGED <<scan, sleepers, tasks>>

\* The states after a wake-up of t, which may be NULL.
Ready(t) == IF t = NULL THEN state ELSE [state EXCEPT ![t] = "RUNNING"]

\* wake_up().  If it is cut by another one, it writes through the null pointer
\* that the other has left: what that does is not followed.
MutWake ==                      \* the readers are not woken
    /\ At("wake")
    /\ NowAt("loop", NUL)
    /\ UNCHANGED <<scan, queue, sleepers, tasks, kept>>
Wake ==
    /\ At("wake")
    /\ state' = Ready(wait_proc)
    /\ wait_proc' = NULL
    /\ NowAt("loop", NUL)
    /\ UNCHANGED <<scan, queue, tmp, tasks, kept>>

\* The backspace looks at buf[head - 1].  With head = 0 that is the byte before
\* buf, the highest one of write_q.tail, which is 0 and no newline.
AfterLine(h) == h # 0 /\ buf[h - 1] = NL

Erase ==
    /\ At("switch") /\ Top.ch = BS
    /\ \E h \in Heads : h # tail
    /\ \E h \in Heads : ~AfterLine(h)
    /\ \E h \in Heads : head' = Dec(h)
    /\ NowAt("loop", NUL)
    /\ kept' = (kept /\ (head = 0 => buf[TTY_BUF_SIZE - 1] # NL))
    /\ UNCHANGED <<scan, buf, tail, sleepers, tasks>>

KeepLine ==
    /\ At("switch") /\ Top.ch = BS
    /\ \E h \in Heads : h = tail \/ AfterLine(h)
    /\ NowAt("loop", NUL)
    /\ UNCHANGED <<scan, queue, sleepers, tasks, kept>>

HandlerStep ==
    Scan \/ Loop \/ Return \/ Put \/ Drop \/ Newline \/ Wake \/ Erase \/ KeepLine

-----------------------------------------------------------------------------
(***************************************************************************)
(* tty_read()                                                              *)
(***************************************************************************)
Goto(t, place) == pc' = [pc EXCEPT ![t] = place] /\ cpu' = t

\* No interrupt is being handled; and no task is in the kernel, or t is.
Free == frames = << >> /\ cpu = NULL
Runs(t, place) == frames = << >> /\ cpu = t /\ pc[t] = place

Read(t, n) ==
    /\ Free /\ pc[t] = "user"
    /\ nr' = [nr EXCEPT ![t] = n]
    /\ data' = [data EXCEPT ![t] = << >>]
    /\ Goto(t, "look")
    /\ UNCHANGED <<handlers, queue, sleepers, signal, kept>>

\* `if (EMPTY)', with interrupts on.
Look(t) ==
    /\ Runs(t, "look")
    /\ Goto(t, IF EMPTY THEN "sleep_if_empty" ELSE "getch")
    /\ UNCHANGED <<handlers, queue, sleepers, signal, nr, data, kept>>

\* interruptible_sleep_on() up to its schedule(), with the head and the states
\* it finds.
SleepOn(t, h, st) ==
    /\ wait_proc' = t
    /\ tmp' = [tmp EXCEPT ![t] = h]
    /\ state' = [st EXCEPT ![t] = "INTERRUPTIBLE"]
    /\ pc' = [pc EXCEPT ![t] = "asleep"]
    /\ cpu' = NULL

\* The loop of sleep_if_empty(), with interrupts off, from its test on.
UntilLine(t, h, st) ==
    \/ /\ ~signal[t] /\ EMPTY
       /\ SleepOn(t, h, st)
    \/ /\ signal[t] \/ ~EMPTY
       /\ wait_proc' = h
       /\ state' = st
       /\ Goto(t, "getch")
       /\ UNCHANGED tmp

MutSleepIfEmpty(t) ==           \* the first test, before cli(), is relied on
    /\ Runs(t, "sleep_if_empty")
    /\ SleepOn(t, wait_proc, state)
    /\ UNCHANGED <<handlers, queue, signal, nr, data, kept>>
SleepIfEmpty(t) ==
    /\ Runs(t, "sleep_if_empty")
    /\ UntilLine(t, wait_proc, state)
    /\ UNCHANGED <<handlers, queue, signal, nr, data, kept>>

\* A sleeper is dispatched.  If others have come after it, it lets the last of
\* them go first and sleeps again, where it is not the head any more.
GivesWay(t) ==
    /\ wait_proc \notin {NULL, t}
    /\ state' = [state EXCEPT ![wait_proc] = "RUNNING", ![t] = "INTERRUPTIBLE"]
    /\ UNCHANGED <<wait_proc, tmp, pc, cpu>>

Resume(t) ==
    /\ Free /\ pc[t] = "asleep" /\ state[t] = "RUNNING"
    /\ \/ GivesWay(t)
       \/ wait_proc \in {NULL, t} /\ UntilLine(t, tmp[t], Ready(tmp[t]))
    /\ UNCHANGED <<handlers, queue, signal, nr, data, kept>>

\* GETCH, put_fs_byte(), and the end of the loop.  The queue may be empty here:
\* after a signal, or a backspace since the test; then the tail overtakes the
\* head.
GetCh(t) ==
    LET ch  == buf[tail]
        len == Len(data[t]) + 1
    IN  /\ Runs(t, "getch")
        /\ tail' = Inc(tail)
        /\ data' = [data EXCEPT ![t] = Append(@, ch)]
        /\ IF ch = NL \/ len = nr[t]
           THEN /\ pc' = [pc EXCEPT ![t] = "user"] /\ cpu' = NULL
                /\ nr' = [nr EXCEPT ![t] = 0]
           ELSE Goto(t, "look") /\ UNCHANGED nr
        /\ kept' = (kept /\ ~EMPTY)
        /\ UNCHANGED <<handlers, buf, head, sleepers, signal>>

-----------------------------------------------------------------------------
(***************************************************************************)
(* Signals: raised by other tasks, looked at by schedule(), which leaves   *)
(* the blocked ones alone, and delivered on the way back to the program.   *)
(***************************************************************************)
Signal(t) ==
    /\ Free /\ ~signal[t]
    /\ signal' = [signal EXCEPT ![t] = TRUE]
    /\ UNCHANGED <<handlers, queue, sleepers, pc, nr, data, cpu, kept>>

WakeSignalled(t) ==
    /\ Free /\ signal[t] /\ state[t] = "INTERRUPTIBLE"
    /\ state' = [state EXCEPT ![t] = "RUNNING"]
    /\ UNCHANGED <<handlers, queue, wait_proc, tmp, signal, pc, nr, data, cpu, kept>>

Deliver(t) ==
    /\ Free /\ pc[t] = "user" /\ signal[t]
    /\ signal' = [signal EXCEPT ![t] = FALSE]
    /\ UNCHANGED <<handlers, queue, sleepers, pc, nr, data, cpu, kept>>

-----------------------------------------------------------------------------
\* tty_table[] of tty_io.c
Init ==
    /\ scan = << >> /\ frames = << >>
    /\ buf = [n \in Index |-> NUL]
    /\ head = 0 /\ tail = 0
    /\ wait_proc = NULL
    /\ state = [t \in Task |-> "RUNNING"]
    /\ signal = [t \in Task |-> FALSE]
    /\ tmp = [t \in Task |-> NULL]
    /\ pc = [t \in Task |-> "user"]
    /\ nr = [t \in Task |-> 0]
    /\ data = [t \in Task |-> << >>]
    /\ cpu = NULL
    /\ kept = TRUE

KernelStep(t) == Look(t) \/ SleepIfEmpty(t) \/ GetCh(t) \/ Resume(t)

Next ==
    \/ \E k \in Key, cuts \in BOOLEAN : Strike(k, cuts)
    \/ HandlerStep
    \/ \E r \in Reads : Read(r[1], r[2])
    \/ \E t \in Signalled : Signal(t)
    \/ \E t \in Task : KernelStep(t) \/ WakeSignalled(t) \/ Deliver(t)

Spec == Init /\ [][Next]_vars

-----------------------------------------------------------------------------
FrameType ==
    [at : {"struck", "loop", "switch", "wake"}, ch : Code, seen : SUBSET Index]

\* Type correctness.
TypeOK ==
    /\ scan \in Seq(Code) /\ Len(scan) < TTY_BUF_SIZE
    /\ frames \in Seq(FrameType) /\ Len(frames) <= MaxNest
    /\ buf \in [Index -> Code]
    /\ head \in Index /\ tail \in Index
    /\ wait_proc \in Task \cup {NULL}
    /\ state \in [Task -> {"RUNNING", "INTERRUPTIBLE"}]
    /\ signal \in [Task -> BOOLEAN]
    /\ tmp \in [Task -> Task \cup {NULL}]
    /\ pc \in [Task -> {"user", "look", "sleep_if_empty", "asleep", "getch"}]
    /\ nr \in [Task -> 0..MaxNr]
    /\ \A t \in Task : data[t] \in Seq(Code) /\ Len(data[t]) <= MaxNr
    /\ cpu \in Task \cup {NULL}
    /\ kept \in BOOLEAN

\* What the queue holds, from the next character to read to the last one typed.
Line == [n \in 1..CHARS |-> buf[(tail + n - 1) % TTY_BUF_SIZE]]
HasLine == \E n \in 1..CHARS : Line[n] = NL

\* While a whole line waits to be read, the head of the readers' queue is no
\* sleeper, or the wake_up() of a handler is to come: no newline comes unnoticed
\* between a reader's look at the empty queue and its sleep (tty_io.c:107), none
\* while readers give way to each other, and none that interrupts another one.
\* (The types, the ring's indices first, are part of it.)
LineAnnounced ==
    /\ TypeOK
    /\ kept /\ HasLine /\ wait_proc # NULL =>
          \/ state[wait_proc] = "RUNNING"
          \/ \E n \in 1..Len(frames) : frames[n].at = "wake"

\* The keys that have been struck and have had no effect yet: the one that the
\* innermost handler is about to put, those in read_q, and the one that is not
\* there yet.
Struck ==
    (IF At("switch") THEN <<Top.ch>> ELSE << >>) \o scan
        \o (IF At("struck") THEN <<Top.ch>> ELSE << >>)

\* As long as no key comes where it spoils the order or a queue (Strike), nobody
\* types ahead more than the queue holds, reads from an empty queue, or erases
\* where the queue wraps (kept), readers get what was typed, also when keys
\* interrupt the handling of keys.
Input == INSTANCE LineInput WITH
    struck <- Struck, line <- Line, got <- data, Room <- TTY_BUF_SIZE - 1

ImplementsLineInput == Input!LineSpec

(***************************************************************************)
(* Liveness: a handler goes on, kernel code too, and a woken task is       *)
(* dispatched (NoStarvation of Sched).  Keys stop both for a while, but do *)
(* not come so fast that the code they interrupt never gets to its next    *)
(* step: hence the strong fairness.                                        *)
(***************************************************************************)
FairSpec ==
    /\ Spec
    /\ \A n \in 1..MaxNest : SF_vars(Len(frames) = n /\ HandlerStep)
    /\ \A t \in Task : SF_vars(KernelStep(t))

\* A reader that sleeps while a line is there returns with it, if no two tasks
\* ever read at the same time: of several readers, one may be left behind by
\* GivesWay(), asleep where nobody finds it.
LoneReaderServed ==
    [](\A t, u \in Task : pc[t] # "user" /\ pc[u] # "user" => t = u)
        => \A t \in Task : pc[t] = "asleep" /\ HasLine ~> pc[t] = "user" \/ ~kept
=============================================================================
