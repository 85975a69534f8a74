------------------------------- MODULE Memory -------------------------------
(***************************************************************************)
(* Physical pages and the address spaces of tasks: mm/memory.c, mm/page.s, *)
(* copy_mem() and verify_area() of kernel/fork.c, and the pages that       *)
(* fork(), exit() and waitpid() take and give back.                        *)
(*                                                                         *)
(* Physical pages have numbers; those from LOW_MEM (1MB) on are the frames  *)
(* of main memory and counted in mem_map[].  A task has one frame for its  *)
(* task_struct, one for its page table (its segment of 640KB needs no       *)
(* second one) and the pages that the table points to: frames, or pages of *)
(* the kernel below LOW_MEM, which are shared by all tasks and not counted. *)
(* fork() shares all pages, read-only, until one of the sharers writes.    *)
(*                                                                         *)
(* Every handler runs without preemption and is one action; the faulting   *)
(* instruction is executed again afterwards, as another action.  Any task  *)
(* may be the running one.  A page is one value, written as a whole.       *)
(***************************************************************************)
EXTENDS Integers, FiniteSets

CONSTANTS
    NR_TASKS,   \* slots of the task table
    LOW_MEM,    \* number of pages below main memory
    HIGH_MEMORY,    \* number of all pages
    Segment,    \* number of pages in a task's segment
    Image,      \* how many of them task 0 has, mapped one to one to the
                \* first pages of memory; the kernel's own programs use no
                \* others, and page faults on the rest get new frames
    Value,      \* contents of a page
    Zero,       \* a page filled with zeros
    Code,       \* a page of the kernel's image
    NULL        \* an entry without its present bit

Slot == 1..NR_TASKS - 1     \* task 0 has no page in main memory
Frame == LOW_MEM..HIGH_MEMORY - 1
VPage == 0..Segment - 1

ASSUME MemoryAssumption ==
    /\ NR_TASKS \in 2..256
    /\ LOW_MEM \in Nat /\ HIGH_MEMORY \in Nat
    /\ Segment \in Nat
    /\ Image \in 0..Segment /\ Image <= LOW_MEM
    /\ NULL \notin Nat /\ NULL \notin [VPage -> Value]
    /\ Zero \in Value /\ Code \in Value

VARIABLES
    mem_map,    \* how often each frame is used, in an unsigned char
    task,       \* the frame of a task_struct, or NULL
    dir,        \* the frame of a task's page table, or NULL
    entry,      \* entry[t][v]: the page that v is mapped to, or NULL
    writable,   \* writable[t]: the pages of t whose entries have the R/W bit
    data,       \* the contents of each page
    panicked    \* "no", "oom" (out of memory) or "free" (a free page freed)

vars == <<mem_map, task, dir, entry, writable, data, panicked>>

Running == {t \in Slot : dir[t] # NULL}
Zombie == {t \in Slot : task[t] # NULL /\ dir[t] = NULL}

-----------------------------------------------------------------------------
Free == {f \in Frame : mem_map[f] = 0}

\* get_free_page() takes the last page of those that are free and fills it
\* with zeros.
MutLast(S) ==                               \* the scan starts one too high
    1 + CHOOSE f \in S : \A g \in S : g <= f
Last(S) == CHOOSE f \in S : \A g \in S : g <= f

Byte(n) == n % 256

\* How often the table tab refers to the page f.
Uses(tab, f) == Cardinality({v \in VPage : tab[v] = f})

\* The table of the task that calls fork(); task 0 has all of its pages
\* below 1MB.
Table(p) == IF p = 0 THEN [v \in VPage |-> IF v < Image THEN v ELSE NULL] ELSE entry[p]

\* A number of free_page() for each frame.
FreePages(n) ==
    IF \E f \in Frame : n[f] > mem_map[f]
    THEN panicked' = "free" /\ UNCHANGED mem_map
    ELSE mem_map' = [f \in Frame |-> mem_map[f] - n[f]] /\ UNCHANGED panicked

FirstEmpty(c) == task[c] = NULL /\ \A i \in Slot : i < c => task[i] # NULL

\* The entries of the father that copy_page_tables() leaves writable: those
\* of pages that are not in main memory.
MutStillWritable(p) == writable[p]          \* only the child's are read-only
StillWritable(p) == {v \in writable[p] : entry[p][v] \notin Frame}

\* fork(): copy_process() takes a page for the task_struct and
\* copy_page_tables() one for the page table.  Task 0 forks once, task 1.
Fork(p, c) ==
    /\ p = 0 => c = 1
    /\ FirstEmpty(c)
    /\ Cardinality(Free) > 1
    /\ LET s == Last(Free)
           d == Last(Free \ {s})
       IN  /\ task' = [task EXCEPT ![c] = s]
           /\ dir' = [dir EXCEPT ![c] = d]
           /\ mem_map' = [f \in Frame |-> IF f \in {s, d} THEN 1
                                          ELSE Byte(mem_map[f] + Uses(Table(p), f))]
           /\ data' = [data EXCEPT ![s] = Zero, ![d] = Zero]
    /\ entry' = [entry EXCEPT ![c] = Table(p)]
    /\ writable' = [t \in Slot |-> IF t = c THEN {}
                                   ELSE IF t = p THEN StillWritable(t) ELSE writable[t]]
    /\ UNCHANGED panicked

\* fork() with one page left: the page table cannot be had, copy_mem() fails
\* and the page of the task_struct, filled with zeros, is given back.
ForkFails(s) ==
    /\ Free = {s}
    /\ data' = [data EXCEPT ![s] = Zero]
    /\ UNCHANGED <<mem_map, task, dir, entry, writable, panicked>>

\* do_exit(): free_page_tables() gives back all pages of the task and its
\* page table.  It is called twice; the second call finds no table.
Used(t, f) == Uses(entry[t], f) + IF dir[t] = f THEN 1 ELSE 0

Exit(t) ==
    /\ FreePages([f \in Frame |-> Used(t, f)])
    /\ entry' = [entry EXCEPT ![t] = [v \in VPage |-> NULL]]
    /\ writable' = [writable EXCEPT ![t] = {}]
    /\ dir' = [dir EXCEPT ![t] = NULL]
    /\ UNCHANGED <<task, data>>

\* release() of a zombie: its task_struct is given back.
Release(z) ==
    /\ task' = [task EXCEPT ![z] = NULL]
    /\ FreePages([f \in Frame |-> IF f = task[z] THEN 1 ELSE 0])
    /\ UNCHANGED <<dir, entry, writable, data>>

\* do_no_page(): an absent page is accessed and gets a frame.  (put_page()
\* finds the page table: a task keeps it until it exits.)
NoPage(t, v) ==
    /\ entry[t][v] = NULL
    /\ \/ /\ Free = {}
          /\ panicked' = "oom"
          /\ UNCHANGED <<mem_map, entry, writable, data>>
       \/ /\ Free # {}
          /\ mem_map' = [mem_map EXCEPT ![Last(Free)] = 1]
          /\ entry' = [entry EXCEPT ![t][v] = Last(Free)]
          /\ data' = [data EXCEPT ![Last(Free)] = Zero]
          /\ writable' = [writable EXCEPT ![t] = @ \cup {v}]
          /\ UNCHANGED panicked
    /\ UNCHANGED <<task, dir>>

\* un_wp_page() of a page that no one else uses any more.
MutUnshared(f) == f \in Frame /\ mem_map[f] <= 2    \* one sharer too many
Unshared(f) == f \in Frame /\ mem_map[f] = 1

\* ... and of one that has to be copied.
MutCopied(f, g) ==                          \* the old page keeps its count
    [mem_map EXCEPT ![g] = 1]
Copied(f, g) ==
    [h \in Frame |-> IF h = g THEN 1
                     ELSE IF h = f THEN Byte(mem_map[f] - 1) ELSE mem_map[h]]

\* do_wp_page(), and verify_area() before the kernel writes for the task: a
\* present page without the R/W bit is written.
WriteProtected(t, v) ==
    /\ entry[t][v] # NULL /\ v \notin writable[t]
    /\ \/ /\ Unshared(entry[t][v])
          /\ writable' = [writable EXCEPT ![t] = @ \cup {v}]
          /\ UNCHANGED <<mem_map, entry, data, panicked>>
       \/ /\ ~Unshared(entry[t][v])
          /\ Free = {}
          /\ panicked' = "oom"
          /\ UNCHANGED <<mem_map, entry, writable, data>>
       \/ /\ ~Unshared(entry[t][v])
          /\ Free # {}
          /\ mem_map' = Copied(entry[t][v], Last(Free))
          /\ entry' = [entry EXCEPT ![t][v] = Last(Free)]
          /\ data' = [data EXCEPT ![Last(Free)] = data[entry[t][v]]]
          /\ writable' = [writable EXCEPT ![t] = @ \cup {v}]
          /\ UNCHANGED panicked
    /\ UNCHANGED <<task, dir>>

\* A write by the program, or by the kernel after verify_area().
Write(t, v, x) ==
    /\ v \in writable[t]
    /\ data' = [data EXCEPT ![entry[t][v]] = x]
    /\ UNCHANGED <<mem_map, task, dir, entry, writable, panicked>>

\* file_read() and tty_read() write into the buffer of read() without
\* verify_area().  In kernel mode the processor does not look at the R/W bit
\* (head.s leaves CR0.WP clear); an absent page faults as always.
ReadInto(t, v, x) ==
    /\ entry[t][v] # NULL
    /\ data' = [data EXCEPT ![entry[t][v]] = x]
    /\ UNCHANGED <<mem_map, task, dir, entry, writable, panicked>>

-----------------------------------------------------------------------------
\* mem_init(), with the kernel's image below 1MB; task 0 has not forked yet.
Init ==
    /\ mem_map = [f \in Frame |-> 0]
    /\ task = [t \in Slot |-> NULL]
    /\ dir = [t \in Slot |-> NULL]
    /\ entry = [t \in Slot |-> [v \in VPage |-> NULL]]
    /\ writable = [t \in Slot |-> {}]
    /\ data = [p \in 0..HIGH_MEMORY - 1 |-> IF p < LOW_MEM THEN Code ELSE Zero]
    /\ panicked = "no"

\* Everything but read().
QuietNext ==
    /\ panicked = "no"
    /\ \/ \E p \in Running \cup {0}, c \in Slot : Fork(p, c)
       \/ \E s \in Frame : Running # {} /\ ForkFails(s)
       \/ \E t \in Running \ {1} : Exit(t)      \* task 1 never exits
       \/ \E z \in Zombie : Release(z)
       \/ \E t \in Running, v \in VPage :
             \/ NoPage(t, v)
             \/ WriteProtected(t, v)
             \/ \E x \in Value : Write(t, v, x)

Next ==
    \/ QuietNext
    \/ /\ panicked = "no"
       /\ \E t \in Running, v \in VPage, x \in Value : ReadInto(t, v, x)

Spec == Init /\ [][Next]_vars

\* Programs that do not call read().
QuietSpec == Init /\ [][QuietNext]_vars

-----------------------------------------------------------------------------
\* Type correctness.
TypeOK ==
    /\ mem_map \in [Frame -> 0..255]
    /\ task \in [Slot -> Frame \cup {NULL}]
    /\ dir \in [Slot -> Frame \cup {NULL}]
    /\ entry \in [Slot -> [VPage -> (0..HIGH_MEMORY - 1) \cup {NULL}]]
    /\ writable \in [Slot -> SUBSET VPage]
    /\ data \in [0..HIGH_MEMORY - 1 -> Value]
    /\ panicked \in {"no", "oom", "free"}

\* mem_map[] counts exactly the task_structs, page tables and entries that
\* use a frame, after any sequence of forks, faults and exits, failed ones
\* included: no frame in use is ever handed out again, none is lost, and the
\* kernel never panics because it frees a page that is free.
CountsRight ==
    /\ panicked # "free"
    /\ \A f \in Frame :
          mem_map[f] = Cardinality({t \in Slot : task[t] = f})
                       + Cardinality({t \in Slot : dir[t] = f})
                       + Cardinality({e \in Slot \X VPage : entry[e[1]][e[2]] = f})

\* What a task may write is its own: not a page of the kernel, nor one that
\* another task, a page table or a task_struct uses.
WritableIsPrivate ==
    \A t \in Slot : \A v \in writable[t] :
        /\ entry[t][v] \in Frame
        /\ mem_map[entry[t][v]] = 1

View(t) == [v \in VPage |-> IF entry[t][v] = NULL THEN Zero ELSE data[entry[t][v]]]

\* What the first task finds in its memory, and what the tasks have.
FirstView == [v \in VPage |-> IF v < Image THEN Code ELSE Zero]
Mem == [t \in Slot |-> IF t \in Running THEN View(t) ELSE NULL]

Private == INSTANCE PrivateMemory WITH
    Task <- Slot, Image <- FirstView, None <- NULL, mem <- Mem

\* Copy on write is invisible to programs that do not call read(): each has a
\* memory of its own.
ImplementsPrivateMemory == Private!PrivateSpec

\* memory.c:447-448 say that father and child share pages only until one of
\* them writes, and then the writer gets a page of its own: a page that two
\* tasks have, task 0 counting for those below 1MB, never changes.
SharedPagesKept ==
    [][\A t, u \in Slot : \A v, w \in VPage :
          /\ <<t, v>> # <<u, w>>
          /\ entry[t][v] # NULL
          /\ entry[t][v] = entry[u][w]
          => data'[entry[t][v]] = data[entry[t][v]]]_vars
=============================================================================
