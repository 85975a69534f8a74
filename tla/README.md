# A specification of the hios kernel

hios is a small kernel for the i386 in the manner of Linux 0.11: preemptive user
programs over a kernel that is not preemptive, `fork()` with copy on write, signals, a
buffer cache over one IDE disk, a MINIX file system and a terminal. This directory holds
TLA+ specifications of its parts, configurations that check them with TLC, and proofs
that TLAPS checks. `PROJECT.json` maps each definition to the lines it models and lists
components, runs, mutants, findings, hazards and theorems.

To check: `tlc -config MC_Sched_life.cfg MC_Sched` (the configuration's name starts with
the module's), and `tlapm Sched_proofs.tla`, `tlapm WaitQueue_proofs.tla`,
`tlapm BufferCache_proofs.tla`.

## 1. Inventory

| Part | Source | State | Operations | Talks to |
|---|---|---|---|---|
| Tasks and scheduling | `kernel/{sched,fork,exit,sys}.c`, `system_call.s` | `task[]`, the `task_struct`s, `current`, `jiffies`, `last_pid` | `schedule`, the tick, `pause`, `alarm`, `sleep`, `kill`, `ssetmask`, `fork`, `exit`, `waitpid`, `release` | everything sleeps in it and is woken by it; takes pages from memory; raises signals |
| Wait queues and locks | `sched.c:55-86,151-192`, and the lock/unlock/wait functions of buffers, inodes, super blocks | the head `*p`, a `tmp` on the stack of each sleeper, the lock flag | `sleep_on`, `wake_up`, `interruptible_sleep_on`, lock, unlock, wait | interrupts of the disk and the keyboard wake; all of `fs/` sleeps |
| Physical memory | `mm/memory.c`, `mm/page.s`, `fork.c:14-101` | `mem_map[]`, page tables and their R/W bits | `get_free_page`, `free_page`, `copy_page_tables`, `free_page_tables`, page faults, `verify_area` | `fork`, `exit`, `waitpid`; every system call that writes to user memory |
| Signal delivery | `kernel/signal.c`, `libc_restore.s` | `sigaction[]`, `blocked`, the frame on the user stack | `do_signal`, `sigaction`, the restorer | the return path of `system_call.s` |
| Block requests | `blk_drv/{ll_rw_blk,hd}.c`, `blk.h` | `request[]`, the list from `current_request`, `wait_for_request`, `do_hd` | `ll_rw_block`, `make_request`, `add_request`, `do_hd_request`, `read_intr`, `bad_rw_inter`, `end_request` | locks buffers, wakes their waiters from the interrupt |
| Buffer cache | `fs/buffer.c` | hash queues, the free list, `b_count`, `b_dirt`, `b_uptodate`, `buffer_wait` | `getblk`, `bread`, `brelse`, `sync_dev` | block requests below, inodes and bitmaps above |
| Inode table | `fs/inode.c` | `inode_table[]`, counts, locks, dirt | `iget`, `iput`, `get_empty_inode`, `read_inode`, `write_inode`, `bmap`, `sync_inodes` | buffer cache, super block |
| Super block, bitmaps | `fs/{super,bitmap,truncate}.c` | `super_block[]`, the maps in buffers | `mount_root`, `read_super`, `new_block`, `free_block`, `new_inode`, `free_inode`, `truncate` | buffer cache, inodes |
| Names, open files | `fs/{namei,open,fcntl,read_write,file_dev,file_table}.c` | `file_table[]`, `filp[]` of a task | `open`, `close`, `dup`, `read`, path lookup | inodes, terminal; shared by `fork` |
| Terminal | `chr_drv/{tty_io,tty_queue,do_keyboard}.c`, `tty.h` | two ring queues and the reader's wait queue | key interrupt, line editing, `tty_read`, `tty_write` | wait queues, signals |
| Screen output | `chr_drv/console.c`, `keyboard.s` | cursor and video memory | `con_write`, scan codes | terminal |
| Boot, traps, messages | `boot/*.s`, `traps.c`, `asm.s`, `printk.c`, ... | none kept | run once, or print and halt | - |
| User library, demonstrations | `lib/*.c`, `mm_test.c`, `signal_demo.c`, `ramdisk.c` | none | system call stubs and tests | - |

### What is hard, and what correctness means

*Scheduling.* Ticks come in kernel mode and in user mode, signals arrive between a
decision to sleep and the `schedule()` that sleeps, fathers die before their children,
pids and slots are used again. Correct: the processor goes only to tasks that can run,
runnable ones get it in the end, slices stay bounded, pids are unique, no exit of a child
is lost, sleeps end when what they wait for has come.

*Wait queues.* `sleep_on()` keeps the old head in a local variable and restores it after
the sleep, when others may have slept and locked in between. Correct: one owner of a
lock, no sleeper forgotten, nobody woken who does not sleep there.

*Memory.* Pages are shared by `fork()` until somebody writes; counts are bytes; memory
runs out in the middle of `fork()`. Correct: counts are exact, writable pages are
private, and to user programs every task has a memory of its own.

*Requests.* The interrupt ends requests and wakes tasks while other tasks insert into
the same list, and `make_request()` sleeps with interrupts on. Correct: a lock on a
buffer always has something that will undo it, no entry of the table is lost, the order
of the elevator, tasks that wait for an entry get one.

*Buffer cache.* `getblk()` sleeps up to three times between its search for the block and
the moment it takes a buffer; others read, fail to read, sync and free meanwhile. Correct:
one buffer for a block, exact counts, and to the file system blocks keep what was written.

*Inodes and files.* `iget()`, `iput()` and `get_empty_inode()` sleep for locks and for
blocks, and what they looked at before may be gone after; descriptors, files and inodes
are shared over `fork()` and `dup()` by counts, and `open()` fails after it has taken
some. Correct: no inode twice in memory, exact counts, descriptors that keep their inode,
no change lost, locks that are undone.

*Terminal.* Keys, newlines and backspaces change a ring queue between any two steps of a
reader, and inside the handling of another key; the newline may come just before the
reader sleeps. Correct: readers get what was typed, in order and edited, and none sleeps
while a line is there.

*Signal handlers.* A handler, or the restorer that undoes its frame, is interrupted by the
next. Correct: whoever was interrupted goes on with its registers and stack.

The list, with the source line of each item and the properties aimed at it, is under
`hazards` in `PROJECT.json`; section 3 names departures that no property is about.

## 2. The modules

| Module | Models |
|---|---|
| `Sched` | tasks and scheduling |
| `TaskLife` | what it promises: the life cycle and the processor (abstract) |
| `Sched_proofs` | theorems about `Sched` |
| `WaitQueue` | one lock with its queue of sleepers |
| `WaitQueue_proofs` | theorems about `WaitQueue` |
| `Memory` | frames, page tables, faults |
| `PrivateMemory` | what it promises: a memory for each task (abstract) |
| `Memory_proofs` | theorems about `Memory` |
| `RequestQueue` | block requests and the disk's interrupt |
| `RequestQueue_proofs` | theorems about `RequestQueue` |
| `BufferCache` | buffers, `getblk()`, `bread()`, `brelse()`, `sync_dev()` |
| `BlockStore` | what it promises: blocks that keep their contents (abstract) |
| `BufferCache_proofs` | theorems about `BufferCache` |
| `InodeTable` | `iget()`, `iput()`, `get_empty_inode()`, `read_inode()`, `write_inode()`, `sync_inodes()` |
| `OpenFiles` | composes it with `open()`, `close()`, `dup()`, `fork()`: descriptors and files |
| `FileStore` | what it promises: descriptors and files that keep their contents (abstract) |
| `OpenFiles_proofs` | theorems about `OpenFiles` and `InodeTable` |
| `Terminal` | the keyboard's interrupt, line editing, `tty_read()` |
| `LineInput` | what it promises: what was typed, edited, each character once (abstract) |
| `Terminal_proofs` | theorems about `Terminal` |
| `SignalFrame` | `do_signal()` and its frames, `sigaction()`, the restorers |
| `SignalFrame_proofs` | theorems about `SignalFrame` |
| `MC_*` | constants and symmetry sets for TLC |

Definitions whose names start with `Mut` are wrong versions of the definition they
precede. No specification uses them; put in its place, each makes a property fail, which
shows that the property depends on that code.

### Sched

State: `task[i]` is the page of the `task_struct` in slot i or `NULL`; `state`,
`counter`, `signal` (a set), `blocked`, `alarm`, `pid`, `father` are its fields, which
stay in the page when the slot is emptied; `pc[i]` is the place where a task that is not
running goes on (in user mode, on the way back to it, in a device's sleep, in
`waitpid()`, in `release()`), `arg` and `freed` are locals of those places.

A system call runs from its entry to its next `schedule()` or return in one action: the
kernel is not preempted, so nothing else but interrupts can come in between, and those
that matter (`Tick` in kernel mode, `DeviceWake`) are taken at the places where a task
has stopped. `Ret` is `ret_from_sys_call`: `schedule()` if the task cannot go on or its
slice is empty, then one signal. `Schedule` has all of `schedule()`: alarms, wake-ups by
signals, the pick, and the refill of all slices, sleepers' included, when none is left.

* `Exit` gives the children to task 1, signals task 1 for adopted zombies, and signals
  the father; if there is no father the slot is released at once. `tell_father()` walks
  up to 64 slots, all that carry the father's pid get the signal.
* `Release` and `ReleaseContinues`: `release()` frees the page, calls `schedule()` and
  then, because nothing returns, goes on with its loop over the table. It looks for the
  page it has freed, which by then may hold another task, and panics when it finds none.
  `Doomed` says that a task is on that path.
* `init()` of `main.c` never exits. `InitExits = TRUE` lets task 1 exit nevertheless, so
  that the path of `do_exit()` without a father is taken.
* `DeviceWake` wakes a task that sleeps in a device's queue. `Sched` assumes here that
  queues wake only their sleepers; `WaitQueue` says when that is so.

Signal handlers are their effect on the mask here; `SignalFrame` has their frames.

### WaitQueue

One object, any of buffer, inode and super block: the three have the same code. A task
runs from its dispatch to its next sleep with interrupts off, so `Call` and `Resume` are
one action each, with the rest of `sleep_on()` (restore the head, wake its task) and the
test of the `while` loop. The dispatcher is left open, `Unlock` comes at any time (the
interrupt for a buffer), `Exit` is a task that leaves the kernel for good.

`Calm` says of a step that the object is locked again only when nobody is inside the
queue, and that those that find it locked only wait. The kernel does not enforce this. The
history variable `calm` stays `TRUE` until a step is not like that: what the queue
guarantees only so far is stated under `calm`, the rest without it, and `SleepersWoken`
is what it does not guarantee otherwise. All behaviours of the code are in `Spec`.

### Memory

Frames are numbers, `mem_map` counts in bytes (`% 256`), a task has one frame for its
`task_struct`, one for its page table, and entries that point to frames or to pages of
the kernel's image below 1 MB. The kernel's programs use only the latter
(`memory.c:569-572`, the first pages of task 0); `Segment > Image` adds pages that are
demand-loaded by `do_no_page()`, which the code has. `Fork`, `ForkFails` (after the page
of the task is taken, or after `copy_page_tables()` has failed), `Exit`, `Release`,
`NoPage`, `WriteProtected` (with `un_wp_page()`), `Write` by a program, `ReadInto` by
`file_read()` and `tty_read()`. An exiting task frees its tables twice (`exit.c:111-115`).
`put_page()` always finds a page table, and `get_empty_page()` has no caller; neither of
their other paths is here. `head.s` sets only PG in CR0, so kernel code ignores the R/W
bit: `ReadInto` writes without a fault. `QuietSpec` is everything but `ReadInto`.

### RequestQueue

`request` is the table, `queue` the list from `current_request` over `next`; a lock,
dirty and valid bit for each block's buffer; the heads of the queues of the buffers and
of `wait_for_request`, with the `tmp` of each sleeper; `pc` and `call` of each task.
`cpu` is the task that runs kernel code: no other task takes a step until it sleeps or
returns, but interrupts (`SectorRead`, `SectorFailed`) come between any two steps.
`lock_buffer()` and `wait_on_buffer()` run with interrupts off and are single steps;
`make_request()` is not, so its search, the new head and the sleep are three
(`Search`, `Queue`, `Doze`). That an interrupt may come even between the two assignments of
`Queue` (`sched.c:65-66`) is left out: it would wake the old head once more than needed.

`EndRequests` is `end_request()` with the `do_hd_request()` behind it, which refuses
requests beyond the disk and goes on to the next. It counts two sectors from the sector
reached, so the retry of the second sector of the last block is refused as well. WRITE
is not started by the driver (`hd.c:249`, TODO): a write at the head stays, and the
requests behind it too. READA and WRITEA have no caller. `IN_ORDER` puts reads before
writes, but the elevator does not keep the list in that order, because it also inserts at
the turn of the sweep: `blk.h:35` promises more than the list gives, and `TwoSweeps` is
what it does give.

### BufferCache

A buffer has the block `blocknr`, a count, a dirty and a valid bit and a lock, which is the
request that holds it; `free_list` is the order in which `getblk()` scans. The hash chain
of a block is the set of buffers that have it. There is one device. An action runs from
one `wait_on_buffer()` or sleep to the next: `Getblk` from `repeat:` to the wait for the
buffer found or chosen, `GetHashTable` and `ChosenBuffer` those waits with the checks after
them, `SyncDev` one buffer of one of the two loops, `LlRwBlock`, `Bread` and `Brelse` the
rest of `bread()` and `brelse()`. `cpu` is the task in the kernel, as in `RequestQueue`.

A task that sleeps goes on at any later time and looks again at what it waited for
(`Sleep`). That is more than the code can do, so what holds here holds whatever the wait
queues do; that it is woken is the matter of `WaitQueue`, and the table of requests, which
may be full, that of `RequestQueue`. `sync_inodes()`, between the two loops of
`sync_dev()`, calls `bread()` and dirties blocks: the task gives up the processor there, to
others that do the same. `free_block()` is here as far as it takes a block out of the
cache; it is called for a block of a file whose last user has gone (`truncate()` from
`iput()`), so nobody has a call for that block meanwhile. The driver does not start writes
(`hd.c:249`); `EndWrite` lets them end or never end, so that the code after them is
reached.

`Store` maps this to `BlockStore`: a block's contents are those of its valid buffer, or of
the disk if it has none; a task uses a block from the return of `bread()` to `brelse()`.
Write-back, reuse of a buffer and a new read are stutters of it.

### InodeTable and OpenFiles

An inode has a number (0: none), a count, a dirty bit, a lock and its contents; `disk` is
what the blocks of the device hold. `pc[t]` is where a task goes on, `goal[t]` where it
goes after the `iput()` it is in; `ino`, `num`, `empty`, `idx` are locals. An action runs
from one sleep to the next, `cpu` is the task in the kernel. As in `BufferCache`, a sleeper
goes on at any later time and looks again at what it waited for, which is more than the
code can do. `read_inode()` and `write_inode()` sleep in `bread()` with the inode locked;
that the block is read and keeps what is written is what `BufferCache` shows. Two things
that the code guards against are left out, because they cannot happen as long as `sane` is
`TRUE` (see below): that `iput()` finds a count of 0 (`inode.c:157`, see `InodeCountsRight`),
and that `get_empty_inode()` has to wait for, or write back, a free inode
(`inode.c:245-249`, see `FreeInodesClean`).

`SyncUnderLock` is one sleep of `bread()` there that does not end: if the cache has only
changed buffers, `getblk()` calls `sync_dev()` and this `sync_inodes()` (`buffer.c:82`),
which waits for the lock that the task itself holds. `LocksUndone` excepts it.

`OpenFiles` adds `filp[]`, `file_table[]` and the descriptor that a task is opening. A
path is what its search meets, any inode or none at each name. What the kernel has not
finished is as it is in the code: `O_CREAT` is not taken; `open_namei()` returns without
an inode when the path ends in a plain name (`namei.c:344`), and `sys_open()` then opens
what its stack holds. `Got` takes any inode of the table there (the code may find any other
pointer as well, and nothing is said of that) and `sane` becomes `FALSE`; what is
claimed of the counts of inodes and of contents ends with that step, since any count may
be wrong after it. `exit()` closes no file (`exit.c:127`, TODO): a task that has exited is
one that makes no more calls. `Change` stands for the writer of an inode's contents, the
`_bmap(create)` that nobody calls yet: without it no inode would ever be dirty. `f_inode`
of a file that nobody has open is not kept.

`Store` maps this to `FileStore`: an inode's contents are those in memory, or the disk's
while it is not loaded. `iget()`, `iput()`, write-back and the search of paths are stutters
of it.

### Terminal

`buf`, `head` and `tail` are the queue `buffer` with C's indices and macros; `wait_proc`
and the `tmp` of each reader the queue of `interruptible_sleep_on()`, which, other than
`sleep_on()`, lets the head go first when somebody else is woken (`GivesWay`). A read takes
one step per test, character and sleep, and keys come between any two, except where
`sleep_if_empty()` has interrupts off. The echo over `write_q` is left out.

The keyboard's gate is a trap gate (`console.c:169`) and the interrupt is acknowledged
before the handler's body (`keyboard.s:19`), so a key may interrupt the handling of another
one, to any depth (`MaxNest`). `frames` is the stack of the handlers under way: the innermost
goes on (`HandlerStep`), and no task does before all have returned. A handler has four
places: "struck" (before its PUTCH into `read_q`, whose contents are `scan`), "loop" (before
the test of `copy_to_buffer()`), "switch" (with a character in hand: `Put`, `Drop`,
`Newline`, `Erase`, `KeepLine`) and "wake" (between the PUTCH of a newline and its
`wake_up()`). `Strike(k, cuts)` is a key that comes before such a step, or in the middle of
it if `cuts`. What such a step does is not atomic then: it may have read the head of
`buffer` before the inner key or read it after, once for the place it writes and once more
for the place it leaves the head (`seen`, `Heads`, `PutCh`, `Erase`), and what is left in
`read_q` may be anything, because its two indices may miss each other (`Content`). The
message to the serial line before the PUTCH of a newline (`tty_io.c:84`) only makes "switch"
longer. A
`wake_up()` that is cut by another one may write through the null pointer that the other
has left; the model does not follow that.

Some steps spoil the line, and `kept` becomes `FALSE` with them. Three are edges of the
queue: a newline is put into a full queue, which becomes an empty one (`tty_io.c:85`); a
backspace erases a newline when the head is 0, because the code looks at the byte before
`buf` (`tty_io.c:75`); a character is taken from an empty queue, after a signal or a
backspace (`tty_io.c:157`). The others are keys that come at the wrong place: in the middle
of a step of another handler (a character is written over, or counted twice), between a key's
interrupt and its PUTCH into `read_q`, or between GETCH from `read_q` and the PUTCH into
`buffer` (the inner key overtakes the outer one). Keys that come before a loop test or a
wake-up do no harm, and that is what is claimed: the inner handler takes what the outer one
has left in `read_q`, in order, and the wake-up of a newline may be the inner one's. The
exceptions are needed: if a key may come at any one of these places without spoiling the
line, TLC finds a behaviour that violates `ImplementsLineInput` or `LineAnnounced`.

Until the line is spoiled, `Struck`, `Line` and `data` map to `LineInput`, where keys are struck and have
their effect later, in the order in which they were struck, and before any reader goes on.

### SignalFrame

One task: the bitmaps of signals, the actions, the registers of user mode and the user
stack. A word is a pair: an instruction, or the value that a register has in the code at a
given depth (the program is depth 0, the n-th handler that has not returned depth n), so
that a register given back to the wrong one shows as a value of another depth. `Return` is
`ret_from_syscall` with all of `do_signal()`, possible at any instruction, those of the
two restorers included, which run one word at a time. `Write` has the size of the frame
and its words apart, as the code has. `__masksig_restore` drops the saved mask
(`libc_restore.s:17`, TODO), and so does the model.

## 3. Runs

| Run | Shows |
|---|---|
| `sched_life` | 4 slots, task 1 may exit: pids unique, no child's exit lost (`NoLostChild`), zombies have fathers while task 1 lives (`ZombieHasFather`), the runner can run (`RunnerReady`), and `ImplementsTaskLife`: every handler, interrupt and dispatch is a step of the abstract life cycle |
| `sched_live` | alarms, signals, forks under fairness: slices stay below twice the priority (`CounterBound`), `NoStarvation`, `SignalEndsSleep`, `AlarmEndsSleep`; a father in `waitpid()` finds a child that has died, and never returns from `release()` (`WaitFindsChild`) |
| `waitqueue_queue` | 3 tasks in any order: one owner, and no unlocked object with a sleeper at its head; while the queue is calm, nobody lost, nobody else woken, everybody leaves |
| `waitqueue_lost` | *violated*: a sleeper that came after the wake-up is forgotten |
| `memory_quiet` | counts exact and no free page freed, writable pages private, and `ImplementsPrivateMemory` |
| `memory_read` | *violated*: `read()` changes a page that another task shares |
| `buffers_cache` | 3 tasks over 2 buffers: one buffer for a block, exact counts, holders keep valid data, and `ImplementsBlockStore` |
| `requests_queue` | locks accounted for, table and list agree, and the list is at most two ascending runs in the order of `IN_ORDER` (`TwoSweeps`) |
| `requests_lost` | *violated*: a wake-up between the search and the sleep is lost |
| `files_open` | 2 tasks, 3 inodes in memory: no inode twice (`OneInodePerNumber`), free ones clean (`FreeInodesClean`), files and inodes counted exactly, `ImplementsFileStore`, and under fairness `LocksUndone` |
| `terminal_line` | 2 readers, a queue of 4, keys inside the handling of keys: until the line is spoiled, no newline comes unnoticed (`LineAnnounced`), `ImplementsLineInput`, and a reader that is alone is served (`LoneReaderServed`) |
| `signals_frames` | 3 signals, two frames and more: interrupted code keeps its context (`ContextKept`), no handler runs on top of itself unasked (`NeverTwice`), and the program goes on (`ProgramGoesOn`) |

Each module has a type invariant `TypeOK`. Where a run does not list it, it is the first
conjunct of a property that the run does list (`CountsAccounted`, `LocksAccounted`,
`FileCountsRight`, `LineAnnounced`, `ContextKept`).

**Findings.** The violated runs state what a comment of the source says and find what
the code does instead: `sched.c:69` (an old head is restored over a newer
sleeper), `file_dev.c:34` and `tty_io.c:158` (no `verify_area()`), `ll_rw_blk.c:134`
(search and sleep with interrupts on). Quotations are in `PROJECT.json`.

**Departures without a run.** The models have what the code does in these places, and no
property claims more:

* `exit.c:28`: `release()` goes on with its loop after `schedule()` and panics
  (`ReleaseContinues` of `Sched`). The comments say that it returns at once after
  `schedule()` (`exit.c:17`) and that `waitpid()` then returns the child's pid
  (`exit.c:158`, `exit.c:223`). In this code no `waitpid()` that finds a dead child ever
  returns, and every one ends in `panic()`. `WaitFindsChild` says just that: it is not a
  claim that the call ends. `Doomed`, which other properties of `Sched` except, is the
  time from there on.
* `sched.c:98`: the mask drops SIGKILL and SIGSTOP, so they wake no sleeper;
  `SignalEndsSleep` leaves them out.
* `sched.c:183`: of two readers that sleep for the terminal, one may be left asleep where
  nobody points to it; `LoneReaderServed` is stated for one.
* `signal.c:47`: the default action returns and does not end the task. `signal.c:101`: a
  `sa_mask` may block SIGKILL, though `signal.c:143` keeps `ssetmask()` from it.
  `libc_restore.s:17`: the mask is not restored.
* `namei.c:344`, `exit.c:127`: as said under OpenFiles. `inode.c:355,384`: the
  self-deadlock there. `inode.c:238`: with a full table `get_empty_inode()` reads the
  count of inode `NULL`, finds 0, and panics.
* `tty_io.c:75,85,157`, `console.c:169`: as said under Terminal; keys are lost or change
  their order when they interrupt each other at the wrong place.
* `hd.c:249`: writes are not started. `hd.c:147`: `bad_rw_inter()` looks at the errors of
  the next request, or of none, after `end_request()`; only `reset` depends on it, which
  nothing acts on. `hd.c:221`: the retry of the second sector of the last block is refused.
* `blk.h:35`: reads do not always come before writes.
* `bitmap.c:38`: `free_block()` keeps a count when somebody else has the block. It is
  called for the last user of an inode only, and `BufferCache` assumes that.
* `file_dev.c:20`: `f_pos` is read again after each sleep and may be shared.

**Bounds.** *Sched*: four slots give the idle task, task 1, a father other than task 1 and a child
that is adopted when that father exits; `MaxPid` cuts off `fork()` and
still lets pids be searched past one in use; `MaxJiffies` bounds the times of alarms,
time itself stops counting there but ticks go on; a priority of 1 or 2 (the code has 15)
has slices that are exhausted and refilled, and refilled while one is left over.
*WaitQueue*: three tasks are the smallest number for a sleeper with one kept behind it and
one that locks; that is enough for the lost sleeper, and the safety properties are proved
for any number. *Memory*: eight frames
are too few for three tasks that have copied every page, so memory runs out in every
place it can; two pages, one shared with the kernel and one demand-loaded; two contents.
*RequestQueue*: three entries, of which two are for writes, three blocks with the last
one beyond the disk, two errors to give up (the code: 32, 7); `Changed` names the blocks
that programs write. *BufferCache*: two buffers for three blocks, so that buffers are
always taken from other blocks, and three tasks, so that all buffers may be in use and one
more task finds the cache changed after its sleep; one block is changed and freed
(`Changed`), with two contents; the others only compete for buffers and are interchangeable.
*OpenFiles*: three inodes in memory, one of which the root keeps, for two numbers besides
the root's; two tasks with two descriptors each, two files, so that descriptors, files and
inodes run out; one inode is changed, to one value other than its first. `StillSane` stops
where `sane` is `FALSE`. *Terminal*: two readers, four places (three characters), reads of two
characters (by the reader that gets signals, `Signalled`) and of one (by the other;
`Reads`), one ordinary character besides the newline and the backspace; one key inside
another (`MaxNest` = 2), which is enough for an inner handler to meet an outer one at each of
its places; the theorems are for any depth. `Unspoiled` stops where `kept` is `FALSE`. The
view `Relevant` leaves out what no later step reads before it is written again: characters
outside the line, `tmp` of a sleep and `data` of a read that are over. *SignalFrame*:
signals 1, 2 and SIGKILL; actions with and without `SA_NOMASK` and `SA_ONESHOT`, and one
that ignores; sixteen words hold two whole frames, or more that are partly
undone; the program calls `sigaction()` and `ssetmask()` outside of handlers only.

**Deadlock** is checked except where the system may stop: in `WaitQueue` all tasks may
have exited or sleep for ever, in `Memory` and
`OpenFiles` `panic()` stops the kernel. In `BufferCache` a sleeper may always look again, so
that check says nothing there.

**Fairness.** *Sched*: kernel code goes on (`KernelStep`), the idle loop calls `pause()`
(`main.c`), the timer ticks and devices answer; nothing is assumed of programs.
*WaitQueue*: a woken task is dispatched, which is `NoStarvation` of `Sched`, and a lock is
undone, by its owner or by the interrupt, which is what `LocksAccounted` of
`RequestQueue` rests on for buffers. *RequestQueue*: the disk answers commands, a task in
the kernel goes on, a woken one is dispatched. All of that is weak fairness.
*OpenFiles*: a task in the kernel goes on and the disk answers; strong fairness
(`KernelStep`), because a task that is ready is not always dispatched next but is
dispatched in the end, which is `NoStarvation` of `Sched`. *Terminal*: the innermost
handler goes on, at each depth, and so does a reader that can run; strongly, because keys
interrupt both again and again, but not so fast that the interrupted code never gets to its
next step. *SignalFrame*: user code goes on, weakly, and `ProgramGoesOn`
is for finitely many signals, because endless ones may keep a handler running for ever.

## 4. Proofs

Every safety invariant that a passing run checks, and each of the five refinements, is
also a theorem: it holds for every number of tasks, slots, frames, pages, buffers, blocks,
requests, inodes, files and signals and every size of the terminal's ring, from the
assumptions named `...Assumption` in the module of the component, and for the bounds of the
models (`MaxNr`, `MaxStack`, ...) whatever they are, but that fewer keys interrupt each
other than the terminal's ring has places (`MaxNest`). The assumptions give the constants
their types and the sizes that the code needs (two slots, two buffers, two entries for requests, at
most 256 slots in `Memory`, since a count has eight bits), say that a set of tasks is finite,
and that `NULL` is none of the things it stands beside. No theorem has other hypotheses, but those in its statement: `calm` for
two of the queue, `sane` for those of `OpenFiles` that the state constraint of its run cuts
off in the same way, `QuietSpec` for two of `Memory`. Each main invariant has a lemma for
`Init`, one for each action, and one that puts these together for `Next`.

**`Sched_proofs`.** `SchedInv` is

    SchedInv == TypeOK /\ CounterBound /\ RunnerReady
                /\ PidOrder /\ PidsUnique /\ NoLostChild

The bound on slices is inductive with types alone: `counter/2 + priority` of something
below twice the priority is below it. `RunnerReady` needs that a pick is made among the
tasks that are runnable *after* signals have been looked at (`PickProps`,
`ScheduleProps`). Unique pids need `PidOrder` (no live pid exceeds `last_pid`, from
which the search starts, and only slot 1 has pid 1) and that the search finds a free pid,
because it tries more than there are slots (`NextPidProps`, with `MinOf` by
well-foundedness of Nat). `NoLostChild` is
inductive with these: the only steps that take SIGCHLD away are the resumed `waitpid()`,
which is no longer waiting then, and delivery, in user mode. `QuietStep` and
`TableSchedule` are the two shapes that all steps have there: those that only dispatch and
those that dispatch after changing the table.

`ZombieHasFather` and `ImplementsTaskLife` need more: `PageInv` (no two tasks have a page in
common, and a task in `release()` is not itself what it has freed, so that its loop does not
empty its own slot) and `FamilyInv`: until a task is in `release()`, the father of each
live task is task 1, or 0, which only task 1 has, or a live task that is no zombie. Most
steps leave the table alone and only move, wake and dispatch (`Calm`); the others are
`Fork`, `Exit`, the scan of `waitpid()` that reaps (`Reaps`) and `ReleaseContinues`, and
each of these is a step of `TaskLife`. The zombie that `ZombieHasFather` speaks of
has a father by `FamilyInv`; it cannot be 0, since task 1 is alive and no zombie.

`NobodyPassedOver` and `WaitersLoseNoTime` are the safety on which `SignalEndsSleep`,
`AlarmEndsSleep` and `NoStarvation` rest. Whenever the processor changes hands the new state
is `Settled`: no sleeper has a signal that ends its sleep, no alarm is due, and no runnable
task has more time left than the one that runs, which has some. And no step takes time from
a task that does not run: a refill takes half of its slice and adds the priority, which is a
gain because of `CounterBound` (`RefillGains`). Both are about one call of `schedule()`
(`ScheduleSettles`), and each step is a `Dispatch` or is `Quiet`.

**`WaitQueue_proofs`.** `TypeOK`, `OneOwner` and `HeadAwake` from `LockInv` (a lock has one
owner, and the head of an unlocked object is awake), `NoLostSleeper` and
`OnlySleepersWoken` from `calm => CalmInv` (the sleepers form a chain from the head over
their `tmp`, written without recursion).

**`Memory_proofs`.** `MemInv` adds to `CountsRight` who may use a frame. A task has pages
only with a page table, and that only with a task_struct (`Alive`); a task_struct or page
table is nothing else's (`Apart`); who shares a frame has it at the same place, because
`fork()` copies the whole table (`SamePlace`); nobody else has what a task may write
(`Own`). By `SamePlace` a frame has at most one user per slot, so that its count stays below
256 and does not wrap; with `CountStep` and `PairsStep` (how a cardinality changes with one
row of a table) each action's change of `mem_map` is the change of the number of users.
Types, counts and `WritableIsPrivate` hold for `Spec`, `read()` included.
`ImplementsPrivateMemory` holds for `QuietSpec`: what is written is either free, and then no
entry has it, or writable, and then only one has. For the same reason
`SharedPagesKept` holds there (`SharingIsKept`), so that `read()` is the only cause of
the violation that the run `memory_read` finds.

**`BufferCache_proofs`.** `OneBufferPerBlock` is inductive nearly as it stands (`BlockInv`):
only `Take` gives a buffer a block, and it is reached without a sleep from the last
`find_buffer()`, however often `getblk()` slept before. The rest is from `CacheInv`: the
free list has each buffer once (`ListInv`), so that the scan of `getblk()` finds one that
is unused if there is one; each task has at its place what the code relies on there
(`PlaceInv`: a buffer counted for a task keeps its block through its sleeps, so that
`get_hash_table()` never finds another after its wait); nobody uses a block that is
being freed (`FreeInv`); a buffer that is valid, clean and unlocked is what the disk has, a
buffer being read is not valid, and one being written is (`BufferInv`). `Take` finds its buffer
unused, clean and unlocked, so that the block that leaves the cache is on the disk: that is the
stutter of `BlockStore` that matters.

**`OpenFiles_proofs`.** `NumbersAreUnique` needs no more than `NumberInv` and holds whatever
`open()` does: the search of `iget()`, after its last sleep in `get_empty_inode()`, and the
entry of the number are one step. The rest is `SaneInv == NumberInv /\ (sane => FilesInv)`.
`FilesInv` says what each task has at its place (`PlaceOK`, `HasOK`, `OneHolder`): an inode
that it will put back keeps its number, the one it has locked nobody else has, an empty one
or one being read is nobody else's. An inode in the table that is not changed and not being
read is what the disk has (`InodeOK`); a file has an inode just when its `open()` is done
(`FileOK`). A count is the sum of three cardinalities (`Total`): the files, the tasks inside a call, and
what refers to the root; each action's change of `i_count` is the change of that sum. After
`sane` has become `FALSE`, `open()` has used an arbitrary inode of its stack, and no
count says anything: therefore these theorems are under `sane`, as the run is. `LocksAreHeld`
is not: a locked inode always has a task that is reading or writing it, which waits for no
other inode, and only such a task unlocks it. With the fairness of `FairSpec` that
is `LocksUndone`, but for the task that waits for itself (`deadlock`).

**`RequestQueue_proofs`.** `ReqInv` has the types, the list and the table together
(`QueueOK`), who has locked a block (`LockOK`), that a task has a call just while it is in
one (`CallOK`; it says which block a task in `make_request()` has locked), and that an
interrupt of the disk finds a request. `OrderProps` shows that `IN_ORDER` is a strict
order in which requests for different blocks are never equal; a list has one turn at most (`OneTurn`),
and the position that the search finds is either within a sweep or at its turn, so that an
insertion makes no second one. `EndRequests` takes away the head and all that the driver
refuses behind it, at once; the lemmas on it are about any number of these (`EndShape`).

**`Terminal_proofs`.** `TermInv` has the types (`RingOK`, `HandlerTypes`, `TaskTypes`,
`ReadTypes`), that a task in a read has not got all it has asked for yet (`GoesOn`), and two
things that hold until the line is spoiled. `Orderly`: handlers under the innermost stand before
a loop test or a wake-up and none was cut, so that what has been struck and has no effect yet
is one sequence (`Struck`: the character in hand, then `read_q`, then the key that is not there
yet); `read_q` holds no more keys than there are handlers, and so never overflows. `Awake`
is `LineAnnounced` in terms of the characters: the head of the readers runs while a line is
there, or a handler is to wake it (`Waking`), which is why a newline may be put some steps
before its wake-up. What the C macros compute modulo `TTY_BUF_SIZE` is worked out once for any size (`Count`, `LineOf`): putting, taking and
erasing a character appends to, or removes from an end of, the sequence of characters, unless
the ring is full or empty; a newline in the ring is one of the sequence. The
steps that spoil the line are those where these lemmas do not apply or where `Orderly` ends,
and there `kept` becomes `FALSE`.

**`SignalFrame_proofs`.** `ContextKept` is not inductive, since nothing in it says what is
under the frame of a handler. `ContextInv` says that there is a chain of contexts, from the
registers and the stack now to those of the program: each context's stack holds, in the place
where its restorer will look, the registers of the next, and that one's stack below
(`Holds`, with a part of the frame already popped inside a restorer). A delivery pushes a context
(`ChainPush`), the last word of a restorer gives back the next one (`ChainProps`). As the
chain is of any length, it is an existential over functions, and no induction is needed.
`NeverTwice` needs besides where calls are (`Called`: in `eip`, and in the frames on
the stack), that an action masks its own signal or has SA_NOMASK (`MasksItself`), and that the
signal of a handler that has not returned is blocked, or has SA_NOMASK (`Guarded`).
No restorer gives the mask back, so it only grows until the program sets it, outside of
handlers, when no handler is left that has to be guarded. `HandlersUnwind` is the
argument behind `ProgramGoesOn`: outside of the program, `eip` is at an instruction whose
word is on the stack (`NeverStuck`), and each of these instructions lessens `Remaining`, a
natural number: three for each word on the stack, and the steps of a handler that is called.

**Model-checked only**: liveness (`NoStarvation`, `SignalEndsSleep`, `AlarmEndsSleep`,
`WaitFindsChild`, `WaitersLeave`, `LoneReaderServed`, `LocksUndone`, `ProgramGoesOn`), because
`ENABLED` and fairness are out of the prover's reach (what they
rest on besides is proved: `NobodyPassedOver` and `WaitersLoseNoTime` for the first three,
`NoChildIsLost` for `WaitFindsChild`, `HeadIsWoken` and `CalmLosesNobody` for `WaitersLeave`,
`LineIsAnnounced`, `LocksAreHeld` and `HandlersUnwind` for the others); and the three properties that the
code violates, whose runs show a behaviour.

## 5. Not modelled

Boot code runs before there is any task. Traps, `printk`, `vsprintf` and the serial
output print and halt; `panic()` is a state of the models. Screen output writes to video
memory that nothing reads back. The user library is stubs, the RAM disk is empty, the
`*_test` and `*_demo` files are demonstrations. `sys_setup()` reads the partition table
once, `mount_root()` the super block. Of the file system, what only unfinished code
reaches is left out: `new_block()`, `new_inode()`, `free_inode()`, pipes, mount points,
the truncation of a file without links. File positions, and `bmap()` as a function of
them, are left out because programs cannot write files; the echo of the terminal, because
it only changes what is on the screen.

## 6. Plan

Done: the modules above, in the order scheduler, wait queues, memory, requests, buffers,
terminal, inodes and files, signal frames. Left:

1. Proofs: variants for the loops of `getblk()` and `iget()`, as there is one for
   handlers; the arithmetic of `NextPid` at the limit of a pid's width, if the model gets one.
2. `bmap()` and the bitmaps as functions against a reference definition, and file
   positions, once the kernel writes files.
