# SBoy28 in TLA+

SBoy28 is a small 32-bit x86 operating system with threads, a kernel heap, paging, a FAT32
driver, a mouse, and a desktop of windows. This directory models its own core logic, checks
the models with TLC on small instances, and proves what matters most with TLAPS.
`PROJECT.json` ties every definition to the source lines it translates and lists the runs,
mutants, findings, hazards and theorems. Paths below are relative to the repository's root.

## The system's parts

| Part | State it keeps | Operations | Talks to | Hard because |
|---|---|---|---|---|
| Threads package `src/drivers/thread` | thread states, one link per thread, run queue, `current`, mutexes, semaphores | create, tick, yield, exit, lock/unlock, wait/post | heap (stacks), PIT (tick), every thread | preemption between any two steps; a context switch in the middle of a call; exit on a stack just freed |
| Kernel heap `src/kernel/core/kheap.c` | block headers in the heap itself | `kmalloc`, `kfree` | paging (initial pages); threads, VGA, brushes | long split/merge sequences; no lock |
| Physical and virtual memory `pmm.c`, `vmm.c` | frame bitmap and count, directory and tables | alloc/free block, map/alloc/free page | each other, heap | exhaustion halfway; tables live in the frames they manage |
| FAT32 driver `src/drivers/filesystem.c` | mount data, FAT, directory entries, open handles | mount, open, read, write, seek, close, list | an `FSBlockDevice` the caller makes | an operation is several sector writes; handles keep copies; handles of one file do not know of each other |
| Mouse `src/drivers/mouse` | packet bytes, position, buttons, click latch | IRQ 12, getters | PS/2 controller, desktop | a byte lost; latch read and cleared beside an interrupt; answers polled while the interrupt is enabled; deltas of nine bits |
| Keyboard `src/drivers/keyboard.c` | none that is used (`key_buffer` has no reader) | look at the controller, read a byte | PS/2 controller, desktop | one port for keys and mouse |
| Window API `apps/OS/API/Grapich` | classes, windows, a one-slot message mailbox, the request to quit | register, create, destroy, post, get, dispatch, move | desktop, applications | messages that outlive their window; callbacks that call back |
| Desktop `apps/OS/OS.c` | start menu, active window | the main loop, its callback | window API, mouse, keyboard, RTC | every order of keys, clicks and callbacks |
| RTC and `Sleep` `src/drivers/rtc.c` | CMOS registers | read the time, busy wait | kmain, desktop | registers move on between two reads; seconds wrap |
| ISO / FAT12 reader `src/drivers/iso`, `tools/fat` | what it read of the disk | 12-bit entries, file lookup | a RAM disk; a disk image on the host | entries across byte boundaries |
| Screen, tty, UI, number formatting | a back buffer, a cursor | draw, print | all | edges |
| Lua application `apps/lua/src` | one pointer to the interpreter | init, execute, shut down | the vendored interpreter | hardly anything of its own |
| Boot, interrupts, power, libc | tables | set-up, port I/O, stubs | all | straight-line code |
| FatFs, Nestopia, Lua core | | | | vendored, not part of this project |

What makes each correct:

* **Threads.** No thread that was enqueued is lost or on two lists; mutexes exclude and are handed over; tokens
  are conserved; nobody starves; a stack is not reused while somebody stands on it.
* **Heap.** Blocks never overlap; the list always tiles the heap; whatever fits is granted.
* **Memory.** Each frame has one owner and the count is exact; the identity map survives; a
  call changes one page.
* **FAT32.** Chains stay sound and a size never promises more than its chain holds, whatever
  calls interleave or fail; what one reads is what was written; bytes and clusters get lost
  only where the driver lets handles overlap or be dropped.
* **Mouse, keyboard.** While no byte is lost, the pointer follows the mouse (moves that fit in
  eight bits) and no click is made up; none is lost but in one place; a key is eaten only for a
  byte of the mouse that was polled.
* **Windows, desktop.** A message reaches the window it was posted to, or nobody, unless that
  window is destroyed first; no posted message is overwritten, unless a callback posts twice or
  somebody has quit; the screen is painted; a shutdown ends, after its two seconds or a little less.
* **Functions without state.** Names lead to their files and back, entries of FAT12 come out as
  they went in, what is clicked is what is drawn, digits are the number's.

## Modules

| Module | What it is |
|---|---|
| `Scheduler` | the threads package: detailed model and its properties |
| `Sync` | abstract: first-come-first-served mutexes and semaphores, no scheduler |
| `SchedulerSync` | the refinement mapping from `Scheduler` to `Sync` |
| `SchedulerProofs` | theorems about `Scheduler`: lists, mutexes, and the invariant of all others |
| `ThreadProofs` | theorems about `Scheduler` on top of those: order, semaphores, stacks, zombies, `Sync` |
| `KHeap` | the kernel heap, one header access per step, with its mapping to `Allocator` |
| `Allocator` | abstract: a first-fit allocator that sees only blocks in use and gaps |
| `KHeapProofs` | theorems about `KHeap` with one caller |
| `Memory` | bitmap, directory and page tables |
| `MemoryProofs` | theorems about `Memory` |
| `Arithmetic` | lemmas about `\div` and `%`, least elements |
| `FileSystem` | the FAT32 driver on a mounted volume, sector by sector |
| `FileStore` | abstract: files as strings of bytes, no FAT and no sectors |
| `FileSystemProofs` | theorems about `FileSystem` |
| `Directory`, `Fat12` | paths, names and directories of the FAT32 driver; the FAT12 readers: functions |
| `MCLookup` | what those functions promise, over bounded inputs |
| `Input` | mouse, keyboard and the desktop's polling, behind port 0x60 |
| `InputProofs` | theorems about `Input` |
| `Windows` | the window API: slots, mailbox, quitting |
| `Desktop` | main loop, callback, `Sleep`, and an application; EXTENDS `Windows` |
| `DesktopProofs` | theorems about `Desktop` |
| `Text`, `Screen` | numbers and strings; pixels, rectangles and the desktop's places: functions |
| `MCText` | what those functions promise, over bounded inputs |
| `MC*` | the values of the constants for TLC |

Definitions called a *mutant* state a plausible bug in the definition after them. Nothing in a
specification uses them; they show that each property can fail.

### Scheduler

One processor, so one thread of control at a time: `cpu` is the context that executes, and
`pc[c]` says where every context is. The package masks interrupts around each use of its
queues (`save_irq_state` ... `restore_irq_state`); such a section is one step. All other code
runs with interrupts enabled, so `Tick` can strike between any two steps: after
`thread_yield`'s quick look at `run_head`, between the load and the store of `next_tid++`,
and between the statements of `thread_exit`. `thread_create` is three steps: `CreateAlloc`, then
`CreateStore`, which sets the new thread READY, then `CreateEnqueue`, which prepares its stack and
puts it on the run queue; a tick in the second gap finds a READY thread on no list (`pc` "made"
until then, "new" after). A call that blocks has two halves:
`mutex_lock` is `LockFree`, or `LockBlock` up to its `schedule()` and `LockReturn` after it.
`spinlock_t` is never found taken on one processor and has no state here.

`next` is the one link each `thread_t` has: the run queue and all wait lists are threaded
through it, and `Push` and `Pop` are the pointer code, so that a list could really be bent;
`Items` reads a list off its links, as the sequence of its threads.
`stack` is the field, `esp` the block the thread in fact lives in; the two differ once
`thread_exit` has freed the stack it runs on. `holds`, `posted` and `taken` record what the
callers did, for the properties.

What threads do is open, within the discipline the program's own threads follow: one mutex
at a time, unlock what was locked, no blocking or exit while holding one (`MayLock`,
`MayWait`, `MayExit`). With `NeedResident`, semaphores are used only once some thread exists
that never sleeps on one; without it `sem_wait` is broken (first finding).

### KHeap and Allocator

`next`, `size`, `free`, `magic` are the header fields at each address. Every pass of a walk
and every store another context could see is a step (`Fit`, `Split`, `Link`, `Take`; `Mark`,
`Right`, `Unlink`, `WalkOn`, `Left`, `Join`). `Allocator` has none of this: it computes the
gaps between blocks in use. That `KHeap` with one caller implements it says that splitting
and merging is right: it would be refuted by a block too small or in the wrong place, by a
neighbour left unmerged, and by a refusal while something fits.
`given` (who has what) and `answer` (the last result of each caller) are what callers know.

### Memory

`Init` is the state `pmm_init` and `vmm_init` leave, with arbitrary old contents in the free
frames. `word[f]` is a frame read as a page table. `AllocPage` and `FreePage` are
`vmm_alloc_page` and `vmm_free_page` with the `vmm_map_page` and `pmm_*` calls they make,
exhaustion included: with one frame left, the page gets it and its table is built at NULL, in
frame 0.

### FileSystem, FileStore, Directory

A handle is an `FSFile`: a structure of the caller's with a copy of first cluster and size.
`fs_read` and `fs_write` are several steps: `AddFirst` and `AddCluster` are one pass of the loop
in `file_cluster_for_position`, `ReadPass` and `WritePass` one pass of the loop over sectors,
`Fail` is any of their error returns. Calls on different handles interleave between these steps,
as they would if their threads were preempted there. The device has room for `OnDevice` only,
which the driver does not compare with the boot sector's count of clusters: reading or writing
the others fails, and the call ends half done. A byte says who wrote it. `fs_open` may reuse a
handle nobody closed. `opened` records the entry as it was when the handle was opened.
`WalkIn` and `ChainIn` follow the links from a cluster, as a function of the number of links
followed. A volume is mounted sound (`SoundVolume`): its chains do not cross, and no size in it
promises more than its chain holds.

`FileStore` knows none of this: a body of bytes that grows at its end, an entry and handles that
name a body and how much of it counts. The mapping (`Text`) takes for a body what a chain's
clusters hold, for every cluster that begins a chain, whether an entry leads there or not.

`Directory` has `next_component`, `fat_name_from_path_component`, `find_entry_in_dir`,
`resolve_path` and `fs_list_dir` as functions on a tree of directories; nothing in the driver
changes a directory but `fs_close`, and that only size and first cluster.

### Input

The PS/2 controller (external) has one byte in its buffer, whichever device sent it, and raises
IRQ 12 for the mouse's. `Handler` is `irq_handler` with `mouse_irq_handler` and runs with
interrupts masked, one step. `Loop` is what the desktop's loop does with the two devices:
`is_key_pressed` (`PollStatus`), `read_key` (`PollRead`), and the load and the store of
`mouse_consume_left_click`.

`mouse_device_init` sends two commands, waits for the answers and reads until the buffer is empty,
all by polling. `Init` (after `mouse_init`) and `IrqInit` (the handler calls it on a first byte of
0) have its outcomes: an empty buffer; IRQ 12 pending or not, raised by the answers that were read;
and still to come (`Leftovers`) nothing, answers that were too late, or the rest of a report that
the flush began to read. What it eats meanwhile, also of the keyboard, is gone.

The rest is history for the properties. `hand` is where the pointer belongs by what the mouse has
reported, `intact` says that every byte has reached the packet so far, `narrow` that no delta
needed its ninth bit (the mouse reports -256..255, and the driver drops the sign in the first
byte). `polled` says that a byte of the mouse was polled and the interrupt it raised is yet to
come; every run of the handler ends that. `owed` counts presses of the button, as the mouse reports
them, less the clicks the desktop has got; up to two (`MaxOwed`), since one can be on its way and
one in the latch. Counting no further makes the property stricter.

### Windows and Desktop

`Windows` is the API of `windows.c`; its operations are parts of its callers' steps. `Desktop`
has the loop of `main` (`pc`): `Poll`, `NoClick` or `Click` or `ChooseEnd`, then `GetOne` until
`GetNothing`, then `Paint`. Clicks are sent, keys are posted, as in the code. An application is
external: while `pc` is "application" its callback makes any calls of the API, in any order;
`eager` records that it has posted twice in one run. `Tick` and `Look` are time and the loop of
`Sleep`, which runs inside the callback of a click, so the machine ends in "off" and no later
message is read. A second has `Parts` parts; `Sleep` begins in any of them (`from`) and looks at
least once in each, and the RTC moves with the last (`phase` becomes 0). `Since` is the time that
has gone by, in parts.

### Functions: Fat12, Text, Screen

Code without state of its own is written as functions with the source's names, and the
`ASSUME`s of `MCLookup` and `MCText` say what they promise:

| Assumption | About |
|---|---|
| `ShownNamesResolve`, `ListedIsFound`, `SlashesDoNotMatter` | a name that `fs_list_dir` shows opens the entry it was shown for; slashes repeat freely |
| `PackedEntries`, `ReadsInOrder`, `ReadersAgree` | FAT12 entries come out as they were put in; a file's clusters in order; kernel and host tool agree |
| `RootDirectoryFits`, `SectorsOnDisk` | the root directory's extent; copies stay on the disk below the numbers that wrap |
| `NumbersAsDigits`, `DividesBitByBit` | `itoa` and its like; `u64_div` and `u64_mod`, which go wrong only for divisors above half the range |
| `ClockReading` | the time shown is right unless a minute ends between the reads of the registers |
| `ClassesFound`, `TitlesKept` | classes of fitting names are found and registered once; a title comes back up to 63 characters |
| `TerminalTidy`, `StringsStay`, `ClickedIsSeen` | characters are on the screen and not on each other; a rectangle is hit where it is drawn |
| `WindowGeometry`, `PlacesApart`, `TitlesChooseThemselves`, `PositionsSurvive` | bounds; the desktop's buttons in their real size do not overlap, and each menu title chooses itself |

`PlacesApart` and `TitlesChooseThemselves` justify that `Desktop` takes the places of a click
for alternatives.

## Runs

| Run | Shows | Bounds, and why they suffice |
|---|---|---|
| `sched` | queues, mutex, semaphore, stacks and refinement of `Sync`, with a tick anywhere | three threads: an owner, a waiter and one to barge in; one mutex and one semaphore share the links; `t3` may get the stack `t2` freed; one `sem_post` each (`MaxPosts`); may stop when everything is blocked, so deadlock is not an error |
| `sched_live` | nobody starves but a thread whose creation kmain never finishes, every lock is granted, nothing deadlocks | three resident threads and a mutex; threads are created by kmain's context, which a tick ends, and by a thread, which comes back |
| `heap` | the heap is sound and implements `Allocator`; calls return | 84 bytes: up to four blocks, so a freed block can have a free neighbour on each side while a fourth is in use; sizes that split, that leave a rest of exactly the minimum, too small a rest, and one that never fits |
| `memory` | frames, count, identity map | twelve frames in tables of five: a partly filled identity table, five free frames, exhaustion before and after the table is made |
| `fs` | chains stay sound, sizes stay covered, what gets lost and when, refinement of `FileStore`; and the assumptions of `MCLookup` | two handles on two files, one empty and one of two clusters out of order; four clusters of two sectors of two bytes, one of them off the device: both an exhausted volume and a failing sector happen, and with transfers of three bytes (`Lengths`) parts of sectors, whole ones, and transfers across sectors and clusters; one position to seek to, in the third cluster, so that chains grow by several clusters at once and handles stand beyond the end; two calls of `fs_write` (`MaxWrites`) on either handle, interleaved; the handles are interchangeable (symmetry) |
| `input` | the pointer, clicks, and whose bytes are eaten | a screen of 2 x 2, so both edges are met; reports with the button down and up, negative deltas, one of nine bits, bytes 0, 0xFA and 0xAA as data, and a last byte that looks like a first; one scancode; every outcome of `mouse_init` |
| `desktop` | the mailbox, addressing, keys, painting, shutdown; and the assumptions of `MCText` | three slots, so that an application has two windows and one to create; five windows are ever created (`MaxCreated`), so slots are used again; `Sleep` from each of the last three seconds of a minute: the pause ends before, at and after the wrap; seconds in two halves (`Parts`), so it begins on the second or within it; followed for three updates of the clock (`MaxTicks`), more than the two it takes; the machine ends in "off", so deadlock is not an error |

Runs that end in a violation, each a disagreement between the code and what it says of itself:

| Run | What happens |
|---|---|
| `sched_sem_alone` | `sem_wait` on an empty semaphore returns without a token when no other thread is READY: `schedule()` returns at once |
| `sched_yield_boot` | kmain's context never returns from `thread_yield` once a thread was created: it has no `thread_t` to be saved in |
| `sched_exit_leak` | a tick after `state = THREAD_ZOMBIE` and before `kfree` loses the stack for good |
| `heap_race` | two contexts in `kmalloc` get overlapping blocks |
| `input_resync` | the mouse's parser drops three bytes at a time, so once out of step it stays so, although it says it resynchronises |

`heap_race` concerns the package as written (`thread_create` and `thread_exit` call the heap
from any thread); today only kmain's context allocates.

**Fairness.** `sched_live` assumes that the PIT ticks for ever (`WF` of `Tick`; `pit_init`
programs it periodically) and that a context which gets the processor again and again moves on
inside a call it has begun and out of a critical section (`SF` of `Continues`, `Unlocks`: it is
enabled only while it has the processor, hence strong). No thread is obliged to lock, wait,
post, yield, create or exit. `heap` assumes that a caller inside `kmalloc` or `kfree` goes on.
`input` assumes that the handler of a pending interrupt runs, the loop goes on and a mouse in
use reports (`WF`), and that the mouse gets a turn at the controller's buffer, for which it
competes with the keyboard (`SF` of `MouseSends`). `desktop` assumes that the loop goes on, a
callback of an application ends, and time goes on (`WF` of `Loop`, `AppReturn`, `Tick`);
that `Sleep` looks at least once in each part of a second is part of `Tick`'s guard, since its loop
takes a few instructions. `Paints` is about applications that do not post to themselves for ever.

What the runs show that a reader might not expect, none of it contradicted by the repository's
own words and so no finding: `thread_create` sets a thread READY before it is on the run queue, so
a tick in between leaves it on none, and if it was kmain that created it, for ever
(`QueueIntegrity` speaks of enqueued threads, `NoStarvation` excepts `Abandoned` ones); a handle that overlapped with another's close shrinks the file or
loses its chain (`OnlyOverlapLoses` and `OnlyDroppedLeak` say exactly when); the desktop's loop
reads bytes of the mouse as keys, and `mouse_device_init` polls answers, each time leaving an
interrupt whose handler may eat a key (`KeyEatenOnlyForPolled`); a move of more than 127 in one
report goes the wrong way (`PointerFollows` asks for `narrow`); after a lost byte a shifted packet
can pass for a press that nobody made (`NoPhantomClick` asks for `intact`); a press between the load and the store of the latch is lost
(`PressBecomesClick` leaves out that place only); a callback that posts twice overwrites its first
message, and once somebody has asked to quit no message is ever read again (`NothingLost`,
`KeyHandled`); a window created in the slot of a destroyed one gets its pending message
(`Addressed`); `Sleep` counts the second it is called in as a whole one, so the shutdown's two
seconds can be little more than one (`SleepMeasures`; `src/drivers/rtc.c:61` says that it "may not
be accurate").

## Proofs

Every safety invariant, every action property and every refinement that a passing run checks is
also proved, for every value of the constants: the runs show each on a small instance, and that
it can fail (the mutants); the theorems say that the instance was not too small. The proofs
assume what each module's named `ASSUME` says of its constants (TLC evaluates it in the runs)
and what is named below, nothing else.

### Threads: SchedulerProofs, ThreadProofs

For any finite set of threads, any mutexes, semaphores and stacks, under
`ConstantsAssumption` and `NeedResident` (without a resident thread `sem_wait` is broken, which
is the finding of `sched_sem_alone`):

| Theorem | States |
|---|---|
| `TypeCorrect`, `MutexExcludes`, `MutexAccounted` | `TypeOK`, `MutualExclusion`, `LockAccounted` |
| `ListsIntact`, `QueuesIntact` | `QueueInv`, and from it `QueueIntegrity`: the run queue is the READY threads that are enqueued |
| `RoundRobin` | `NeverOvertaken`: who waits on the run queue is not overtaken |
| `NoWakeupLost`, `TokensBalanced` | `NoLostWakeup`, `TokensConserved` |
| `StacksExclusive`, `ZombiesStayDown` | `StackExclusive`, `ZombieNeverReturns` |
| `SyncImplemented` | `ImplementsSync`: the package implements `Sync` |

*The argument.* No property is inductive alone: a mutex stays exclusive only because its
wait list holds exactly its sleepers, which is so only because no sleeper is on the run queue,
which depends on where each thread is in its call. `IInv` joins the types with `QueueInv`
(each list is a list of exactly its threads), `PlaceInv` (which `pc` a thread can be at in each
state), `CreateInv` (a thread under creation has one creator, and is on no list however READY it
is), `CpuInv` (who is RUNNING and
what `cpu` and `current` say) and `MutexInv`.
A list is said to be one without walking along it: `IsList` gives its threads a *rank* that
rises by one along every link, from the head to the tail. `PushAdds` and `PopDrops` are then
lemmas about pointers, `WaitPush`, `WaitPop` and their like lift them to all lists,
`ScheduleEffect`, `BlockEffect` and `WakeEffect` say what the three shared pieces of code do,
and `NextIInv` has one step per action.

`ThreadProofs` turns ranks into sequences: by rank a list *is* a sequence Q of its threads
(`Spells`), and a walk along the links returns Q (`FollowPrefix`: each step of it makes a prefix
of Q longer by one). So `Push` appends and `Pop` takes the head off (`Items`), which is what
round robin and the refinement speak of. `Quiet` and `Loud` divide the steps: all but the seven that
work on a mutex or semaphore leave owners, waiters and tokens as they are (`QuietSteps`), and
for each of the seven one lemma says what it does to them. From these follow `TokenInv` (a
semaphore with a token has no waiter), the balance of tokens, and, action by action, the
refinement. `StackInv` says who stands on which stack; what makes it inductive is `Underfoot`: the
block under the processor, which `thread_exit` frees while it runs on it, is nobody else's
until the processor has left it.

### Heap: KHeapProofs

For a heap of any size and any set of sizes asked for, with two hypotheses. One caller
(`Callers = {c}`): today only kmain's context allocates, and with two contexts `Disjoint` is
false, as `heap_race` shows. And no size that wraps when `kmalloc` rounds it up (`NoWrap`):
those above 2^32 - 4, which nobody asks for and which get a block of zero bytes (a hazard on the
list).

| Theorem | States |
|---|---|
| `TypeCorrect` | `TypeOK`: no link leads out of the heap |
| `BlocksApart`, `HeapTiled` | `Disjoint`, `Tiled` |
| `FirstFit` | `ImplementsAllocator`: the heap implements `Allocator` |

*The argument.* Half way through a split or a merge, the links, the sizes and the flags disagree,
so the invariant cannot speak of the list as it is linked. `HeapInv` says instead that there is a
set L of blocks which by their sizes alone cut the heap into pieces (`Tiling`); that the links
follow them, but for the one link the call is about to mend (`Mended`, `Chained`); that a block
is free unless a caller has it (`Used`); that two neighbours are both free only where a split has
been made or a merge is due (`Merging`, `Coalesced`); and what the call has found out so far
(`Searching`: no block before `curr` fits; `Freeing`: where `curr` stands in the second walk of
`kfree`). `CutTo` and `MergedTo` are the two ways to make L anew. `Listed` is a walk: it finds
the block with k others before it after k links (`Rank`). For `FirstFit`, free blocks and the
abstract gaps are the same intervals between calls and while one searches, and the first block
that fits is the first gap that does; all writes but `Take`, `Kfree` and a refusal are hidden.

### Memory: MemoryProofs

For any amount of memory, kernel and table size (`MemoryAssumption`):

| Theorem | States |
|---|---|
| `TypeCorrect`, `IdentityKept` | `TypeOK`, `IdentityMapped`, for any set of pages |
| `FramesAccounted`, `PagesIndependent` | `Accounted`, `OneAtATime`, for pages in one table (`OneSlot`) |

`IdentityMapped` says nothing of where the tables are, and would be lost if the pages' table
were one of them; `Accounted` says nothing of frames below 1 MB. `MInv` adds both:
`TablesInv` (the identity map's tables are where `vmm_init` put them, with what it put there,
and the pages' table is in frame 0 or in a frame of its own) and `OwnersInv`; `IdentityInv` is
the part that holds for pages in any tables. `EntryWritten`
and `TableMade` are the two ways `vmm_map_page` writes; the division of an address into
indices is `Division`, `Below`, `Above`; that `FirstFree` finds something is
`LeastElement`, from the library's `WFMin`. Without `OneSlot` the two theorems that assume it
are false (the second table in frame 0, below).

### Files: FileSystemProofs

For any number of clusters, files and handles, any sizes of sectors and clusters, any volume
that is sound to begin with, any lengths, positions and modes (`FileSystemAssumption`):

| Theorem | States |
|---|---|
| `TypeCorrect`, `ChainsStaySound` | `TypeOK`, `ChainsSound` |
| `SizesCovered` | `Covered`: no size, in an entry or a handle, promises more than its chain holds |
| `OverlapAloneLoses`, `DroppedAloneLeak` | `OnlyOverlapLoses`, `OnlyDroppedLeak`: when data and clusters get lost |
| `FilesStored` | `ImplementsStore`: behind the sectors there are the files of `FileStore` |

*Types, chains, overlap.* `TInv` adds to the types that calls are in progress on open handles
only; what a pass moves stays inside its cluster by `PartFits`, whose arithmetic is
`PieceInBlock` in `Arithmetic`. `ChainsSound` is inductive together with it: a cluster that is
linked or becomes a first one was free, so nobody led to it (`FreshLink`, `FreshHead`), and
opening, closing and dropping handles only make fewer heads (`FewerHeads`). That only overlap
loses needs `HandleKeeps`: a handle never has a smaller size than it was opened with, nor
another first cluster.

*Chains as walks.* `WalkIs` says what `WalkIn` is at 0 and at i + 1, the only fact about its
recursion. No cluster is met twice on a walk from a first one, and two walks never meet
(`WalksApart`), so there are too few clusters for one to go on (`ChainLength`, a pigeonhole
argument on cardinalities) and each ends (`ChainEnds`). Links are only added, at ends, so a walk
keeps its clusters (`WalkKept`) and a chain only grows (`ChainGrows`). The effect of each step on
FAT and heads is a lemma of its own.

*Sizes and leaks.* That a read or write is in progress only where `fs_read` and `fs_write` allowed
it, and that a handle without the mode of writing has the first cluster it was opened with, are
the invariants `CallsLegal` and `ReadersKeep`. `SizesCovered` needs that a write sets the size
only after its pass has found a cluster for it; `DroppedAloneLeak` that a chain is lost with its
head only.

*The refinement.* `Text` is told byte by byte: the byte at `Cluster * j + q` of a chain is byte q
of the j-th cluster of its walk (`ByteAt`). Then a write in one cluster changes one body
and there one piece (chains are apart: `OneByte`, `OtherText`), a cluster linked to an end
makes one body longer and leaves what it held (`LongerText`), a first cluster begins a body that was not
one (`NewFirstText`). `ReadIsGet`, `WriteIsPut` and their like map each action to the
step of `FileStore` it implements, or to none.

### Input: InputProofs

For a screen of any size and any reports and scancodes (the module's `ASSUME`):
`TypeCorrect` (`TypeOK`), `PointerWhereReported` (`PointerFollows`), `ClicksArePresses`
(`NoPhantomClick`) and `KeysSafeButForPolling` (`KeyEatenOnlyForPolled`).

`PointerFollows` speaks of moments when nothing is under way. `HandInv` says what holds between
them: the bytes in the packet, the controller and the wire are, in this order, those of a
report, and the hand is where that report will take the pointer; or its last byte waits while
the mouse has begun with the next report. It also counts (`Ahead`): the presses among those
reports and the click that stands are owed, which is `NoPhantomClick` once they have come.
`Decoded` says what the parser gets back from a report: the button always, the deltas if they are
narrow. `IrqInv` says that an interrupt is pending while a byte of the mouse waits, and otherwise
only for a byte that was polled, so that the handler can take a key's byte only on such a one.

### Windows and desktop: DesktopProofs

For any number of windows and titles, any second of the minute and any moment of it: `TypeCorrect` (`TypeOK`),
`MailKept` (`NothingLost`), `MailAddressed` (`Addressed`) and `SleepCorrect` (`SleepMeasures`).

`MailInv` says when the mailbox is empty: where the loop posts, and in a callback that has not
posted yet, unless one was eager or has quit. `AddressInv` relates the mailbox to the slots: unless somebody was careless, the
slot of a pending message holds the window it was posted to. `SleepInv` says that the clock is
`passed` seconds after `start` modulo a minute; that `Elapsed` then is `passed`, as long as less
than a minute has passed, is arithmetic (`ElapsedIsPassed`); and that `Sleep` ends in the first part
of the second in which enough updates have passed, so never late, and early by what had gone of the
second it began in. `MainInv` (the desktop's window is
never destroyed) carries the rest.

### Only model-checked

* All liveness: `NoStarvation` and `LockGranted` (`sched_live`), `CallsReturn` (`heap`),
  `PressBecomesClick` (`input`), `KeyHandled`, `Paints` and `ShutsDown` (`desktop`). They rest on
  fairness and ENABLED, about which TLAPS does not reason.
* What the functions of `Directory`, `Fat12`, `Text` and `Screen` promise (the `ASSUME`s of
  `MCLookup` and `MCText`): nearly all compute by recursion or folds on strings, digits and
  chains, and what they return for every input would need an induction over data. The few that
  do not (rectangles, positions) are in the plan.
* The heap with more than one caller, and the five properties that the code violates.

## Not modelled

* Contents of data frames, stacks and blocks, apart from what a new page table finds.
* Page flags, TLB and control registers; `vmm_map_page` called by anybody but `vmm_alloc_page`
  (nobody does).
* Pages of several tables under exhaustion: a second table built at NULL would share frame 0
  with the first. The only pages the kernel maps are the heap's, and they fill one table.
* `kmalloc` of more than 2^32 - 4 bytes, which rounds to 0: `Rounded` has the wrap, no caller
  comes near.
* Power failing between two sector writes: the device is memory, nothing survives. What a call
  leaves when a sector fails half way is modelled (`Fail`).
* Preemption inside `alloc_cluster` (between finding and marking an entry), between marking a
  cluster and linking it to its chain, inside the writing of one sector, and during `fs_close`: no two threads of the repository use files. Boot sectors
  that make no sense, and files of 2^32 bytes.
* `poll_keyboard` with `key_buffer`, `get_key`, `mouse_poll`, event handlers, right and middle
  button: nobody calls or reads them.
* Which of two places is right for a click when the pointer moves between press and reading.
* Colours, glyphs, pens, brushes, bitmaps, decorations; of drawing in general, only where pixels
  and characters go (`Screen`).
* The RTC while it updates a register; hours that are not BCD.
* The Lua bindings, which return -1 until somebody fills in their table, and the interpreter's
  stack, on which every script leaves its results: that is vendored code.
* Set-up of boot, GDT, IDT, PIC, PIT and PS/2, `power.c`, `multiboot.c`: straight-line port I/O
  whose end states are the modules' `Init`. `stdio.c` consists of stubs.
* Vendored code: FatFs with its tables (18,000 lines), Nestopia and the Lua core make up over
  95% of the lines in the repository; its own code has about 4,700. They have their own
  projects, and a model of them would say nothing of SBoy28; the kernel calls none of FatFs.
  So the share of all lines that the modules here translate stays small.

## Plan

1. *Done:* threads (`Scheduler`, `Sync`, `SchedulerSync`, `SchedulerProofs`), heap (`KHeap`,
   `Allocator`), memory (`Memory`, `MemoryProofs`).
2. *Done:* files (`FileSystem`, `FileStore`, `Directory`, `FileSystemProofs`).
3. *Done:* `Input`.
4. *Done:* `Windows`, `Desktop` with `Sleep`, `DesktopProofs`.
5. *Done:* functions (`Fat12`, `Text`, `Screen`).
6. *Done:* proofs of every safety property and refinement the passing runs check
   (`ThreadProofs`, `KHeapProofs`, `InputProofs`, and the rest of `FileSystemProofs` and
   `MemoryProofs`).
7. Proofs that would say more: `KHeap` with any number of callers under a lock that today's code
   does not have, so that the fix `heap_race` asks for is known to suffice; the functions of
   `Screen` that need no induction (rectangles, places); round trips of `Packed` and `Unpacked`.
