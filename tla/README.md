# A TLA+ verification of the ClaudeOS kernel

ClaudeOS is a small 32-bit x86 kernel (directories `kernel/`, `fs/`, `drivers/`,
`boot/`): one processor, no user mode, no preemption. `kernel_main` initialises
the parts, enables interrupts, and then waits in `hlt`, reads one character at a
time and runs shell commands to their end. The only concurrency is between that
main loop and two interrupt handlers (timer and keyboard); the rest of what makes
the kernel hard are long sequences of legal commands that share tables, queues,
pools and memory.

The modules here are translated from the C code. TLC checks them on small
instances; TLAPS proves the theorems of `MemoryProofs`, `ProcessProofs`, `IpcProofs`,
`KeyboardProofs`, `ShellProofs`, `MemFsProofs`, `HeapProofs` and `SimpleFsProofs` for every
value of the constants. `PROJECT.json` maps each definition to its lines.

## 1. Inventory

Only what the Makefile links counts as the system; what is not linked is listed at
the end.

| Component | State | Operations | Interacts with | What makes it correct |
|---|---|---|---|---|
| Physical memory, `pmm.c` | bitmap, counter of free pages, search hint | `pmm_init`, `pmm_alloc_page`, `pmm_free_page` | called by vmm and heap | a page has one owner; counter and hint agree with the bitmap; refusal only when full |
| Virtual memory, `vmm.c`, `paging.asm` | current directory, page tables, the paging of the CPU | `vmm_init`, enable, map, translate | takes pages from pmm; heap maps through it | what was mapped is found; a table page is nobody else's memory; nothing in use goes out of reach |
| Heap, `heap.c` | block headers, free list, `heap_end` | `heap_init`, `kmalloc`, `kfree`, `krealloc`, expand, split, coalesce | pages from pmm, mapping from vmm; shell commands are the clients | blocks tile the heap; the free list is sound; no block has two holders; free memory can be used again |
| Processes, `process.c`, `context_switch.asm` | table of 8, ready queue, current process, next pid | init, create, create2, run, execute, runall, kill, cleanup, yield, exit | entry points run on the kernel's stack and may call yield, exit and all of ipc | pids are unique; the queue is a FIFO list; the shell always runs as the kernel process |
| Semaphores, `ipc.c` | pool of 8, a waiting queue in each | init, create, wait, signal, destroy, list | waiting queues use the field `next` of the ready queue | no permit is lost; queues stay apart; a blocked process can be woken |
| Messages, `ipc.c` | pool of 16 | init, send, receive | receivers are looked up in the process table | kept until received once, by the addressee; refused only when the pool is full; in order while no slot is freed |
| Keyboard, `keyboard.c`, and the main loop | modifier flags, ring of 256 characters | interrupt handler, `keyboard_get_char`, `hlt` | IRQ1 runs between any two steps of the main loop | the ring is a FIFO under interrupts; every key is read |
| Shell input, `kernel.c` | line buffer, history ring of 10, browsing position, aliases | edit, history, completion, split into arguments | reads the keyboard, calls everything | the history shows the last ten commands in order; no word of a line is lost |
| Memory file system, `fs/memfs_simple.c` | table of 32 files and directories, current directory | create, delete, write, touch, mkdir, rmdir, chdir, copy, move, chmod... | shell commands | every entry has an existing parent; names are unique in a directory; a command that fails touches nothing that is there |
| Timer, `timer.c`; interrupt dispatch, `isr.c`, `idt.c`, `pic.c` | tick counter, vector table | tick, wait, uptime | wakes the main loop | waits end; uptime is right across wrap-around |
| Network, `network.c` | interfaces, packet counters | send, ping | shell commands | counters agree with what was sent |
| System calls, terminal, serial, port I/O, gdt, boot, strings | counters, screen | output and set-up | | nothing to check |

Not linked, but kept and documented: `fs/simplefs.c` (and its twin
`kernel/simplefs.c`) with `drivers/ata.c`, a FAT file system in memory with a copy on a
drive. State: superblock, FAT, directory, data blocks, descriptors; the same blocks on
the drive. Operations: create, mkdir, open, read, write, close; save, load at boot. It is
correct if files hold what was written, no block is lost or shared, and chains of blocks
on the drive and in memory never meet, in whichever sector a save or a load stopped.

Not linked and superseded: `memfs.c`, `shell.c`, `syscall.c`, `kernel_simple.c`,
`kernel_demo.c`, and the copies under `backup/`.

Hard behaviours:

* interrupts between the steps of `keyboard_get_char`, and an interrupt that comes
  between "the buffer is empty" and `hlt`;
* the field `next` of a process, shared by the ready queue and all waiting queues,
  while nothing suspends a process that waits;
* slots of tables that are reused while queues, messages and links still name them;
* entry points called directly on the kernel's stack, which exit, yield and wait in
  the middle of a command, nested in `runall`;
* a context switch to contexts that were never saved;
* allocation structures (bitmap, counter, hint; headers, links, `heap_end`) that
  must agree after any sequence of calls, and limits tested before rounding;
* physical pages of the heap's address range that nothing reserves, page tables
  written through the mapping they define, and directories made anew while the CPU and
  the heap use the old one;
* a ring of old commands whose positions count all commands ever;
* numbers of directories that outlive the slots of the table they were given in;
* a save to the drive that stops in any sector, and a load that stops in any sector;
* a FAT of 1024 entries in a block for 512: the other entries are the bytes of the directory;
* a page of the heap that is mapped again while the processor has the old translation.

There is no persistence in the linked kernel; only SimpleFS meets a crash. There are no
messages between machines, so no loss or duplication.

## 2. Modules

| Module | Models | Lines up with the code as follows |
|---|---|---|
| `PageAllocator` | abstract | grant a free page, take one back, refuse only when none is left |
| `Pmm` | `pmm.c` | `memory_bitmap` is the set of set bits; `FindFreePage` is the two loops of `find_free_page`; `Alloc`, `AllocFails`, `Free`, `FreeIgnored` are the functions with their early returns; `held` and `result` are ghosts for what clients hold and what was returned last |
| `Heap` | `heap.c` | `heap` is a record with `free_list_head`, `heap_end` and the headers at concrete addresses; one operator per static function, on heaps; `Kmalloc`, `Kfree`, `Krealloc`, `HeapInit` compose them; `live` is a ghost: the blocks clients hold with the size they asked for |
| `HeapProofs` | proofs | section 5 |
| `Vmm` | `vmm.c`, `paging.asm`, `vmm` commands, `heap_init` and `heap_expand` | EXTENDS `Pmm` (`VirtInit`, `VirtNext`, `VirtSpec`); addresses are page numbers; a page of `memory` is a table of entries or `Data`; `Reach` is the translation of the CPU, from its cache (`tlb`, which keeps entries that `vmm_map_page` replaces, until `Evict` or a new cr3) or by a walk of the tables, and `TableOf`, `PhysicalAddress` are the walk of the code; `Write` is an access of the kernel, which may miss (`Lost`); the loops that map pages are a `job` that does one page per step |
| `MemoryProofs` | proofs of `Pmm` and `Vmm` | section 5; EXTENDS `Vmm` |
| `DirectoryTree` | abstract | a tree of directories whose numbers are never given twice |
| `MemFs` | `memfs_simple.c`, its commands | the file system is a record `fs`; each function maps it to the next one and a code; one action per command |
| `MemFsProofs` | proofs | section 5 |
| `FileStore` | abstract | files by name, descriptors with positions |
| `SimpleFs` | `fs/simplefs.c` in memory | the blocks are a record `mem`; chains as the FAT has them; one action per call; `DataBlock` are the blocks 3 to `FatEntries - 1` (511), whose entries lie in the FAT's own block; names may be cut (`LongName`) or empty (`Nameless`) |
| `SimpleFsDisk` | its drive and the boot | EXTENDS `SimpleFs`: `Save(stop)` and `Boot(stop)` stop at a place of `Stops`: before a block, or in it, between two entries of the FAT, two entries of the directory, the name of an entry and the rest of it, two bytes of data |
| `SimpleFsProofs` | proofs of `SimpleFs` and `SimpleFsDisk` | section 5 |
| `CommandHistory` | abstract | the list of the last commands and a distance from its end |
| `Shell`, `MCShell` | the line editor in `kernel.c` | one action per key; positions count all commands and are taken modulo the size of the ring, as in the code |
| `ShellProofs` | proofs | section 5 |
| `Process` | `process.c`, `context_switch.asm`, `proc` commands | the fields of the table are functions on slots; a command is one action, except that commands that call an entry point have an action for the call (`Create`, `Run`, `Execute`, `RunAllNext`) and one for the return (`EntryReturns`), with what the entry point does in between |
| `ProcessProofs` | proofs | section 5 |
| `Semaphore` | semaphores of `ipc.c` | EXTENDS `Process`: waiting queues link through the same `next`; every step of `Process` is a step here (`ProcessStep`) |
| `Mailboxes` | abstract | accept, take once, refuse only when full, reset |
| `Messages` | messages of `ipc.c` | EXTENDS `Process`: receivers are looked up with `Found` (`process_find`), and slots of processes are reused meanwhile |
| `IpcProofs` | proofs of `Semaphore` and `Messages` | section 5; EXTENDS both and `ProcessProofs` |
| `BoundedFifo` | abstract | a queue that refuses only when full |
| `Keyboard` | `keyboard.c`, main loop of `kernel.c` | the handler is one step (interrupts are off in it); the reader is one step per access to the shared variables (`GetCheck`, `GetRead`, `GetAdvance`); `pc` is the place in the main loop |
| `KeyboardProofs` | proofs | section 5 |

`Semaphore` and `Messages` compose with `Process` by extension, because they write
its variables; `Vmm` composes with `Pmm` in the same way: its steps take pages with
`Alloc` and `AllocFails`, as the code calls `pmm_alloc_page`. Names are those of the code where TLA+ allows it. Definitions whose
name continues with an underscore and a word (`TailWith_OnlyFirst`) are plausible
bugs: put in place of the definition they follow, they make a property fail, and
no specification uses them.

### What is abstracted

* Process names, times, memory statistics, printing and the contents of blocks and
  messages; a message is a number, different for each.
* A character is a key with the way it was typed (plain, shifted, with Ctrl).
* Sizes and addresses of the heap count 8-byte units, the rounding of `kmalloc`. For sizes
  within 7 of 2^32 that rounding wraps to 0; no caller passes one, and none is modelled.
* The pages behind the heap: a request that runs out of pages is a call that
  changes nothing in `Heap`, and may happen at any time. `proc init` calls
  `vmm_init` and `heap_init` if nobody has; `Process` does not see memory, because
  no process has a stack of its own (`process.c:340`).
* Mode `lost` of `Process`: `switch_context` loads the stack pointer of the process
  it switches to. `process_create` sets it to 0 and nothing else ever does, except a
  switch away from the process. After a switch to such a process the next `push`
  writes below address 0 and `ret` loads its target from there; nothing is known
  of the machine, so nothing more happens in the model. A process that switches to
  itself (it is current and at the head of the queue) continues: all the registers
  that `switch_context` loads were saved a moment before.

### Entry points

`proc create`, `run`, `create2` offer two entry points, `test_process_1` and
`test_process_2`, which only print and return. Those of `test_processes.c` call
`process_yield`, `process_exit`, `ipc_send_message`, `ipc_receive_message`,
`ipc_semaphore_wait` and so on; they are linked, but no command offers them.
The constant `EntryCalls` says what entry points may call: `{}` is the kernel as it
is commanded today, the other values the kernel with the entry points it has.
The runs take what concerns them.

### Ghost variables

`held`, `result` (Pmm), `live` (Heap), `lost`, `out` (Keyboard), `sent`, `freed`, `received`,
`refused` (Messages), `permits` (Semaphore) record what happened. A page may be given back by whoever
holds it, and again while nobody does (`Returnable`); a page given back by its old holder after
somebody else got it is taken from the new one, and this the bitmap cannot see and `Pmm` leaves out.
`dangling` (a queued process was cleaned up) and `disturbed` (a process was linked
while it was linked, was cleaned up while it waited, or its queue was reset) mark
the moment after which the code itself has broken the queues (create, cleanup, create
links a slot behind itself; so does waiting twice); the queue properties are stated up
to that moment, and the runs show that nothing else breaks them.

`tidy` (MemFs): no command has left the tree. Three do: one that makes an entry under a
path with a slash or a name that is cut, because the entry is then not found under
that path; `mv` of an absolute source outside the root, because the target is looked
for elsewhere; removal of a directory that has children or is the current one. The
refinement of `DirectoryTree` holds until then (`Collapse`); `AncestorsAreOlder`, `FailuresTouchNothing` and
half of `CopyAndMoveFaithful` do not depend on it.

`exact` (SimpleFs): no file was open twice while it was changed, no name was cut to 55
characters (the file is then not found under its name), no block from `FatEntries` on was handed
out, and no transfer went on after one that ended exactly at the end of a block: `fs_write` then stays on that
block and overwrites it from its start. `overrun`: a block from `FatEntries` on was handed
out. Its entry in the FAT is in the directory, so that directory and FAT write over one
another; the properties are stated up to there and only a boot goes on. `unnamed`: the blocks
that `fs_create("/")` and `fs_open("/", O_CREATE)` give to an entry with an empty name, which is an unused slot:
they are lost. `torn` (SimpleFsDisk): a transfer stopped between two entries of the FAT, one of
them new and one old, or in an entry of the directory, on the drive or in memory. `history` and
`saved`: which file system the drive has, and what the last complete save wrote. A save that
replaces another file system and stops leaves a mixture, where the model stops.

`tlb` (Vmm) holds only translations that differ from the tables or may come to: those of
pages that were mapped again. That the CPU had cached one is the worse case, and `Evict`, at any time, the
other. `heap_directory` (Vmm): the page directory the heap was mapped in. `Orderly` says that the
CPU, the manager and the heap use the same directory and that all pages handed out
lie below 4MB; `HeapReachable` and `WalksAgree` hold under it, and `PagesApart` needs only
that the heap was mapped in the current directory. What lies beyond is the finding `vmm_heap_grows`.

## 3. Runs

Deadlock is checked in `pmm`, `heap` and `keyboard`. In `process`, `semaphore` and
`messages` the processor can be lost and the machine really may stop; the others stop at
a bound of the model or where `memory` is `Lost`.

| Run | Bounds | Shows |
|---|---|---|
| `pmm` | 8 pages, 2 of the kernel | counter, hint and bitmap agree with each other and with the holders after every order of allocations, frees, double frees and out-of-range frees (`FreeCountExact`, `HintIsLowerBound`, `BitmapAccountsForHolders`); first fit, refusal only when full (`AllocIsFirstFit`); refines `PageAllocator` (`ImplementsPageAllocator`). Six pages make holes on both sides of the hint, a full memory, and a hint at the end of memory. |
| `vmm` | 18 pages, tables of 9, kernel of 2, heap of 2 to 10 pages | `vmm init`, `vmm enable`, `heap init` and the growth of the heap in every order and repeated: no table is mapped as heap and no page twice (`PagesApart`), no access goes astray (`HeapReachable`), the translation of the CPU is the one that `vmm_get_physical_address` finds, but for pages of the heap that `heap init` mapped again while the CPU had the old translation, which then leads to a page that the heap has nowhere else (`WalksAgree`). Memory runs out in the middle of each loop; the heap crosses into a second table; nine pages lie below the heap and nine at its addresses. |
| `heap` | pages of 8 units, 2 to 5 pages and one beyond, sizes 1, 4, 6, 8 | blocks tile the heap (`BlocksTileHeap`), the free list is a list of free blocks nobody holds (`FreeListSound`), held blocks are the used ones and large enough (`HeldBlocksAreUsed`), others' blocks are left alone (`OthersUndisturbed`). The sizes are chosen so that each kind of request happens: one that is split, one that fills a page exactly, one not worth splitting, one that needs two pages and, asked for when the heap has four, takes it one page beyond its limit; merging needs neighbours freed in descending order, which five pages allow. |
| `process` | 4 slots, pids to 5 | pids unique across reuse (`UniquePids`), the shell always the kernel process (`KernelAtPrompt`), head and tail of the ready queue agree (`QueueEndsAgree`), its links are intact until a cleanup frees a queued slot (`QueueIntactUnlessDangling`), it serves in order of arrival (`ReadyQueueIsFifo`). Pids 4 and 5 are not below the size of the table, so `process_find` refuses them. |
| `semaphore` | 3 slots, 2 semaphores, values to 1 | permits conserved, and none unused while somebody waits (`PermitsConserved`), queues apart (`QueuesApart`), blocked processes are in a queue (`BlockedAreWaiting`) |
| `messages` | 3 slots, 3 pids, 2 messages in the pool, 3 ever | messages from one process to another are received in the order they were sent unless a slot was freed after the older one was sent (`ReceivedInOrder`): a later message may then be in a lower slot, and is received first; refines `Mailboxes` (`ImplementsMailboxes`). Two slots and three messages are the smallest numbers with which that happens. |
| `keyboard` | ring of 3, 3 keys | the interrupt leaves the reader undisturbed (`ReaderUndisturbed`), refines `BoundedFifo` (`ImplementsFifo`), every key read (`EveryKeyIsRead`). A ring of 3 wraps, fills and runs empty. |
| `shell` | ring of 3, lines of 3, 5 commands ever, 2 arguments of 2 characters | browsing shows what is in the ring (`BrowsedIsOnTheLine`), lines split into their words (`ArgumentsAreWords`), refines `CommandHistory` (`ImplementsCommandHistory`). Five commands wrap the ring; the alias stands for a line with too many words, the first of them too long. |
| `memfs` | 3 entries, 2 names and a long one, paths with 0 or 1 slash, 4 entries ever | numbers and ancestry (`AncestorsAreOlder`), a command that fails changes nothing, except that `write` and `cp` under a path with a slash or a name that is cut may leave one empty file more (`FailuresTouchNothing`), cp and mv (`CopyAndMoveFaithful`), refines `DirectoryTree` (`ImplementsDirectoryTree`). Three entries fill the table and make a directory inside a directory inside the root; two that are made besides the two that are there at the start use a slot again, twice if they are removed in between, after a directory with entries was removed from it too; names collide, also after the long one is cut. |
| `simplefs` | a FAT of 7 entries in a block for 6 (3 data blocks of 2 bytes), 2 directory entries, 2 names, one of them of 55 characters, a longer one and the empty one, 2 descriptors, 2 saves or boots | descriptors on their own chain (`DescriptorsInTheirFile`), no block lost but to files without a name (`NoBlockLost`), chains in memory apart in whichever sector a load stopped, and ended unless it stopped in an entry or found a torn FAT (`MemorySound`), chains on the drive apart in whichever sector a save stopped, and ended unless it stopped between two entries of the FAT or in an entry of the directory (`DriveSound`), a boot brings back the last complete save (`LoadBringsBackTheSave`), refines `FileStore` (`ImplementsFileStore`). Blocks and entries run out, the last block is handed out beyond the FAT's block, chains interleave. Without a drive there are two descriptors at a time; with one, one open file is enough, because saves do not look at descriptors. After the last block of the model was handed out nothing but a boot would follow, and a boot depends on the drive alone: with a drive that state is therefore left out. |

The type invariant of a module is part of one of its safety properties
(`ReaderUndisturbed`, `PermitsConserved`, `BlocksTileHeap`, `AncestorsAreOlder`,
`MemorySound`, `BrowsedIsOnTheLine`, `PagesApart`); all of them
are also proved, with those of `Pmm`, `Process` and `Messages`.

Runs that TLC must find violated, each a disagreement between the code and what it,
its comments or its documentation say:

| Run | Property | What happens |
|---|---|---|
| `heap_free_list` | `FreeBlocksAreListed` | what a split cuts off is never on the free list: the first `kmalloc` loses the rest of the megabyte |
| `vmm_heap_grows` | `HeapGrowsSoundly` | the heap that grows beyond its first page table gets a table whose physical address is in the heap; clearing it clears blocks |

Bounds of the models: `PidBound`, `SemIdBound`, `ValueBound`, `DataBound`, `Sizes`, `Requests`,
`IdBound`, `Slashes`, `MaxSize`, `MaxSaves`, `MaxUnnamed`, `Positions`, `DrivePositions`, `MaxCommands`; the
other constants are sizes of tables in the code, made small. `ValueBound` stops
signals at the largest value, `DataBound` stops sends; neither removes an
interleaving below the bound.

## 4. Fairness

Only `Keyboard` has a liveness property. The CPU executes the main loop as long as it
is not in `hlt`, hence `WF(MainLoop)`; the timer interrupts 100 times a second,
hence `WF(TimerIrq)`. Nothing is assumed of the keyboard. The second assumption is
needed: a key that arrives after `keyboard_get_char` answered 0 and before `hlt`
does not end that `hlt`. The rest of the kernel promises nothing about the
future: commands are typed or not, and a process that waits is not suspended.

## 5. Proofs

`MemoryProofs`, its first part, for any `TotalPages` and any `KernelEndPage` between 1 and it. The
inductive invariant `IInv` is the conjunction of the type invariant and the three
state properties (`FreeCountCorrect`, `HintCorrect`, `BitmapCorrect`), which need each other: the counter stays exact only because a
page that is allocated was free and one that is freed was not, and that follows
from the bitmap accounting for its holders; that the scan from the hint misses
nothing is `HintIsLowerBound`. `FirstFit` (an action property) and
`PmmImplementsPageAllocator` follow from `IInv` and two lemmas: the page found is
the lowest free one, and a zero counter means that every page is taken
(cardinalities of finite sets).

`ProcessProofs`, for any `MaxProcesses` of at least 2, any `PidBound` and any set of
`EntryCalls`: types (`TypesCorrect`), unique pids (`PidsAreUnique`), head and tail of the
ready queue (`QueueEndsCorrect`), and the kernel at the prompt (`PromptIsKernels`). The inductive invariant adds to the
properties what holds inside commands: which process is current in an entry
point called by `execute` or `runall` and which will be restored (`frame.old`), that a
frame names a used slot, that commands that need the table find it initialised,
and that RUNNING belongs to one process. Pids are unique because every pid in
use is below `next_pid`.

`KeyboardProofs`, for any `BufferSize` of at least 2 and any keys. `ReaderUndisturbed` with
the types is inductive: the handler writes at `buffer_end`, which is never the slot that
the reader is at, because the handler gives up when its next slot would be
`buffer_start` (`ReaderIsUndisturbed`). `BufferIsFifo` maps the ring to a sequence: one
lemma says that an accepted character is appended, one that the reader's advance
removes the head, and both rest on arithmetic modulo the size of the ring.

`IpcProofs`, its part on messages, for any `MaxMessages`. It adds to the `IInv` of `ProcessProofs`
that a running process is in the table, that two used slots never hold the same message
(contents are numbered by the ghost `sent`), and that the messages sent since a slot was last freed
are in the pool in the order of its slots, each above all the slots used before: a slot that
becomes free is below nothing until something is freed. `InOrderUntilFreed` follows, because
receive takes the lowest slot. That contents are apart is what makes
`PoolImplementsMailboxes` true: clearing one slot takes out exactly one message. A refusal
means a full pool by the cardinality of the used slots.

`ShellProofs`, for any `HistorySize`, `MaxLine` and list of commands. `BrowsedIsOnTheLine` is
inductive because every key that changes the line or the ring also resets the position
(`BrowsedStaysOnTheLine`); the work is in showing that the edits keep the line within its
length, and that both directions of browsing stay between the oldest and the newest
command. `RingImplementsHistory` rests on `SlotsApart` (positions less than a turn apart are in
different slots) and on `AddIsAppend`: storing a command at `history_count % HistorySize` appends
it to the list, and drops the oldest one exactly when the ring is full.
`LinesAreSplit` says that every line, of any length and with any number of words, is split into its words. They are defined by
the places where words start: the n-th word starts where n starts lie at or before that place.
`Understood` is the invariant of the loop of `parse_command_line`, a recursive function: after i characters the arguments are
the first words, and what is being read is the beginning of the next one. One lemma for the first
character (`UnderstoodFirst`) and one for each further one (`UnderstoodNext`) make it hold
at the end, where arguments cut to `MAX_ARG_LEN` and the limit `MAX_ARGS` are the same on both
sides (`AllWordsRead`).

The ready queue (in `ProcessProofs`). `ListFrom` follows the field `next` with a recursive
function that stops after as many steps as there are slots, so that it ends even
where links go round in a circle. Linked lists are therefore proved to be sequences: `Linked(q, l)` says that the
links `l` lead through the sequence `q` without repetition and end at NULL, and
`WalkSeesList` that the recursive function then returns exactly `q`. Its
proof is an induction over the distance from the end, made from the least
counterexample of a set of numbers (`LeastNumber`), because the induction
theorems of the library take an operator as parameter. `ListAppend`, `ListPop` and `ListFrame`
are the three things the code does to a list. With them, `QueueIntact` and `QueueIsFifo` follow from
one lemma per step: every step keeps the sequence, appends the new process, or takes
its head (`QueueStep`). `dangling` is what the proof needs and no more: once a queued slot was
cleaned up, the links do describe something else.

`IpcProofs`, its part on semaphores, for any `MaxSemaphores` and any `MaxProcesses`. It adds to the invariant of the
processes one sequence for each semaphore (`Waits`): the waiting queue describes it, its
members are BLOCKED or TERMINATED used slots that are in no other queue, the value is the
permits that are left, or minus the length of the sequence. Then `QueuesStayApart`, `NoPermitLost` and `BlockedCanBeWoken` are
consequences. Every operation changes one queue (`OneQueueChanges`); that the rest is
undisturbed is `ListFrame`, because the sequences have no slot in common. Planning the
proof showed that `BlockedAreWaiting` also needs `dangling` to be false: after the cleanup of a
queued process, `ready_queue_tail` can come to name a process that waits, `proc create` links behind it, and the
processes that waited behind it are cut off.

`MemFsProofs`, for any `MaxFiles` and any names. Two invariants. `Aged` needs no condition: the
numbers of directories grow, and every entry is younger than the directory it is in,
so no directory is its own ancestor (`DirectoriesHaveAnOrder`). `TreeLike` holds while `tidy`:
every parent is a directory in the table and names are unique in it. Each command is composed of five elementary changes of one
slot (`Grown`, `Filled`, `Renamed`, `Removed`, `Entered`), each with a lemma that says it keeps both
invariants and what it does to the abstract tree; `TableIsATree` then maps
slots to the nodes of `DirectoryTree` by their numbers. `FailedCommandsTouchNothing` and
`CopiesAndMovesAreFound` are statements about the functions in any state with the
invariant. The proof needed one assumption that TLC could not miss because its constants satisfy it: the two names that `memfs_init` creates
are different (`Bin # HelloTxt`, lines 103 and 108).

`HeapProofs`, for any page size larger than a header, any initial and maximal size of the heap
that are whole pages, and any set of requests. `Sound(h)` is what every heap is after every function: its
blocks tile it (`Tiled`), it ends at a page, at most one beyond the limit (`Sized`), and its free list
is a `Chain`: a set of free blocks, linked both ways, with a rank that decreases along `next`. A
rank takes the place of a sequence because blocks are taken out of the middle of the list and
merged there, and a rank that decreases still decreases when a block is left out. `IInv` adds that the
used blocks are the held ones and large enough. The proof has three layers: what each static
function writes, header by header (`AddToFreeListEffect`, `SplitBlockEffect`, ...); what that makes of
the chain and of the tiles (`ChainShrinks`, `ChainMerges`, `SplitTiles`, ...); and what remains of each
call: `TakeSound`, `ReleaseSound`, `ExpandSound`. Two loops are recursive functions: the walk
along the list, which ends because no block comes twice and there are no more steps than
blocks (`WalkEnds`), and the coalescing loop, each of whose turns stays in a set of
states that are sound (`TurnStays`). From `IInv` follow `HeapIsTiled`, `FreeListIsSound`, `UsedBlocksAreHeld` and the
action property `NobodyElseIsDisturbed`. The proof found three things that the run had not shown: on a page no larger than a header an
expansion could make a block of size 0 (`HeapAssumption` now excludes it; a page
has 512 units); sizes are bounded by the limit plus one page, not by the limit; and with the requests
used until then the heap never passed its limit, so the run now has one that does.
That every free block is on the list is false (`FreeBlocksAreListed`), and `Sound` does not say it.

`MemoryProofs`, its second part, for tables, memories and heaps of any size with `VmmAssumption`.
The inductive invariant `VInv` gives every page that was handed out a role (`Roles`): page
directory (D), table of the first addresses (F), other table (T) or page of the heap (H).
`Apart` says that directories refer to tables only and tables to pages of the heap only, and
that nothing is referred to twice (`Once`). Roles alone are not inductive once paging is on: the
kernel writes to tables at their physical addresses, and beyond the first table those are addresses of
the heap, so that the contents of a table may land in a page of a heap. The function `of` therefore says whose contents a page has, and `Alias`
that such contents are reached at one address only. `Stale` says the same of the TLB: what the CPU still
holds are translations of addresses of the heap to pages of the heap that no table leads to from another address. `Contiguous` (pages are handed
out in order, because the manager gives none back) says which pages are in use, `JobOK` where the loops are, and
`Sound`, which is needed for the heap to be in reach, holds while all pages in use lie in the first table: every
table is one, every directory maps the first addresses to themselves, and the heap is mapped as far as it goes.
The proof has three layers: what one write does to the roles (`UseKeeps`, `ClearKeeps`, `StoreKeeps`);
what an access of the kernel does, which goes through the mapping it may be changing (`ClearApart`,
`StoreApart`, `ClearNear`, ...); and `MapApart` and `MapNear` for `vmm_map_page`, with one lemma for each action.
From `VInv` follow `PagesStayApart`, `HeapInReach` and `LookupIsWalk`. Before the proof, TLC checked `VInv` with the roles as
ghost variables. The proof showed what the code relies on and does not say: the memory has room for
two tables (`2 * TableSize <= TotalPages`; otherwise an address of the heap is no physical page while paging
is off), and a directory covers the memory and the heap. The kernel has 8192 pages of memory,
1024 entries in a table and at most 2048 pages of heap.

`SimpleFsProofs`, for any number of blocks, entries, descriptors and names and any size of a
block, with `SimpleFsAssumption`, which the kernel's 512 entries in the FAT's block and 1024 blocks satisfy. A chain of blocks is a way: the sequence of blocks that the FAT
leads through from the first block of an entry. `Sound(m)` says that the ways of all entries end, that no block comes twice, on one way
or on two, and that names are unique unless they were cut; `Extends(m, n)` says that entries stay and ways only grow, `Older` the same of the FAT alone; `Counted(m, u)`
that every block that is not free is on a way, or in `u`, the blocks of files without a name, and the counter is right. `Grows` and `Keeps` join them and are what
every function does to the blocks, one lemma for each (`AllocEffect`, `NewFileKeeps`, `PutKeeps`, `NextBlockKeeps`). `Room` bounds a
way by the number of blocks, because it names each of them once; the loops of `fs_write` and
`fs_read` are recursive functions, and their invariants (`WriteKeeps`, `ReadKeeps`) are proved
like those of the ready queue, from the least step at which they would fail.

The inductive invariant `IInv` has four parts. `Memory`: the blocks are `Sound`, and every descriptor is at a block of
its file (`InMemory`), or a load has stopped in an entry or found a torn FAT: then no two ways meet and nothing is open
(`HalfInMemory`). `OnDrive`: on the drive no two ways meet either, unless a save that stopped
has mixed two file systems, and all of them end unless it is `torn`; its directory is an older one of the directory in memory, with
entries that may lack their first block (`Within`), and its FAT is `Older`; after a complete save
its files are those saved. `Flags`: types. `Counted` holds before the first save or boot, since what a save that stops leaves may
have blocks that no entry reaches (`BlocksAreNotLost`). From these follow `DescriptorsStayInTheirFile`, `MemoryStaysSound`, `DriveStaysSound` and `LoadsWhatWasSaved`.

A save that stops leaves a mixture, sector by sector, of an older state and today's. That no two chains of the mixture meet is `OlderApart`:
an entry of the FAT is either today's, or that of a block that was free or the last one of its chain, so that a way along the
mixture is a part of the way of today (`OlderWay`), and those do not meet. That they end takes a whole FAT
(`OlderDirectory`), and this is where the order of the save matters: the FAT goes before the
directory. With the directory first, an entry could name blocks that the
FAT of the drive has as free. `CopyFacts` and `DirectoryParts` say what is copied up to each stop, and `PieceApart` that half an
entry disturbs no chain, because its first block is 0.

`FilesAreWhatWasWritten` is the refinement of `FileStore`. A file of the abstract store is the sequence of bytes
along the way of its entry, as many as the descriptor that writes the file says, or else the entry; a descriptor is a name, a position and a mode. The proof needs
`Exactly`, which holds as long as `exact` does: names are unique, a descriptor that writes is the only one of its file,
the others have the size that the entry has, and every byte below a size has its block on the way. There
is one lemma for each call (`CreateIsCreate`, `OpenCallIsOpen`, `WriteIsWrite`, `ReadIsRead`,
`CloseIsClose`). Each says which step of the store the call is; a file without a name, which nothing can find, is none (`NamelessSeen`).
Where `exact` is given up, so is the view on the store (`GiveUp`): also when a write needs a block and all of the model's are taken. The proof asked for two assumptions on the constants that the code
makes true: modes are combinations of reading and writing, and an unused descriptor is none of the used ones.

Only model-checked: liveness under fairness (`EveryKeyIsRead`), which is beyond the prover. Every other
property of a passing run is a theorem.

## 6. Plan and what is not modelled

Left to do, in order of importance: the contents of blocks in `Vmm`, so that `vmm enable` after
`heap init` can be seen to move the heap away from its data; what `SimpleFs` does once it has handed out a
block from 512 on, whose entry in the FAT is a piece of the directory (`overrun`).

Not modelled, and why:

* Timer: a tick counter that only `uptime` prints. `timer_wait`, the one function that
  waits for it, has no caller. That the interrupt ends a `hlt` is part of `Keyboard`.
* Interrupt dispatch: the two handlers are actions of `Keyboard`; vector table, masks and
  end-of-interrupt are set up once before interrupts are enabled.
* Network: no packet is ever received, and nothing reads what is sent. The commands
  print constants and add to counters.
* System calls: functions that count and print, called directly; nothing traps.
* Terminal, serial port, port I/O, gdt, boot: output and set-up of the processor.
* Strings: pure functions on C strings; characters are abstracted everywhere.
* Older kernels, shells and file systems, and the backups: not linked, and superseded by
  what is modelled.
* In `memfs_simple.c`: `chmod`, `chown`, times and owners, which only `stat` reads.
* In `vmm.c`: `vmm_create_page_directory` and `vmm_unmap_page`, which nobody calls, and the
  flags of entries: all are present and writable.
* In `simplefs.c`: what happens after a block from 512 on was handed out, except for a boot: the model and its properties
  say that it happens (`overrun`) and end there. That the counter of free blocks and a save take the bytes of the directory for
  entries of the FAT is modelled as far as it shows (`NoBlockLost`, `Copied`). The driver is an environment that may fail
  in any sector. What is done to a file system in memory of which the last entry is half loaded, or the
  FAT torn, is not modelled either, except for a boot.

## 7. Running

    tlc -config Pmm.cfg Pmm.tla            and so on, one configuration per run
    tlapm MemoryProofs.tla                 and so on for each `*Proofs.tla`
