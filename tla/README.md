# A verification project for PeachOS (extended)

PeachOS is a small 32-bit kernel for the PC: a heap and paging, tasks that a timer
switches, processes loaded from a FAT16 disk, several shells that share one screen and
one keyboard, and system calls through interrupt 0x80. This directory holds TLA+ models
of its core, the TLC configurations that check them, and TLAPS proofs about the heap, the
memory of processes, paging and the loader, tasks and processes, the keyboard, the
terminal and the file table.
Paths such as `task/task.c` below are relative to `src/src/`.

Run a model with `tlc -config MCTaskList.cfg TaskList`, the proofs with
`tlapm HeapProofs.tla` and so on for every `...Proofs` module and `Foundations`.
`PROJECT.json` lists the runs, and maps every definition to the
lines it models.

## 1. The system

### What is concurrent

There is one processor. Every gate of the interrupt table is an interrupt gate (type
0xEE, `idt/idt.c`), so the clock, the keyboard, exceptions and system calls run with
interrupts off from entry to return. What interleaves is *whole handlers*: between any
two instructions of a user program the clock may run another task, the keyboard may push
a character or switch shells. That is why one handler, with everything it calls, is one
action in all modules. State that is shared between handlers is global (the list of
tasks, the process table, the cursor, the heap, the file table); what is hard here is not
a race inside a handler but the sequences of handlers, of several programs and the user,
that leave this state in a condition the next handler does not expect.

### Components

| component | state | operations | interacts with |
|---|---|---|---|
| heap (`memory/heap`) | a byte of flags per block | kmalloc, kzalloc, kfree | everybody |
| paging (`memory/paging`) | directory and tables of each task | new, map, map range, map to, set, get | processes, tasks |
| tasks (`task/task.c`, `.asm`) | doubly linked list, current task, saved registers | new, free, next, switch, save, return | clock, system calls, processes |
| interrupts (`idt`) | tick counter, handler tables | clock, exceptions, dispatch | tasks, processes |
| processes (`task/process.c`) | process table, foreground process, allocations, image, stack | load, switch, malloc, free, terminate | heap, paging, tasks, files |
| shells (`task/shell.c`) | array of shells, current shell | new, switch, next | processes, video, keyboard |
| system commands (`isr80h`) | none of their own | print, getkey, putchar, malloc, free, load, system, arguments, exit | all of the above |
| keyboard (`keyboard`) | a ring of characters per process, caps lock | push, pop, interrupt | foreground process, shells |
| video (`video`) | global cursor and backspace flag, buffer and cursor per shell, the screen | putchar, writechar, backspace, init, save | shells |
| files (`fs/file.c`) | table of descriptors, the file system of the disk | resolve, fopen, fclose, fread, fseek, fstat | path parser, FAT16, heap |
| FAT16 (`fs/fat/fat16.c`) | root directory, descriptors of the driver | resolve, open, read, seek, stat, close | disk streams, heap |
| disk (`disk`) | position of a stream | seek, read | FAT16 |
| path parser (`fs/pparser.c`), strings | none | parse a path into drive and parts, compare | files |
| ELF loader (`loader/formats`) | bounds and memory of one file | load, check, walk the program headers | files, heap, processes |
| user library and shell (`programs/stdlib`, `programs/shell`) | the line, the position of strtok | readline, parse a command, run it | keyboard, system commands |
| GDT/TSS, clock chip, port I/O, boot sector | (see section 7) | | |

### What makes each part correct

* heap: allocations do not overlap; `kfree`, which is told an address and no size,
  releases exactly the run; an address that is not 0 means there was enough memory.
* paging: a mapping changes the pages it is about and no others, wherever it begins and
  ends; a borrowed page is given back.
* tasks: the list has every task once and nothing that was freed; each task resumes with
  its own registers and directory; every task gets its turn.
* processes: table and tasks agree; a process writes only memory it holds; whatever it
  held is returned when it ends; the keyboard goes to a process that exists.
* shells and video: the screen shows the current shell; shells do not disturb each
  other's cursor; output stays in the buffer.
* keyboard: keys arrive once, in order, and a waiting program gets them.
* shell program: the line is what the user typed, as corrected; its words become the
  arguments; the command it names, and no other, is run, and once return is pressed it is.
* loader: every byte of every segment is where the linker put it, writable exactly if the
  segment says so; arguments lie in memory of the new process.
* files: a path opens the item it names and nothing else; descriptors do not share or
  outlive the data of the driver; reads return the bytes of the file.

`PROJECT.json` lists, under `hazards`, the places where this is hard to test.

## 2. Modules

| module | models | composed with |
|---|---|---|
| `BlockPool` | abstract: who owns which blocks | |
| `Heap` | `heap.c`, `kheap.c` on the table of flags | implements `BlockPool` |
| `HeapLoops` | the three loops of `heap.c` statement by statement | extends `Heap` |
| `HeapProofs` | theorems about `Heap` and `HeapLoops` | extends `HeapLoops` |
| `ProcessMemory` | process_load, process_inject_arguments, process_malloc, process_free, process_terminate and the writable pages | extends `Heap` |
| `MemoryProofs` | theorems about `ProcessMemory` | extends `ProcessMemory`, `HeapProofs` |
| `AddressSpace` | abstract: a flat map of pages | |
| `Paging` | `paging.c`, the mappings of `process.c`, copy_string_from_task | implements `AddressSpace` |
| `ElfLoader` | `elfloader.c`, the choice between ELF and raw binary, process_map_memory | extends `Paging` |
| `PagingProofs` | theorems about `Paging` and `ElfLoader` | extends `ElfLoader` |
| `RunQueue` | abstract: tasks in order, one runs | |
| `TaskList` | `task.c`, `task.asm`, the clock, the task side of load and exit | implements `RunQueue` |
| `Kernel` | process table, foreground process, shells, boot, dispatch of system commands | extends `TaskList` |
| `KernelProofs` | theorems about `TaskList` and `Kernel` | extends `Kernel` |
| `KeyQueue` | abstract: a queue of keys | |
| `Keyboard` | the ring of `keyboard.c` | implements `KeyQueue` |
| `CommandLine` | the driver `classic.c`; readline, strtok, istrncmp and the shell program | extends `Keyboard` |
| `KeyboardProofs` | theorems about `Keyboard` and `CommandLine` | extends `CommandLine` |
| `Terminal` | `video.c` and the screen part of shell_switch | |
| `TerminalProofs` | theorems about `Terminal` | extends `Terminal` |
| `PathParser` | `pparser.c` and the comparisons of `string.c` | |
| `FatVolume` | names, directory search, chains and sector reads | extends `PathParser` |
| `FileTable` | `file.c` over FAT16 | extends `FatVolume` |
| `FileTableProofs` | theorems about `FileTable` and the search in `FatVolume` and `PathParser` | extends `FileTable` |
| `MCFileTable` | the volumes for the runs of `FileTable` | extends `FileTable` |
| `Foundations` | least elements, recursive functions, remainders: lemmas of all proofs | |

### How state and actions correspond to the code

**Heap.** `entries[i]` is the byte of block `i` as the set of its flags. `live` is the set
of `<<address, blocks>>` that callers hold; it is the view of the callers and no function
reads it. Sizes count blocks of 4096 bytes: the rounding up is what a caller's byte count
becomes. `heap_get_start_block` is defined by what the scan returns: the first fit, or, if
there is none, the start of the free run the table *ends* with, as the function only
checks that a run was open. `HeapLoops` has the loops themselves, as the
sequence of the values of their variables, and `LoopsAgree` says that the two forms agree.

**ProcessMemory.** Adds the allocations array of each process, its program and stack, and
the set of pages its directory lets it write. `held` is memory of the rest of the kernel,
which allocates and frees between any two system calls. `process_malloc`, `process_free`
and the loops of `process_terminate_allocations` and `process_inject_arguments` are
operators on a record of the parts of the state they change, so that a loop is their
iteration. `lost` is history: programs whose process found no memory for a stack. `passed` is the memory `arguments.argv` leads to; a process started with
arguments that do not fit stays in the table without them. `kfree` of a null pointer works on the bytes
below the table; that such a call was made is kept in `wild`.

**Paging.** `directory[i][j]` is entry `j` of table `i`: address plus flags. Addresses are
bytes and sums wrap at the end of the space. `process_map` is the common form of all
callers: round the ends, call `paging_map_to`, whose checks are `MapToAccepts`.

**ElfLoader.** One process from its file to its first instructions. `process_load_elf` and
`process_load_binary` choose by `elf_validate_loaded`; each turn of the loop of
`process_map_elf` is a step, and the stack comes last, its result not looked at. A refused
mapping ends the load (`refused`), which is why this run may stop. The files are those
that a linker makes with the linker scripts of `programs/`: segments share no page,
address and offset agree within a page, and headers that are not PT_LOAD may stand
anywhere between them. `elf_process_pheaders` passes over those, `process_map_elf` does
not.

**TaskList.** `list` holds `task_head`, `task_tail`, `current_task` and the links. A task
is an address: a freed task keeps its links until its memory is used for a task again.
`cpu` holds the registers and the directory in user mode; `at` remembers what each task
had when it last ran, which the code does not know, as long as the list is `intact` (see
below); the properties do not ask for it after that. `exit` stands for command 9 and for
every exception: `process_terminate` removes the task (which moves `current_task` on) and
`task_next` moves on again. Any task may exit at any time. `intact` is history: it says
whether every task that exited so far did so in order (`InOrder`), that is with a `prev`
that leads to the task before it, or as the first task with a `prev` that is no task. After
an exit out of order the list goes on as the code leaves it. It may then lead to freed
tasks, and what happens when one of these is to run is open (`Resumes`): it runs as it was
or the system is in mode `crash`. Modes `panic` and `crash` are the two ends: the kernel's
own panic, and following a pointer that is none. `exit_panics` is the panic of
`process_switch_to_any` inside `process_terminate`; when that happens is up to the process
table, which `Kernel` adds.

**Kernel.** `processes`, `current_process`, the links between process and task, and
`shells`. `shell_new` is called in turn for each shell by `kernel_main`, which ignores
failures. `SwitchKey` is the keyboard interrupt for the key that switches shells.
`isr80h_handle_command` stands for the commands that leave tasks and processes alone;
`UnknownCommand` is the panic for a number without a command. `LoadCrashes` (no memory for
the task), `PrintCommand` without a shell, the exit of the last task, and running a freed
task of a broken list are the ways to mode `crash`. `Exit` ends the process the current
task leads to, also if that task was freed before: it then empties a slot that may be
another's. `ShownByKey` is the set of shells that pressing the key again and again shows.

**Keyboard.** `head` and `tail` only grow, modulo `Width`; the code takes them modulo the
size of the ring.

**CommandLine.** The interrupt handler with its table of characters, caps lock and
releases on one side, the shell on the other: `peachos_terminal_readline` takes one key
per step, `parsenexec` is `peachos_parse_command` (with memory for `n` arguments, for any
`n`) and the comparison with the built-in commands, `Prompt` goes back to reading. `sp` is
the static pointer of `strtok`, as a position: if memory runs out it is left in the old
line, and `parsenexec` and `parsenexec_Stale` say what the next line is then taken for.
`typed` is what the user typed for this line, which the code does not know; `Edited` is
the reference for correcting it, `Words` for cutting it.

**Terminal.** One action per character that reaches `terminal_writechar`: ordinary, line
feed, backspace. `terminal_backspace` calls `terminal_writechar` recursively with the flag
`backspace` set; the whole of it is one action. The cursors are 16-bit counters that wrap
(`Range16`), as a backspace at the start of a line makes them do. Programs may print
anything. A character outside the buffer of its shell (`Spill`) changes a cell or a saved
cursor of any shell, which lie behind it in the heap, or memory that is not modelled here.
`writer` (the shell that wrote last), `outside` (a character missed its buffer) and
`struck` (the shells whose buffer or cursor one has hit) are history.

**PathParser.** A string is the sequence of its ASCII codes. `pathparser_parse` gives the
drive and the parts; the list ends at the first empty part, so `d//x` is `d`. `IsPathOf`
is the reference: which text a list of parts has.

**FatVolume, FileTable.** The state begins when `disk_search_and_init` asks FAT16 whether
the disk is its own. `fopen` is the whole chain from the text of the path to the
descriptor: parsing, the disk, the mode, the search from directory to directory, the
driver's descriptor, the slot. `WILD` is an item in memory that was freed or never was an
item. `Named` is the reference for paths: the items a path leads to by the names a user
sees, from directory to directory along one of the `Chains`. A buffer is the sequence of the disk positions it was filled
from, so that "the right bytes" is a statement about positions. `Content` is the
reference: what the FAT says a file's bytes are. The FAT, the directory and the geometry
are constants, because nothing writes to the disk.

Definitions whose comment starts with "Seeded fault" are wrong versions of the definition
they stand before. Replacing that definition by one of them must break the property that
`PROJECT.json` names under `mutants`, and shows that the property depends on that code.

## 3. Runs

| run | module | bounds | checks |
|---|---|---|---|
| MCHeap | HeapLoops | 6 blocks, requests of 1 to 4 | no overlap, accounting, chains of flags, the loops, implements BlockPool |
| MCMemory | ProcessMemory | 6 blocks, 2 processes, 3 allocations each, up to 2 arguments, kernel users | writes only its own, isolation, arguments sound, array lists grants, nothing left at the end |
| MCPaging | ElfLoader | 3 tables of 3 entries, pages of 3 bytes, files of up to 3 headers with segments up to 4 bytes, 1 further call | image mapped, bounds of the file, implements AddressSpace |
| MCTaskList | TaskList | 3 tasks, 2 register values, 1 tick before the first switch | list sound, context intact, broken exactly by exits out of order, implements RunQueue, no starvation without exits |
| MCKernel | Kernel | 3 tasks, 4 processes, table of 3, 3 shells that may fail | table matches tasks, exit leaves the foreground, the round of shells |
| MCKeyboard | CommandLine | ring of 2, counters of 4 values, 10 scan codes, lines of 3 characters and 5 keys | ends agree, line is what was typed, arguments are words, runs the command, implements KeyQueue, return runs a line |
| MCTerminal | Terminal | 2 shells, lines of 2 cells, buffers of 3, counters of 3 values | screen shows current, own cursor |
| MCFileTable | MCFileTable | 3 descriptors, 4 driver descriptors, 2 files in the root and one two directories down, 16 paths, 2-byte sectors | own descriptor, reads the file, opens what the path names |
| MCHeapSpill | Heap | 3 blocks | **violated**: an allocation lies inside the heap |
| MCTaskUnlink | TaskList | 3 tasks | **violated**: no pointer leads to a freed task |
| MCTaskStarvation | TaskList | 3 tasks | **violated**: every task runs again and again |
| MCKernelNull | Kernel | 2 tasks, 2 processes, 1 shell | **violated**: the kernel never follows an invalid pointer |

### Why the bounds are enough

* Six blocks leave room for a run of three between two others, holes of each size, and
  requests that only fit at the end, past the end, or nowhere.
* In MCMemory program, stack, argument array, arguments, allocations and kernel memory
  fill the heap, so "heap full" happens at every step of a load and of passing arguments,
  "array full" happens in a malloc, and freed blocks pass from one process to the other
  and to the kernel. Three entries hold an argument array and two arguments, or two of
  these and an allocation.
* In MCPaging the address space holds the stack, two pages for the program and two for
  the heap. Three headers are two segments in either order and a header without size
  before, between or after them. With pages of three bytes a segment can start and end
  inside a page, and one of four bytes crosses to the next.
* Three tasks are the least with a head, a middle and a tail; removing one of them leaves
  a list with two, where both neighbours exist. They also are enough for an exit out of
  order in the middle, at the tail and at the head, where the memory of a freed task must
  be used again first. One tick before the first switch shows the
  counter below and at its limit (10 in the code).
* A table of three processes and four struct processes lets slots be reused. Three shells
  give a round with a gap at the start, in the middle or at the end.
* The counters of the ring wrap after two rounds of the ring (2^32 in the code, a
  multiple of the 1024 cells as 4 is of 2). Five keys fill a line of three characters, or
  make a corrected one, and let the user type ahead into the next line. The scan codes
  are `-`, backspace, return, `h`, the switch key, space, caps lock, the code that equals
  the size of the table, one beyond it and a release: enough to type `-h` and `-H`, its
  beginning, other words, spaces at every place, and words longer than an argument.
* Three descriptors: the last one, which `file_get_descriptor` refuses, and two others,
  closed and reused in any order; four driver descriptors, so that one can be lost and
  memory can run out. Two-byte sectors with two per cluster give reads that begin and end
  in the middle or at the edge of a sector. The paths have small and capital letters,
  names that fill their field, directories two deep, `.` and `..`, a slash at the end, two
  slashes, missing parts in the middle and at the end, a file in place of a directory,
  the largest length and more, another drive and none.
* A buffer of one line and a half ends in the middle of a line; the third row and the
  wrapped column are outside it. Counters of three values (65536 in the code) wrap both in
  rows and, after a backspace at the start of a line, in columns. Two shells are a writer
  and another one, for every property of the terminal.

`Procs` are not reused in `Kernel` and `ProcessMemory` because the code never frees a
`struct process`. Runs are not restricted by state constraints; every bound is a constant
in a guard and is marked "bound" where it is declared.

### Inputs the passing runs leave out

Some constants keep a passing run to behaviour for which its properties are true. Each of
them is there because the code does *not* have the property without it, and section 5
says what happens then:

* CommandLine: `MaxPending <= Size` (not more keys ahead than the ring has cells),
  `EraseEmpty = FALSE` (no backspace on an empty or a full line);
* ProcessMemory: `BssBlocks = 0`, `0 \notin Requests`, `ElfWhenFull = FALSE` (a program
  that finds no memory is a raw binary);
* ElfLoader: a raw binary ends below the heap (`ProgramAddress + MaxSize <= ProgramEnd`);
* FileTable: files and directories of one cluster and no deleted item, as in the image that
  the Makefile builds; no path that names a piece of a long name or goes up to the root by
  `..`; no relative seeks; `NullIsFile = TRUE` (the word at address 4, which is read as the
  type of a null item, is an interrupt vector of the BIOS and not 0).

`PastTable = {0}` says that the byte beyond the table of characters, which scan code 82
reads, is 0; no property depends on it, as all of them start from the characters that
reach the ring.

`RunsCommand` says nothing of a word that is the beginning of a command, `ArgumentsAreWords`
nothing of the lines after memory ran out, and `OpensWhatPathNames` nothing of paths with
two slashes in a row, for the same reason.

Some properties are conditional instead, on history that the code does not keep:

* what is said of tasks and of the process table holds while `intact`, that is until a
  task exits out of order. The runs go on after that, and `BreaksExactly` says that the
  condition is no wider than it must be: every exit out of order does break the list;
* `OwnCursor` and `ScreenShowsCurrent` say nothing of a shell in `struck`, and `OwnCursor`
  nothing of a write while another shell has left the flag `backspace` set;
* `EveryShellReached` is about a system all of whose shells were started.

What happens outside of these conditions is what MCTaskUnlink and the rows of section 5
about RoundOrder, StaysInBuffer and AlwaysOwnCursor show.

### Fairness

* `WF(idt_clock)`, `WF(Clock)`: the timer is hardware and keeps interrupting user mode.
* `WF(task_run_first_ever_task)`, `WF(RunFirst)`: the boot sequence is straight-line code.
* `WF(peachos_terminal_readline)`: `peachos_getkeyblock` polls in a loop and never sleeps;
  its task gets its turn as long as the list of tasks is intact and other tasks do not keep
  exiting (MCTaskList, MCTaskStarvation).
* `WF(Parses)`, `WF(Prompt)`: parsing and going back to the prompt are straight-line code
  of the shell.

Nothing is assumed of the user, or of what programs do.

## 4. What is proved

TLC checks one small instance of each module; the theorems hold for **every** value of the
constants that the named `ASSUME` of the module allows. Each starts from the hypotheses
listed here and nothing else; each is one that the code needs, and section 5
shows what happens without it. `PROJECT.json` lists the theorems one by one.

| module | proved, as `Spec => []...` unless noted | hypotheses |
|---|---|---|
| `HeapProofs` | TypeOK, NoOverlap, Accounting, Chained; `Spec => ImplementsBlockPool` | `0 \notin Requests` |
| | LoopsAgree | none |
| `MemoryProofs` | MTypeOK, WritesOnlyItsOwn, Isolation, ArgumentsSound, ArrayListsGrants, EndedHoldsNothing | `0 \notin Requests`, `BssBlocks = 0`, `~ElfWhenFull` |
| `KernelProofs` | of TaskList: TypeOK, ListSound, ContextIntact, `Spec => BreaksExactly`, `Spec => ImplementsRunQueue`; of Kernel: KTypeOK, TableMatchesTasks, EveryShellReached, ListSound and ContextIntact, `KSpec => ExitLeavesForeground` | none |
| `KeyboardProofs` | EndsAgree, for the ring alone and under driver and shell; CTypeOK, ArgumentsAreWords, RunsCommand; the safety part of ImplementsKeyQueue for both | `MaxPending <= Size` |
| | LineIsWhatWasTyped | `MaxPending <= Size`, `~EraseEmpty` |
| `TerminalProofs` | TypeOK, ScreenShowsCurrent, `Spec => OwnCursor` | none |
| `FileTableProofs` | TypeOK | none |
| | OwnDescriptor | `Readable`, `NullIsFile` |
| | ReadsFile | `Readable`, `NullIsFile`, `OneCluster` |
| | `Spec => OpensWhatPathNames` | `PlainVolume`, `PlainPath(path)` for every path |
| | `PathParserParts`, about the operator alone: `pathparser_parse` is the inverse of `IsPathOf` | single slashes, not longer than `MaxPath` |
| `PagingProofs` | ETypeOK, LoadBounds; `ESpec => ImplementsAddressSpace` | none |
| | ImageMapped | `ProgramAddress + MaxSize <= ProgramEnd` |

`Foundations` has what the others share: a set of numbers has a least element, induction
as a fact about sets, the existence of the function a recursive definition describes
(counting up, and counting down to a bound), and remainders.

The hypotheses about the volume say what the disk image of the Makefile has. `Readable`:
every directory can be read whole. `OneCluster`: a file that a path leads to fits in its
cluster. `PlainVolume`: readable, nothing deleted, no blank inside a name, no name twice
in a directory. `PlainPath`: no part is the name of a label or of a piece of a long name,
and the path does not go on from an item with first cluster 0, which is `..` of a
directory in the root. The volume and the paths of MCFileTable satisfy all of them (TLC
evaluated them as assumptions of that run). What they leave out are the rows about
MCFileTable in section 5, except for two names that are the same in one directory and
blanks inside a name, which no tool that makes a volume writes.

### The inductive invariants

* **Heap**: `HeapInv == TypeOK /\ NoOverlap /\ Accounting /\ Chained`. `NoOverlap` is not
  inductive alone: that `kmalloc` keeps it needs that the table knows all blocks in use
  (`Accounting`); that `kfree` keeps `Accounting` needs that the HAS_NEXT flags mark out
  exactly the run (`Chained`) and that runs do not share blocks. Two facts about the
  operators carry the argument. `StartBlockFresh`: the run that `heap_get_start_block`
  answers has no block in common with any allocation, also the part of it that passes the
  end of the heap, because such a run is only answered if the last block is free.
  `FreeClearsSpan`: `heap_mark_blocks_free` clears the run and nothing else. `LoopsAgree`
  needs no more than the type of the table: what the variables of each loop hold after `k`
  rounds is shown by induction over `k`. A request of
  0 blocks gets an address and no block, and `Chained` fails: hence the hypothesis.
* **Memory of processes**: `MInv` says that the heap is sound (the invariant above, as a
  fact about any table and set of allocations, so that it can follow one system call
  through several calls of kmalloc and kfree), that the array of each process lists its
  grants once each, that its writable pages are exactly those of its image and its grants
  (`writable[p] = Cover(Owned(p))`), and that no piece has two owners. `Isolation` is then
  disjointness of the runs of different pieces. The loops of the code (the arguments, the
  loop over the array on exit) are recursive functions in the model; what they keep is
  proved by induction over the number of rounds, for arrays and argument lists of any
  length and for memory that runs out in any round.
* **Tasks**: `TaskInv` says that the types are right and that while `intact` the tasks are
  `Ordered`. `Ordered` replaces "the walk from the head meets every task" by the existence
  of a sequence `s` with `Linked(s, list, alive)`: next pointers go from each element to
  the following one, head and tail are the ends. That form survives insertion and removal
  by a local argument; `WalkIsOrder` then shows that the walk of the model is `s`. The
  `prev` pointers are not part of it, as the code does not keep them right: a removal only
  needs the `prev` of the task that leaves, and whether that one is right is what `InOrder`
  asks when it leaves. `BreaksExactly` needs the converse, `WalkLinks`: a walk that meets
  each task once is the order of the links, so nothing leads back to its first task or on
  to a task that is gone; an exit out of order leaves just such a pointer (`BreakUnsound`).
  `KInv` adds the table of processes (in step with the tasks while `intact`), that whatever
  runs was loaded, and that the current shell is one of the shells. `ImplementsRunQueue`
  maps each step of the list to the step of the queue on `Chain`, and an exit out of order
  to `Break`, after which the queue promises nothing.
* **Keyboard**: `RingInv == TypeOK /\ EndsAgree /\ Pending <= MaxPending`. That the two
  counters wrap at `Width` and the cells at `Size` is harmless because `Size` divides
  `Width` (`ModMultiple`); different distances below `Size` are different cells
  (`ModInjective`). `LineInv` adds the line, the position of strtok and the phase; that
  strtok finds an end in every line (`sp` moves on with every token) is
  part of the proof.
* **Command line**: `LineIsWhatWasTyped` compares the line with the keys that were typed
  *and taken*, so `EditInv` says which keys are still in the ring (the last `Pending` of
  `typed`, in order), that no return key was taken while the shell reads, and that every
  backspace on its way will find a character to erase. The reference `Edited` is not
  recursive; that one more character appends to it and one more backspace takes off its
  last are lemmas about sets of positions. `WordInv` adds to `LineInv` that `strtok` holds no
  position until memory has run out; then call `k` of `strtok` returns word `k`, by
  induction over the calls. `RunInv == WordInv /\ RunsCommand` needs what `istrncmp`
  answers: equal exactly if the word in small letters is the name or a beginning of it.
* **Terminal**: `ScreenInv` has the types, the screen as the buffer of the current shell
  unless that is struck, and `cursor = terminal[writer]`: the
  global cursor is the saved one of the shell that wrote last. So a shell that
  skips `terminal_init` because it left the flag set itself still goes on at its own cursor.
* **Files**: `TypeOK /\ OwnDescriptor` is inductive. The work is in what a search may end
  with (`FoundItems`): the parts of any path are texts (`ParsedPath`), a directory that can
  be read yields its own items or nothing, and a search goes on only from an item of the
  volume, for directories nested to any depth. The two hypotheses are exactly the two ways
  in which `fat16_get_directory_entry` would go on with memory that is no item.
  `ReadInv` adds that every descriptor of the driver has an item that some path leads to;
  the rest is arithmetic of the two loops: `diskstreamer_read` returns consecutive bytes
  of the disk whatever sectors they are in, and `fat16_read_internal` stays in one cluster.
* **Paths**: `OpensWhatPathNames` is an action property that needs no invariant of the
  state; it compares two definitions. `PathParserParts`: the parser takes apart what
  `IsPathOf` joins, and only that, by induction over the parts. Lowering the letters of a
  path commutes with parsing it, and `istrncmp` is equality of lowered names, so that
  `fat16_find_item_in_directory` finds the one entry a user would read there (`Lookup`).
  `SearchAgrees` then goes along the parts: after `n` of them `fat16_get_directory_entry`
  stands on the last item of the one chain in `Chains` with those names, or on nothing.
* **Paging and the loader**: `LoaderInv` has the types of the tables and what is known of
  the file once it is read: its headers are a layout the linker makes and the bounds are
  those of the PT_LOAD headers. `MapStep` is the core: for a piece at `phys` that becomes
  `size` bytes at `virt <= phys`, process_map either changes nothing, which includes every
  end that wraps around at the end of the space, or replaces exactly the entries of the
  pages from that of the first byte to that of the last (`Mapped`, on the view of the two
  levels as one). The loop of `paging_map_range` and the loop over the headers are
  recursive functions, and what they compute is proved by induction over the rounds.
  `ImageInv` adds that every header mapped so far is still in place (`Placed`); it is kept
  because the pages of different headers are disjoint, the stack ends where programs may
  begin and the heap begins where they must end. That last point is what the hypothesis
  says of raw binaries; the linker's bound says it of ELF files.

### What stays with TLC

* Liveness: NoStarvation, EnterRuns and the fairness part of ImplementsKeyQueue, as the
  prover has no rule for fairness and ENABLED here.

All invariants and all action properties of the passing runs are theorems; TLC and the
mutants remain as a test that the models can move and that the properties depend on the
code.

## 5. Where code and documentation disagree

Four disagreements are runs of their own (`findings` in `PROJECT.json`):

| run | what happens |
|---|---|
| MCHeapSpill | `heap_get_start_block` grants the free blocks at the end of the heap to a request they are too few for |
| MCTaskUnlink | `task_list_remove` never corrects the `prev` of the following task; the exits of neighbours leave freed tasks linked |
| MCTaskStarvation | on exit the kernel moves on by two tasks, so one can be passed over for ever |
| MCKernelNull | without memory for the task the error code of `task_new` is used as a task (`process.c:510` compares it with 0); likewise a program that another one started prints through a null shell (`video.c:28`), and with no task left `task_get_next` follows a null pointer before `panic("No more tasks!\n")` |

The others need one change to a configuration, and TLC then shows a behaviour:

| run and change | property violated | what happens |
|---|---|---|
| MCTaskList, `FlagValues = {0, 1}`, `INVARIANT FlagsIntact` | FlagsIntact | `task_return` pushes the flags of the kernel; `task.c:223` says the flags are restored |
| MCKernel, `INVARIANT ForegroundIsRunning` | ForegroundIsRunning | `shell_switch` puts an ended process in the foreground; `process.c:14` says it is "running" |
| MCKernel, `INVARIANT RoundOrder` | RoundOrder | `shell_switch_to_next` goes back to shell 0 at the first empty entry, so shells behind one that failed to start are out of reach of the key (`shell.c:94`, "round order") |
| MCTerminal, `PROPERTY AlwaysOwnCursor` | AlwaysOwnCursor | a backspace in the first cell leaves the flag set, and the next character of any shell skips `terminal_init` and goes to the cursor used last (`video.c:82`) |
| MCTerminal, `INVARIANT StaysInBuffer` | StaysInBuffer | rows have no limit and a backspace at the start of a line leaves column 65535: characters are written outside the 4096 bytes of the buffer (`video.c:38`, "into the shells video buffer") |
| MCMemory, `Requests = {0, 1, 2}` | Isolation | malloc of 0 remembers a block it does not own and frees it later |
| MCMemory, `BssBlocks = 1` | WritesOnlyItsOwn | p_memsz bytes are mapped writable, only the bytes of the file were allocated |
| MCMemory, `INVARIANT FreesOnlyHeap` | FreesOnlyHeap | ending a process frees the null pointer of each empty entry |
| MCMemory, `ElfWhenFull = TRUE`, `ImageBlocks = 2`, without MTypeOK | Isolation | `elf_load` does not check its memory (`elfloader.c:223`); the file goes to address 0, for every process |
| MCPaging, `Heap = {12, 18}`, `MaxSize = 7`, `MaxHeaders = 0` | ImageMapped | the size of a raw binary is not checked (`process.c`, process_map_binary); one that reaches the heap loses its last pages to a later malloc |
| MCKeyboard, `MaxPending = 3` | ImplementsKeyQueue, EnterRuns | the ring is overwritten, the head stands on an empty cell while keys are pending |
| MCKeyboard, `EraseEmpty = TRUE` | LineIsWhatWasTyped | a backspace on the empty line becomes a character of it (`peachos.c:78`) |
| MCKeyboard, `INVARIANT RunsOnlyNamed` | RunsOnlyNamed | `istrncmp` of the user library takes the beginning of a name for the name, and an empty line reads a null list (`shell.c:34`) |
| MCKeyboard, `INVARIANT LinesAreParsedAlone` | LinesAreParsedAlone | after memory ran out in one line, `strtok` goes on in it and the next one is not looked at |
| MCFileTable, `INVARIANT IssuedIsKnown` | IssuedIsKnown | the last descriptor is issued and then refused |
| MCFileTable, `SEEK_CUR` in `Whence`, `MaxPos = 8`, `INVARIANT PositionInFile` | PositionInFile | the offset alone is compared with the size |
| MCFileTable, `Root <- ChainRoot`, `Fat <- ChainFat`, `Sizes = {8}`, `MaxPos = 8` | ReadsFile | `fat16_get_fat_entry` multiplies where it should add (`fat16.c:397`); a file of two clusters cannot be read |
| the same with `Sizes = {4}` | ReadsFile | a read from the middle of a cluster runs on into the neighbouring cluster of the disk |
| MCFileTable, `Root <- DeletedRoot` | OpensWhatPathNames | each deleted item hides one at the end of the directory |
| MCFileTable, `Items <- LongItems` | OwnDescriptor | the directory cannot be read, is freed, and is used (`fat16.c:588`) |
| MCFileTable, `Paths <- LongNamePaths` | OpensWhatPathNames | a piece of a long name is taken for a file |
| MCFileTable, `Paths <- ParentPaths` | OpensWhatPathNames | `..` of a directory in the root has cluster 0 and leads nowhere |
| MCFileTable, `NullIsFile = FALSE` | OwnDescriptor | a missing directory in the middle of a path is a null item that is searched (`fat16.c:652`) |

Two more can be read off the definitions. `0:/d//x` opens `d`, because the list of parts
ends at the first empty one. And the rows of the keypad in `keyboard_scan_set_one` stand
two codes before the ones the keyboard sends, so that the last two keys give nothing or
the byte beyond the table.

## 6. Plan

1. Done: heap, tasks, processes with their files, mappings and arguments, shells,
   keyboard from the scan code to the command, terminal, paging, paths, directories and
   files; the proofs of section 4.
2. Next: once the code follows cluster chains, ReadsFile without `OneCluster`; the
   hypotheses of section 4 are the list of repairs that would make each theorem
   unconditional.

## 7. What is not modelled

* GDT, TSS, the boot sector and `kernel.asm`, filling the interrupt table,
  `fs_insert_filesystem`: constant set-up before there is any state.
* The clock chip and the port instructions: hardware access. `disk_read_sector` always
  succeeds, as it does in the code, which waits until the disk answers.
* Running out of heap inside the path parser and inside the search of FAT16. Memory that
  is lost without being reachable (the path of every `fopen`, the items of directories on
  the way, the struct of a process whose load failed) is not counted.
* `paging_new_4gb` does not look at the results of its calls of `kzalloc` (`paging.c:13`,
  `18`, `56`), nor `file_new_descriptor` at that of its own (`file.c:78`): with the heap
  full they write through a null pointer. `Paging` starts from a directory that was made,
  and `fopen` of `FileTable` always has memory for the descriptor of the table.
* The memory of a freed task used for something that is not a task, and the rest of the
  heap behind a video buffer: a freed task that is still linked runs as it was or brings the
  system down, and a character outside its buffer hits a shell or nothing modelled.
* User programs other than the shell: elsewhere a program is any sequence of system calls.
  `printf` and `itoa` only format.
* Section headers, symbols and strings of an ELF file: their accessors have no caller.
