--------------------------- MODULE ProcessMemory ---------------------------
(***************************************************************************)
(* The memory of processes: process_malloc, process_free and               *)
(* process_terminate of src/task/process.c on the kernel heap, and the     *)
(* pages each process may write (src/memory/paging/paging.c).  A page is a *)
(* block.  A page directory starts read-only everywhere (task_init), so a  *)
(* process can write a page exactly if some mapping of it says             *)
(* PAGING_IS_WRITEABLE.                                                    *)
(***************************************************************************)
EXTENDS Heap, FiniteSets, Sequences

CONSTANTS
  Procs,          \* processes; each is loaded at most once
  MaxAllocations, \* PEACHOS_MAX_PROGRAM_ALLOCATIONS
  ImageBlocks,    \* blocks of the file that is the program
  BssBlocks,      \* blocks that p_memsz of its last segment adds to that
  StackBlocks,    \* blocks of the stack
  MaxArguments,   \* bound: arguments a program is started with
  ElfWhenFull     \* whether a program that finds no memory is ELF, or raw

ASSUME MemoryAssumption ==
  /\ MaxAllocations \in Nat \ {0}
  /\ {ImageBlocks, StackBlocks} \subseteq Requests \ {0}
  /\ BssBlocks \in Nat /\ MaxArguments \in Nat /\ 1 \in Requests
  /\ ElfWhenFull \in BOOLEAN

Indexes == 0 .. (MaxAllocations - 1)
Null == -1                    \* the null pointer, an address below the heap
Empty == <<Null, 0>>          \* an allocations[] entry with ptr 0 and size 0

VARIABLES
  status,       \* history: process -> "new", "running" or "ended"
  allocations,  \* process->allocations: <<ptr, size>> for every index
  image,        \* <<program, stack>> of every process that has them
  writable,     \* the pages the page directory of a process lets it write
  passed,       \* arguments.argv and the strings it leads to, as long as the
                \* process has not freed them itself; arguments.argc = 0: {}
  held,         \* allocations of the rest of the kernel
  given,        \* history: what process_malloc gave and nobody freed since
  wild,         \* history: the addresses below the heap that kfree was given
  lost          \* history: programs whose process found no memory for a stack

mvars == <<vars, status, allocations, image, writable, passed, held, given, wild, lost>>

Image(p) == {image[p][i] : i \in DOMAIN image[p]}

Start(table, n) == {s \in Blocks : heap_get_start_block(table, n, s)}

-----------------------------------------------------------------------------
MInit ==
  /\ Init
  /\ status = [p \in Procs |-> "new"]
  /\ allocations = [p \in Procs |-> [i \in Indexes |-> Empty]]
  /\ image = [p \in Procs |-> <<>>]
  /\ writable = [p \in Procs |-> {}]
  /\ passed = [p \in Procs |-> {}]
  /\ held = {}
  /\ given = [p \in Procs |-> {}]
  /\ wild = {} /\ lost = {}

(* process_malloc, process_free and the loops over them work on the parts  *)
(* of the state that they change for process p.  got: the pieces that      *)
(* process_malloc has returned so far in this system call, a failure is    *)
(* Empty.                                                                  *)
Memory(p) ==
  [entries |-> entries, live |-> live, allocs |-> allocations[p],
   pages |-> writable[p], wild |-> wild, got |-> <<>>]

Store(p, M) ==
  /\ entries' = M.entries /\ live' = M.live /\ wild' = M.wild
  /\ allocations' = [allocations EXCEPT ![p] = M.allocs]
  /\ writable' = [writable EXCEPT ![p] = M.pages]

process_find_free_allocation_index(allocs) ==
  {i \in Indexes : /\ allocs[i][1] = Null
                   /\ \A j \in 0 .. (i - 1) : allocs[j][1] # Null}

(* Seeded fault: with the array full, the memory is given all the same.    *)
process_malloc_Untracked(M, n) ==
  LET s == CHOOSE x \in Start(M.entries, n) : TRUE
      a == <<s, n>>
      index == process_find_free_allocation_index(M.allocs)
  IN  IF Start(M.entries, n) = {} THEN [M EXCEPT !.got = Append(@, Empty)]
      ELSE [M EXCEPT !.entries = heap_mark_blocks_taken(@, s, n),
                     !.live = @ \cup {a},
                     !.allocs = [i \in Indexes |-> IF i \in index THEN a ELSE @[i]],
                     !.pages = @ \cup Span(a),
                     !.got = Append(@, a)]

(* process_malloc: heap, then the index, then the pages.  With no index    *)
(* left the memory goes back to the heap and the process gets 0.           *)
process_malloc(M, n) ==
  LET s == CHOOSE x \in Start(M.entries, n) : TRUE
      a == <<s, n>>
      table == heap_mark_blocks_taken(M.entries, s, n)
      index == process_find_free_allocation_index(M.allocs)
  IN  CASE Start(M.entries, n) = {} -> [M EXCEPT !.got = Append(@, Empty)]
        [] Start(M.entries, n) # {} /\ index = {} ->
             [M EXCEPT !.entries = heap_mark_blocks_free(table, s),
                       !.got = Append(@, Empty)]
        [] OTHER ->
             [M EXCEPT !.entries = table,
                       !.live = @ \cup {a},
                       !.allocs = [i \in Indexes |-> IF i \in index THEN a ELSE @[i]],
                       !.pages = @ \cup Span(a),
                       !.got = Append(@, a)]

(* What was granted in a call: the pieces that are not Empty.              *)
Granted(M) == {M.got[i] : i \in DOMAIN M.got} \ {Empty}

(* Command 4 (malloc).                                                     *)
Malloc(p, n) ==
  LET M == process_malloc(Memory(p), n)
  IN  /\ status[p] = "running"
      /\ Store(p, M)
      /\ given' = [given EXCEPT ![p] = @ \cup Granted(M)]
      /\ UNCHANGED <<status, image, passed, held, lost>>

(* process_inject_arguments: a piece for argv, then one for each argument. *)
(* The first failure ends it.                                              *)
process_inject_arguments(M, argc) ==
  LET after[i \in 0 .. (argc + 1)] ==
        IF i = 0 THEN M
        ELSE IF Empty \in {after[i - 1].got[k] : k \in DOMAIN after[i - 1].got}
               THEN after[i - 1] ELSE process_malloc(after[i - 1], 1)
  IN  IF argc = 0 THEN M ELSE after[argc + 1]

(* Seeded fault: argc and argv are set before the strings are there.       *)
Passed_TooEarly(M) == {M.got[i] : i \in DOMAIN M.got}

(* arguments.argc and argv are set if nothing failed.                      *)
Passed(M) == IF Granted(M) = {M.got[i] : i \in DOMAIN M.got} THEN Granted(M) ELSE {}

(* process_load_for_slot: program, then stack; both mapped writable, the   *)
(* program with the size in memory that its segment asks for.  Command 7   *)
(* and shell_new then inject arguments, command 6 has none.  If that fails *)
(* the process runs all the same.                                          *)
process_load(p, argc) ==
  /\ status[p] = "new"
  /\ \E s \in Start(entries, ImageBlocks) :
       LET program == <<s, ImageBlocks>>
           table == heap_mark_blocks_taken(entries, s, ImageBlocks)
       IN  \E k \in Start(table, StackBlocks) :
             LET stack == <<k, StackBlocks>>
                 M == process_inject_arguments(
                        [Memory(p) EXCEPT
                           !.entries = heap_mark_blocks_taken(table, k, StackBlocks),
                           !.live = @ \cup {program, stack},
                           !.pages = Span(<<s, ImageBlocks + BssBlocks>>) \cup Span(stack)],
                        argc)
             IN  /\ Store(p, M)
                 /\ image' = [image EXCEPT ![p] = <<program, stack>>]
                 /\ given' = [given EXCEPT ![p] = Granted(M)]
                 /\ passed' = [passed EXCEPT ![p] = Passed(M)]
  /\ status' = [status EXCEPT ![p] = "running"]
  /\ UNCHANGED <<held, lost>>

(* The same when there is no memory for the stack: the program is lost     *)
(* ("ToDo: Free the process data").                                        *)
process_load_ENOMEM(p) ==
  /\ status[p] = "new"
  /\ \E s \in Start(entries, ImageBlocks) :
       LET table == heap_mark_blocks_taken(entries, s, ImageBlocks)
       IN  /\ Start(table, StackBlocks) = {}
           /\ entries' = table
           /\ live' = live \cup {<<s, ImageBlocks>>}
           /\ lost' = lost \cup {<<s, ImageBlocks>>}
  /\ status' = [status EXCEPT ![p] = "ended"]
  /\ UNCHANGED <<allocations, image, writable, passed, held, given, wild>>

(* No memory for the program.  process_load_binary returns -ENOMEM.        *)
(* elf_load does not look at the result of kzalloc: the file is read to    *)
(* address 0 and mapped from there.                                        *)
process_load_NoImage(p) ==
  /\ status[p] = "new"
  /\ Start(entries, ImageBlocks) = {}
  /\ IF ElfWhenFull
       THEN \E k \in Start(entries, StackBlocks) :
              LET stack == <<k, StackBlocks>>
                  program == <<Null, ImageBlocks>>
              IN  /\ entries' = heap_mark_blocks_taken(entries, k, StackBlocks)
                  /\ live' = live \cup {stack}
                  /\ image' = [image EXCEPT ![p] = <<program, stack>>]
                  /\ writable' = [writable EXCEPT ![p] = Span(program) \cup Span(stack)]
                  /\ status' = [status EXCEPT ![p] = "running"]
       ELSE /\ status' = [status EXCEPT ![p] = "ended"]
            /\ UNCHANGED <<entries, live, image, writable>>
  /\ UNCHANGED <<allocations, passed, held, given, wild, lost>>

-----------------------------------------------------------------------------
(* kfree of an address below the heap clears bytes below the table; they   *)
(* end, at the latest, in the boot sector, and never reach the table.      *)
kfree_allocation(M, a) ==
  IF a[1] = Null THEN [M EXCEPT !.wild = @ \cup {a[1]}]
  ELSE [M EXCEPT !.entries = heap_mark_blocks_free(@, a[1]), !.live = @ \ {a}]

First(indexes) == CHOOSE i \in indexes : \A j \in indexes : i <= j

(* Seeded fault: the entry keeps its size.                                 *)
unjoin_KeepsSize(allocs, ptr) ==
  [i \in Indexes |-> IF allocs[i][1] = ptr THEN <<Null, allocs[i][2]>> ELSE allocs[i]]

unjoin(allocs, ptr) ==
  [i \in Indexes |-> IF allocs[i][1] = ptr THEN Empty ELSE allocs[i]]

(* Seeded fault: the pages are not unmapped.                               *)
process_free_KeepsPages(M, ptr) ==
  LET matches == {i \in Indexes : M.allocs[i][1] = ptr}
  IN  IF matches = {} THEN M
      ELSE kfree_allocation([M EXCEPT !.allocs = unjoin(@, ptr)],
                            M.allocs[First(matches)])

(* process_free: the first entry that holds ptr says how many pages to     *)
(* unmap; every entry that holds ptr is emptied; the heap takes it back.   *)
process_free(M, ptr) ==
  LET matches == {i \in Indexes : M.allocs[i][1] = ptr}
      a == M.allocs[First(matches)]
  IN  IF matches = {} THEN M
      ELSE kfree_allocation([M EXCEPT !.pages = @ \ Span(a),
                                      !.allocs = unjoin(@, ptr)], a)

(* Seeded fault: the loop stops at the first empty entry.                  *)
process_terminate_allocations_Stops(M) ==
  LET after[i \in 0 .. MaxAllocations] ==
        IF i = 0 THEN M
        ELSE LET ptr == after[i - 1].allocs[i - 1][1]
             IN  IF \E j \in 0 .. (i - 1) : M.allocs[j][1] = Null
                   THEN after[i - 1] ELSE process_free(after[i - 1], ptr)
  IN  after[MaxAllocations]

(* process_terminate_allocations frees the pointer of every entry, also of *)
(* the empty ones.                                                         *)
process_terminate_allocations(M) ==
  LET after[i \in 0 .. MaxAllocations] ==
        IF i = 0 THEN M
        ELSE process_free(after[i - 1], after[i - 1].allocs[i - 1][1])
  IN  after[MaxAllocations]

(* Command 5 (free) with any address: of this process, of another, null.   *)
Free(p, ptr) ==
  LET M == process_free(Memory(p), ptr)
  IN  /\ status[p] = "running"
      /\ Store(p, M)
      /\ given' = [q \in Procs |-> given[q] \cap M.live]
      /\ passed' = [passed EXCEPT ![p] = {a \in @ : a[1] # ptr}]
      /\ UNCHANGED <<status, image, held, lost>>

(* Seeded fault: the stack stays with the process that has ended.          *)
process_free_image_KeepsStack(M, program, stack) == kfree_allocation(M, program)

(* process_free_program_data, then kfree of the stack.                     *)
process_free_image(M, program, stack) ==
  kfree_allocation(kfree_allocation(M, program), stack)

(* process_terminate: allocations, program, stack, and with the task the   *)
(* page directory.                                                         *)
process_terminate(p) ==
  LET M == process_terminate_allocations(Memory(p))
      N == process_free_image(M, image[p][1], image[p][2])
  IN  /\ status[p] = "running"
      /\ Store(p, [N EXCEPT !.pages = {}])
      /\ given' = [q \in Procs |-> given[q] \cap N.live]
      /\ passed' = [passed EXCEPT ![p] = {}]
      /\ image' = [image EXCEPT ![p] = <<>>]
      /\ status' = [status EXCEPT ![p] = "ended"]
      /\ UNCHANGED <<held, lost>>

(* The other users of the heap: tasks, page tables, files, shells.         *)
KernelAlloc(n) ==
  /\ kmalloc(n)
  /\ held' = held \cup (live' \ live)
  /\ UNCHANGED <<status, allocations, image, writable, passed, given, wild, lost>>

KernelFree(a) ==
  /\ a \in held
  /\ kfree(a)
  /\ held' = held \ {a}
  /\ UNCHANGED <<status, allocations, image, writable, passed, given, wild, lost>>

MNext ==
  \/ \E p \in Procs, argc \in 0 .. MaxArguments : process_load(p, argc)
  \/ \E p \in Procs : process_load_ENOMEM(p) \/ process_load_NoImage(p)
  \/ \E p \in Procs : process_terminate(p)
  \/ \E p \in Procs, n \in Requests : Malloc(p, n)
  \/ \E p \in Procs, ptr \in Blocks \cup {Null} : Free(p, ptr)
  \/ \E n \in Requests \ {0} : KernelAlloc(n)
  \/ \E a \in held : KernelFree(a)

MSpec == MInit /\ [][MNext]_mvars

-----------------------------------------------------------------------------
(* Type invariant of the memory of processes.                              *)
MTypeOK ==
  /\ TypeOK
  /\ status \in [Procs -> {"new", "running", "ended"}]
  /\ allocations \in [Procs -> [Indexes -> live \cup {Empty}]]
  /\ held \subseteq live /\ wild \subseteq {Null}
  /\ \A p \in Procs : Image(p) \subseteq live /\ given[p] \subseteq live

(* "we didnt set PAGING_IS_WRITEABLE so its read only address space"       *)
(* (task_init): a process writes only what it was given and still holds.   *)
(* Every page it can write belongs to its program, its stack or a live     *)
(* grant of process_malloc, whatever was freed, reused or terminated.      *)
WritesOnlyItsOwn ==
  \A p \in Procs : \A page \in writable[p] :
    \E a \in Image(p) \cup given[p] : page \in Span(a)

(* No page can be written by two processes, and none that the kernel uses  *)
(* for itself can be written by any.                                       *)
Isolation ==
  \A p \in Procs :
    /\ \A q \in Procs \ {p} : writable[p] \cap writable[q] = {}
    /\ \A a \in held : writable[p] \cap Span(a) = {}

(* A program that was told of arguments has them: argv and every string it *)
(* leads to are in its array and in pages it can reach, until the process  *)
(* itself gives them back.  Neither a start that runs out of memory midway *)
(* nor anything the other processes free, reuse or end leaves an argument  *)
(* that is not there.                                                      *)
ArgumentsSound ==
  \A p \in Procs : \A a \in passed[p] :
    /\ a \in given[p] /\ Span(a) \subseteq writable[p]
    /\ \E i \in Indexes : allocations[p][i] = a

(* The array of a process lists exactly the memory it holds, each piece    *)
(* once, also when the array is full or the heap has run out.              *)
ArrayListsGrants ==
  \A p \in Procs :
    LET used == {i \in Indexes : allocations[p][i] # Empty}
    IN  /\ {allocations[p][i] : i \in used} = given[p]
        /\ Cardinality(used) = Cardinality(given[p])

(* "fail-safe, mem-leak" (struct process): what a process did not free is  *)
(* freed when it ends, with its program and its stack.  Whatever the heap  *)
(* has handed out belongs to the kernel or to a process that still runs;   *)
(* only a program that was loaded without finding a stack is left behind.  *)
EndedHoldsNothing ==
  live \subseteq held \cup lost
                 \cup UNION {Image(p) \cup given[p] : p \in {q \in Procs : status[q] = "running"}}

(* "Check: if pointer is valid" (process_free): kfree is only ever given   *)
(* addresses of the heap.                                                  *)
FreesOnlyHeap == wild = {}
=============================================================================
