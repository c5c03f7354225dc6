-------------------------------- MODULE Heap --------------------------------
(***************************************************************************)
(* The kernel heap (src/memory/heap/heap.c, kheap.c): a table with one     *)
(* byte per block of 4096 bytes and first-fit allocation of runs of        *)
(* blocks.  A request is counted in blocks; an address is the number of    *)
(* the block it points to.  Every caller runs with interrupts disabled, so *)
(* a call is one step.                                                     *)
(***************************************************************************)
EXTENDS Integers

CONSTANTS
  Total,      \* table->total: number of blocks of the heap
  Requests    \* the sizes, in blocks, that callers ask for

ASSUME HeapAssumption ==
  /\ Total \in Nat \ {0}
  /\ Requests \subseteq Nat

VARIABLES
  entries,    \* table->entries: the flags of every block
  live        \* <<address, blocks>> of every allocation handed out and not yet freed

vars == <<entries, live>>

Blocks == 0 .. (Total - 1)

(* A table byte is the set of its flags; HEAP_BLOCK_TABLE_ENTRY_FREE is 0. *)
Flags == {"TAKEN", "IS_FIRST", "HAS_NEXT"}
FREE == {}

IsFree(entry) == "TAKEN" \notin entry

-----------------------------------------------------------------------------
(* What the functions of heap.c compute, as functions of the table.        *)

FreeRun(table, s, n) == \A i \in s .. (s + n - 1) : i \in Blocks /\ IsFree(table[i])

(* heap_get_start_block scans upwards and stops at the first n free blocks *)
(* in a row.  If there is no such run (or n is 0, which the counter never  *)
(* equals) the scan ends at the end of the table and the function returns  *)
(* the start of the free run the table ends with, however short it is;     *)
(* -ENOMEM only if the last block is taken.                                *)
IsFirstFit(table, n, s) ==
  /\ n > 0
  /\ FreeRun(table, s, n)
  /\ \A r \in 0 .. (s - 1) : ~FreeRun(table, r, n)

IsTrailingRun(table, n, s) ==
  /\ n = 0 \/ \A r \in Blocks : ~FreeRun(table, r, n)
  /\ \A i \in s .. (Total - 1) : IsFree(table[i])
  /\ s > 0 => ~IsFree(table[s - 1])

(* Seeded fault: the scan does not stop at the first fit.                  *)
heap_get_start_block_NoBreak(table, n, s) ==
  /\ s \in Blocks
  /\ \A i \in s .. (Total - 1) : IsFree(table[i])
  /\ s > 0 => ~IsFree(table[s - 1])

heap_get_start_block(table, n, s) ==
  s \in Blocks /\ (IsFirstFit(table, n, s) \/ IsTrailingRun(table, n, s))

(* Seeded fault: the last entry of a run also says HAS_NEXT.               *)
heap_mark_blocks_taken_NextOnLast(table, s, n) ==
  [i \in Blocks |->
     IF i \in s .. (s + n - 1)
       THEN {"TAKEN", "HAS_NEXT"} \cup (IF i = s THEN {"IS_FIRST"} ELSE {})
       ELSE table[i]]

(* heap_mark_blocks_taken writes n entries from s on.  Entries past the    *)
(* end of the table land in memory that no function of heap.c reads.       *)
heap_mark_blocks_taken(table, s, n) ==
  LET end_block == s + n - 1
  IN  [i \in Blocks |->
        IF i \in s .. end_block
          THEN {"TAKEN"} \cup (IF i = s THEN {"IS_FIRST"} ELSE {})
                         \cup (IF i # end_block THEN {"HAS_NEXT"} ELSE {})
          ELSE table[i]]

(* Seeded faults: the test of HAS_NEXT reads the entry after it has been   *)
(* cleared, and the loop never breaks.                                     *)
heap_mark_blocks_free_ReadsCleared(table, b) == [table EXCEPT ![b] = FREE]

heap_mark_blocks_free_NoBreak(table, b) ==
  [i \in Blocks |-> IF i >= b THEN FREE ELSE table[i]]

(* heap_mark_blocks_free clears entries from b on, up to and including the *)
(* first one that had no HAS_NEXT flag or the last one of the table.       *)
heap_mark_blocks_free(table, b) ==
  [i \in Blocks |->
     IF i >= b /\ \A j \in b .. (i - 1) : "HAS_NEXT" \in table[j]
       THEN FREE ELSE table[i]]

-----------------------------------------------------------------------------
Init ==                                        \* kheap_init, heap_create
  /\ entries = [i \in Blocks |-> FREE]
  /\ live = {}

(* Seeded fault: the answer -ENOMEM (-3) is used as a block number.        *)
kmalloc_Unchecked(n) ==
  \E s \in Blocks \cup {-3} :
    /\ \/ heap_get_start_block(entries, n, s)
       \/ s = -3 /\ \A b \in Blocks : ~heap_get_start_block(entries, n, b)
    /\ entries' = heap_mark_blocks_taken(entries, s, n)
    /\ live' = live \cup {<<s, n>>}

(* kmalloc and kzalloc: heap_malloc, heap_malloc_blocks.                   *)
kmalloc(n) ==
  \E s \in Blocks :
    /\ heap_get_start_block(entries, n, s)
    /\ entries' = heap_mark_blocks_taken(entries, s, n)
    /\ live' = live \cup {<<s, n>>}

(* The same call when heap_get_start_block answers -ENOMEM: address 0.     *)
kmalloc_ENOMEM(n) ==
  /\ \A s \in Blocks : ~heap_get_start_block(entries, n, s)
  /\ UNCHANGED vars

(* kfree of an address some caller holds: heap_free.                       *)
kfree(a) ==
  /\ a \in live
  /\ entries' = heap_mark_blocks_free(entries, a[1])
  /\ live' = live \ {a}

Next ==
  \/ \E n \in Requests : kmalloc(n)
  \/ \E n \in Requests : kmalloc_ENOMEM(n)
  \/ \E a \in live : kfree(a)

Spec == Init /\ [][Next]_vars

-----------------------------------------------------------------------------
(* The blocks an allocation gives its caller the use of.                   *)
Span(a) == a[1] .. (a[1] + a[2] - 1)

(* Type invariant: every entry is a combination of the flags of heap.h and *)
(* every address handed out is a block of the heap.                        *)
TypeOK ==
  /\ entries \in [Blocks -> SUBSET Flags]
  /\ live \subseteq Blocks \X Requests

(* No two callers of kmalloc share a block: neither inside the heap nor    *)
(* in the part of an allocation that runs past its end.                    *)
NoOverlap ==
  \A a, b \in live : a # b => Span(a) \cap Span(b) = {}

(* The table accounts for exactly the blocks in use: a block is marked     *)
(* taken if and only if some caller holds it.  Nothing kfree should have   *)
(* released stays taken and nothing in use is offered again.               *)
Accounting ==
  \A i \in Blocks : ~IsFree(entries[i]) <=> \E a \in live : i \in Span(a)

(* The HAS_NEXT flags chain every allocation from its first block to its   *)
(* last and not beyond: kfree, which is told the address and not the size, *)
(* finds the end of the run in the table alone.                            *)
Chained ==
  \A a \in live :
    /\ a[2] > 0
    /\ \A i \in Span(a) : i \in Blocks =>
          ("HAS_NEXT" \in entries[i] <=> i # a[1] + a[2] - 1)

(* The heap implements BlockPool: what the flags of the table decide is    *)
(* what the ownership of blocks decides.  In particular the run found free *)
(* in the table is the lowest one nobody owns, and kfree returns the whole *)
(* run it was given, no less and no more.                                  *)
Pool == INSTANCE BlockPool WITH owned <- live
ImplementsBlockPool == Pool!Spec

(* An allocation lies inside the heap.  This is what callers rely on when  *)
(* they take a non-zero address to mean that there was enough memory.      *)
InsideHeap ==
  \A a \in live : Span(a) \subseteq Blocks
=============================================================================
