----------------------------- MODULE HeapLoops -----------------------------
(***************************************************************************)
(* The three loops of src/memory/heap/heap.c, statement by statement, and  *)
(* the claim that they compute what module Heap defines by properties of   *)
(* the table.  A loop is the sequence of its variables' values: loop[k] is *)
(* what they hold after k rounds.                                          *)
(***************************************************************************)
EXTENDS Heap

(* heap_get_start_block: bs, which is -1 where the code says -ENOMEM.      *)
ScanLoop(table, total_blocks) ==
  LET loop[k \in 0 .. Total] ==
        IF k = 0 THEN [bc |-> 0, bs |-> -1, break |-> FALSE]
        ELSE LET was == loop[k - 1]
                 i == k - 1
             IN  IF was.break THEN was
                 ELSE IF ~IsFree(table[i]) THEN [bc |-> 0, bs |-> -1, break |-> FALSE]
                 ELSE [bc |-> was.bc + 1,
                       bs |-> IF was.bs = -1 THEN i ELSE was.bs,
                       break |-> was.bc + 1 = total_blocks]
  IN  loop[Total].bs

(* heap_mark_blocks_taken: entry is what the next index receives.          *)
TakenLoop(table, start_block, total_blocks) ==
  LET end_block == start_block + total_blocks - 1
      loop[k \in 0 .. total_blocks] ==
        IF k = 0
          THEN [entries |-> table,
                entry |-> {"TAKEN", "IS_FIRST"}
                            \cup (IF total_blocks > 1 THEN {"HAS_NEXT"} ELSE {})]
        ELSE LET was == loop[k - 1]
                 i == start_block + k - 1
             IN  [entries |-> IF i \in Blocks THEN [was.entries EXCEPT ![i] = was.entry]
                                              ELSE was.entries,
                  entry |-> {"TAKEN"} \cup (IF i # end_block - 1 THEN {"HAS_NEXT"} ELSE {})]
  IN  loop[total_blocks].entries

(* heap_mark_blocks_free.                                                  *)
FreeLoop(table, starting_block) ==
  LET loop[k \in 0 .. (Total - starting_block)] ==
        IF k = 0 THEN [entries |-> table, break |-> FALSE]
        ELSE LET was == loop[k - 1]
                 i == starting_block + k - 1
             IN  IF was.break THEN was
                 ELSE [entries |-> [was.entries EXCEPT ![i] = FREE],
                       break |-> "HAS_NEXT" \notin was.entries[i]]
  IN  loop[Total - starting_block].entries

(* The loops compute what Heap defines by properties of the table.  The    *)
(* scan of heap_get_start_block returns the block that the definition      *)
(* describes, that one only, and -ENOMEM exactly when there is none, for   *)
(* every request from 0 blocks to more than the heap has; marking a run    *)
(* taken and clearing it again touch the entries the definitions say, with *)
(* the same flags, also for a run that passes the end of the table and for *)
(* a start in the middle of somebody's run.                                *)
LoopsAgree ==
  /\ \A n \in 0 .. (Total + 1) :
       {s \in Blocks : heap_get_start_block(entries, n, s)}
         = {ScanLoop(entries, n)} \ {-1}
  /\ \A s \in Blocks :
       /\ \A n \in 0 .. (Total + 1) :
            TakenLoop(entries, s, n) = heap_mark_blocks_taken(entries, s, n)
       /\ FreeLoop(entries, s) = heap_mark_blocks_free(entries, s)
=============================================================================
