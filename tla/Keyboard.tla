------------------------------ MODULE Keyboard ------------------------------
(***************************************************************************)
(* The keyboard buffer of one process (struct keyboard_buffer in           *)
(* src/task/process.h, operated by src/keyboard/keyboard.c).  The keyboard *)
(* interrupt pushes; the program polls with the getkey system call.  Both  *)
(* run with interrupts disabled, so each is one step.                      *)
(***************************************************************************)
EXTENDS Integers, Sequences

CONSTANTS
  Size,         \* PEACHOS_KEYBOARD_BUFFER_SIZE
  Width,        \* number of values of the counters head and tail (2^32)
  Keys,         \* characters that keys produce
  NUL,          \* 0x00, the mark of an empty cell
  MaxPending    \* bound: how many keys the user types ahead of the program

ASSUME KeyboardAssumption ==
  /\ Size \in Nat \ {0}
  /\ Width \in Nat \ {0} /\ Width % Size = 0
  /\ NUL \notin Keys
  /\ MaxPending \in Nat /\ MaxPending < Width

VARIABLES
  buffer,       \* keyboard.buffer
  head, tail,   \* keyboard.head and keyboard.tail, which only ever grow
  got           \* what the last keyboard_pop returned

vars == <<buffer, head, tail, got>>

Cells == 0 .. (Size - 1)

(* How many pushes are ahead of the pops.                                  *)
Pending == (tail - head) % Width

(* Seeded fault: the cell after the tail.                                  *)
keyboard_get_tail_index_OffByOne == (tail + 1) % Size

keyboard_get_tail_index == tail % Size

Init ==                                       \* process_init: memset
  /\ buffer = [i \in Cells |-> NUL]
  /\ head = 0 /\ tail = 0
  /\ got = NUL

(* keyboard_push writes the cell at the tail, occupied or not.             *)
keyboard_push(c) ==
  /\ Pending < MaxPending
  /\ buffer' = [buffer EXCEPT ![keyboard_get_tail_index] = c]
  /\ tail' = (tail + 1) % Width
  /\ UNCHANGED <<head, got>>

(* Seeded faults of keyboard_pop: it goes down, keeps the cell, or stays.  *)
keyboard_pop_Backwards ==
  LET c == buffer[head % Size]
  IN  /\ got' = c
      /\ c # NUL
      /\ buffer' = [buffer EXCEPT ![head % Size] = NUL]
      /\ head' = head - 1
      /\ UNCHANGED tail

keyboard_pop_KeepsCell ==
  LET c == buffer[head % Size]
  IN  /\ got' = c
      /\ head' = IF c = NUL THEN head ELSE (head + 1) % Width
      /\ UNCHANGED <<buffer, tail>>

keyboard_pop_Stays ==
  /\ got' = buffer[head % Size]
  /\ buffer' = [buffer EXCEPT ![head % Size] = NUL]
  /\ UNCHANGED <<head, tail>>

(* keyboard_pop decides by the cell at the head alone whether there is     *)
(* anything to return.                                                     *)
keyboard_pop ==
  LET real_index == head % Size
      c == buffer[real_index]
  IN  /\ got' = c
      /\ IF c = NUL
           THEN UNCHANGED <<buffer, head>>
           ELSE /\ buffer' = [buffer EXCEPT ![real_index] = NUL]
                /\ head' = (head + 1) % Width
      /\ UNCHANGED tail

Next == (\E c \in Keys : keyboard_push(c)) \/ keyboard_pop

(* peachos_getkeyblock and the shell poll in a loop.                       *)
Spec == Init /\ [][Next]_vars /\ WF_vars(keyboard_pop)

-----------------------------------------------------------------------------
(* Type invariant: cells hold keys or NUL and the counters stay in width.  *)
TypeOK ==
  /\ buffer \in [Cells -> Keys \cup {NUL}]
  /\ head \in 0 .. (Width - 1) /\ tail \in 0 .. (Width - 1)
  /\ got \in Keys \cup {NUL}

(* The occupied cells are exactly the Pending ones from head on.  The two  *)
(* ends of the buffer find each other by this alone: keyboard_pop never    *)
(* looks at tail and keyboard_push never looks at head.                    *)
EndsAgree ==
  \A i \in Cells : buffer[(head + i) % Size] # NUL <=> i < Pending

(* The buffer is a queue: every key typed is returned, once, in the order  *)
(* of typing, and the program that polls gets all of them, as long as the  *)
(* user is never more than Size keys ahead.                                *)
Queue == INSTANCE KeyQueue
           WITH queue <- [i \in 1 .. Pending |-> buffer[(head + i - 1) % Size]]
ImplementsKeyQueue == Queue!Spec

(* "This function will keep running(block) until a key is pressed"         *)
(* (peachos_getkeyblock): a program that polls while a typed key is in its *)
(* buffer is sooner or later given a key.                                  *)
GetkeyblockReturns ==
  \/ []<>(\A i \in Cells : buffer[i] = NUL)
  \/ []<><<got' # NUL>>_vars
=============================================================================
