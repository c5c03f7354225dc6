------------------------------ MODULE RunQueue ------------------------------
(***************************************************************************)
(* The scheduler as its callers see it: the tasks in order of creation and *)
(* the one that runs.  The clock moves on to the next task, round and      *)
(* round; a new task joins at the end; a task that exits leaves and the    *)
(* task after the one that followed it runs (the code moves on twice).     *)
(* Each task remembers the one it was created behind.  It leaves the queue *)
(* in good order only if that task is still the one before it; after an    *)
(* exit that finds another, nothing is promised.                           *)
(***************************************************************************)
EXTENDS Sequences, SequencesExt, Integers

CONSTANTS Tasks, NULL

VARIABLES
  order,      \* the tasks of the system in the order of their creation
  running,    \* the current task, NULL if there is none
  behind,     \* the task each was created behind, NULL if it was the first
  intact      \* whether every exit so far was in order

vars == <<order, running, behind, intact>>

InQueue(t) == \E i \in DOMAIN order : order[i] = t
IndexOf(t) == CHOOSE i \in 1 .. Len(order) : order[i] = t
Following(seq, i) == IF i >= Len(seq) THEN seq[1] ELSE seq[i + 1]
Back == IF order = <<>> THEN NULL ELSE order[Len(order)]

Init ==
  /\ order = <<>> /\ running = NULL
  /\ behind = [t \in Tasks |-> NULL] /\ intact = TRUE

Add(t) ==
  /\ ~InQueue(t)
  /\ order' = Append(order, t)
  /\ running' = IF order = <<>> THEN t ELSE running
  /\ behind' = [behind EXCEPT ![t] = Back]
  /\ UNCHANGED intact

Start(t) ==
  /\ ~InQueue(t)
  /\ order' = Append(order, t)
  /\ running' = t
  /\ behind' = [behind EXCEPT ![t] = Back]
  /\ UNCHANGED intact

(* A task that fails to load is put at the end and taken away again.       *)
Refuse(t) ==
  /\ ~InQueue(t)
  /\ behind' = [behind EXCEPT ![t] = Back]
  /\ UNCHANGED <<order, running, intact>>

Tick ==
  /\ order # <<>>
  /\ running' = Following(order, IndexOf(running))
  /\ UNCHANGED <<order, behind, intact>>

ExitsInOrder ==
  LET i == IndexOf(running)
  IN  IF i = 1 THEN ~InQueue(behind[running])
      ELSE behind[running] = order[i - 1]

Exit ==
  LET i == IndexOf(running)
      rest == RemoveAt(order, i)
      after == IF i > Len(rest) THEN 1 ELSE i
  IN  /\ order # <<>> /\ ExitsInOrder
      /\ order' = rest
      /\ running' = IF rest = <<>> THEN NULL ELSE Following(rest, after)
      /\ UNCHANGED <<behind, intact>>

(* An exit that is not in order; what becomes of the queue is open.        *)
Break == order # <<>> /\ ~ExitsInOrder /\ intact' = FALSE

Next ==
  \/ /\ intact
     /\ \/ \E t \in Tasks : Add(t) \/ Start(t) \/ Refuse(t)
        \/ Tick
        \/ Exit
        \/ Break
  \/ ~intact /\ intact' = FALSE

Spec == Init /\ [][Next]_vars
=============================================================================
