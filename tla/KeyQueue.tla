------------------------------ MODULE KeyQueue ------------------------------
(***************************************************************************)
(* What a process expects of its keyboard: a queue of typed keys.  getkey  *)
(* returns the oldest key not yet returned, NUL if there is none, and a    *)
(* program that keeps asking is given every key.                           *)
(***************************************************************************)
EXTENDS Sequences

CONSTANTS Keys, NUL

VARIABLES
  queue,    \* the keys typed and not yet returned, oldest first
  got       \* what the last getkey returned

vars == <<queue, got>>

Init == queue = <<>> /\ got = NUL

Type(c) ==
  /\ queue' = Append(queue, c)
  /\ UNCHANGED got

GetKey ==
  /\ queue # <<>>
  /\ got' = Head(queue)
  /\ queue' = Tail(queue)

GetNothing ==
  /\ queue = <<>>
  /\ got' = NUL
  /\ UNCHANGED queue

Next == (\E c \in Keys : Type(c)) \/ GetKey \/ GetNothing

Spec == Init /\ [][Next]_vars /\ WF_vars(GetKey)
=============================================================================
