----------------------------- MODULE BlockPool -----------------------------
(***************************************************************************)
(* What the kernel heap promises its callers, without a block table: runs  *)
(* of blocks are owned, a request is granted the lowest run of blocks that *)
(* nobody owns, and a release gives back exactly what the grant gave.      *)
(* A request for which no run is long enough is granted a span that starts *)
(* in the heap, where every higher block is free, and runs past its end    *)
(* (see InsideHeap in module Heap); it is refused, which is no step here,  *)
(* when the last block is owned.                                           *)
(***************************************************************************)
EXTENDS Integers

CONSTANTS Total, Requests

VARIABLE owned      \* the spans <<start, length>> that callers own

Blocks == 0 .. (Total - 1)
Span(a) == a[1] .. (a[1] + a[2] - 1)

Unowned(i) == \A a \in owned : i \notin Span(a)
Fits(s, n) == Span(<<s, n>>) \subseteq Blocks /\ \A i \in Span(<<s, n>>) : Unowned(i)

Init == owned = {}

Grant(n) ==
  \E s \in Blocks :
    /\ \/ Fits(s, n) /\ \A r \in 0 .. (s - 1) : ~Fits(r, n)
       \/ /\ \A r \in Blocks : ~Fits(r, n)
          /\ \A i \in s .. (Total - 1) : Unowned(i)
    /\ owned' = owned \cup {<<s, n>>}

Release(a) ==
  /\ a \in owned
  /\ owned' = owned \ {a}

Next ==
  \/ \E n \in Requests : Grant(n)
  \/ \E a \in owned : Release(a)

Spec == Init /\ [][Next]_owned
=============================================================================
