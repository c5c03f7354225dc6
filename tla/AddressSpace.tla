---------------------------- MODULE AddressSpace ----------------------------
(***************************************************************************)
(* What a page directory is for: a flat map from pages to entries.  A      *)
(* request to have size bytes at phys appear at virt replaces the entries  *)
(* of the pages those bytes are in, and nothing else does.                 *)
(***************************************************************************)
EXTENDS Integers

CONSTANTS PageSize, Pages, NewFlags, Flags   \* Pages: how many there are

VARIABLES
  flat,      \* page -> address of its frame plus flags
  request    \* the last request <<virt, phys, size>>; none or refused: <<>>

Addresses == 0 .. (Pages * PageSize - 1)

Init ==
  /\ flat = [x \in 0 .. (Pages - 1) |-> x * PageSize + NewFlags]
  /\ request = <<>>

Requests == Addresses \X Addresses \X (0 .. (Pages * PageSize))

Map(f) ==
  /\ request' \in Requests
  /\ LET virt == request'[1]  phys == request'[2]  size == request'[3]
         page == virt \div PageSize
         frame == phys \div PageSize
     IN  flat' = [x \in 0 .. (Pages - 1) |->
                    IF x \in page .. ((virt + size - 1) \div PageSize)
                      THEN (frame + (x - page)) * PageSize + f ELSE flat[x]]

Refuse == request' = <<>> /\ UNCHANGED flat

Next == Refuse \/ \E f \in Flags \cup {NewFlags} : Map(f)

Spec == Init /\ [][Next]_<<flat, request>>
=============================================================================
