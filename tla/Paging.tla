------------------------------- MODULE Paging -------------------------------
(***************************************************************************)
(* A page directory and its tables (src/memory/paging/paging.c), and the   *)
(* two things callers do with them: map a piece of memory (process.c), and *)
(* borrow one page (copy_string_from_task in src/task/task.c).  Addresses  *)
(* are bytes and wrap around at the end of the space, 2^32.  ElfLoader     *)
(* says who maps what and when.                                            *)
(***************************************************************************)
EXTENDS Integers

CONSTANTS
  PageSize,   \* PAGING_PAGE_SIZE
  Entries,    \* PAGING_TOTAL_ENTRIES_PER_TABLE, also the number of tables
  NewFlags,   \* flags a new directory is made with (read-only for tasks)
  Flags,      \* flags that mappings are given
  MaxSize     \* bound: the largest piece; phys + size wraps around to below phys

ASSUME PagingAssumption ==
  /\ PageSize \in Nat \ {0} /\ Entries \in Nat \ {0}
  /\ NewFlags \in 0 .. (PageSize - 1) /\ Flags \subseteq 0 .. (PageSize - 1)
  /\ MaxSize \in 1 .. (Entries * Entries - 2) * PageSize

VARIABLES
  directory,  \* directory[i][j]: entry j of table i
  segment     \* history: what the last mapping was asked for; none: <<>>

vars == <<directory, segment>>

Space == Entries * Entries * PageSize
Addresses == 0 .. (Space - 1)
Indexes == 0 .. (Entries - 1)

paging_is_aligned(a) == a % PageSize = 0

paging_get_indexes(virt) ==
  <<virt \div (Entries * PageSize), (virt % (Entries * PageSize)) \div PageSize>>

paging_align_address(a) ==
  IF a % PageSize = 0 THEN a ELSE (a + PageSize - (a % PageSize)) % Space

paging_align_to_lower_page(a) == a - (a % PageSize)

paging_set(D, virt, val) ==
  LET i == paging_get_indexes(virt)
  IN  IF paging_is_aligned(virt) THEN [D EXCEPT ![i[1]][i[2]] = val] ELSE D

(* Seeded fault: the address is taken for a frame number.                  *)
paging_map_Shifted(D, virt, phys, flags) ==
  IF paging_is_aligned(virt) /\ paging_is_aligned(phys)
    THEN paging_set(D, virt, phys * PageSize + flags) ELSE D

(* An aligned address or'ed with flags is their sum.                       *)
paging_map(D, virt, phys, flags) ==
  IF paging_is_aligned(virt) /\ paging_is_aligned(phys)
    THEN paging_set(D, virt, phys + flags) ELSE D

paging_map_range(D, virt, phys, count, flags) ==
  LET after[i \in 0 .. count] ==
        IF i = 0 THEN D
        ELSE paging_map(after[i - 1], (virt + (i - 1) * PageSize) % Space,
                        (phys + (i - 1) * PageSize) % Space, flags)
  IN  after[count]

(* The checks of paging_map_to; if one fails it returns -EINVARG.          *)
MapToAccepts(virt, phys, phys_end) ==
  /\ paging_is_aligned(virt) /\ paging_is_aligned(phys) /\ paging_is_aligned(phys_end)
  /\ phys_end >= phys

paging_map_to(D, virt, phys, phys_end, flags) ==
  IF MapToAccepts(virt, phys, phys_end)
    THEN paging_map_range(D, virt, phys, (phys_end - phys) \div PageSize, flags) ELSE D

paging_get(D, virt) ==
  LET i == paging_get_indexes(virt) IN D[i[1]][i[2]]

paging_get_physical_address(D, virt) ==
  LET lower == paging_align_to_lower_page(virt)
      entry == paging_get(D, lower)
  IN  (entry - (entry % PageSize)) + (virt - lower)

-----------------------------------------------------------------------------
Init ==                                                  \* paging_new_4gb
  /\ directory = [i \in Indexes |-> [j \in Indexes |->
                    i * (Entries * PageSize) + j * PageSize + NewFlags]]
  /\ segment = <<>>

(* A piece of memory at phys becomes size bytes at virt.  Both have the    *)
(* same offset in a page: the linker lays out segments so, and everything  *)
(* else is aligned.  An end beyond the end of the space is refused.        *)
process_map(virt, phys, size, flags) ==
  LET from == paging_align_to_lower_page(virt)
      first == paging_align_to_lower_page(phys)
      end == paging_align_address((phys + size) % Space)
  IN  /\ virt % PageSize = phys % PageSize
      /\ directory' = paging_map_to(directory, from, first, end, flags)
      /\ segment' = IF MapToAccepts(from, first, end)
                      THEN <<virt, phys, size>> ELSE <<>>

(* Seeded fault: the old entry is read after it was overwritten.           *)
copy_string_from_task_ReadsLate(tmp, flags) ==
  LET borrowed == paging_map(directory, tmp, tmp, flags)
  IN  /\ directory' = paging_set(borrowed, tmp, paging_get(borrowed, tmp))
      /\ UNCHANGED segment

(* copy_string_from_task: the block tmp of the heap is mapped to itself,   *)
(* used, and its entry set back.                                           *)
copy_string_from_task(tmp, flags) ==
  LET old_entry == paging_get(directory, tmp)
      borrowed == paging_map(directory, tmp, tmp, flags)
  IN  /\ paging_is_aligned(tmp)
      /\ directory' = paging_set(borrowed, tmp, old_entry)
      /\ UNCHANGED segment

-----------------------------------------------------------------------------
(* The table entry the processor uses for a page: the upper half of the    *)
(* page number selects the table, the lower half the entry.                *)
Walk(page) == directory[page \div Entries][page % Entries]

(* Type invariant: every entry is the address of a frame with flags.       *)
TypeOK ==
  /\ directory \in [Indexes -> [Indexes -> Addresses]]
  /\ \A i, j \in Indexes : directory[i][j] % PageSize \in Flags \cup {NewFlags}

(* The two-level tables implement a flat address space: every mapping      *)
(* replaces exactly the pages it is about, across the border between two   *)
(* tables, and borrowing a page for a system call changes nothing.         *)
Flat == INSTANCE AddressSpace WITH
          Pages <- Entries * Entries, request <- segment,
          flat <- [x \in 0 .. (Entries * Entries - 1) |-> Walk(x)]
ImplementsAddressSpace == Flat!Spec
=============================================================================
