----------------------------- MODULE ElfLoader -----------------------------
(***************************************************************************)
(* From a program file to a process that can run: elf_load of              *)
(* src/loader/formats/elfloader.c, the choice between ELF and raw binary   *)
(* and process_map_memory of src/task/process.c, on the new page directory *)
(* of the process.  The kernel maps one program header after the other and *)
(* nothing else runs meanwhile.  A program file is what the linker makes   *)
(* of programs/*/linker.ld: segments that share no page, an address and an *)
(* offset that agree within a page, p_paddr = p_vaddr, and the headers for *)
(* the loader's information (PT_GNU_STACK) with no address and no size.    *)
(***************************************************************************)
EXTENDS Paging, Sequences

CONSTANTS
  ProgramAddress,  \* PEACHOS_PROGRAM_VIRTUAL_ADDRESS
  StackAddress,    \* PEACHOS_PROGRAM_VIRTUAL_STACK_ADDRESS_END
  StackSize,       \* PEACHOS_USER_PROGRAM_STACK_SIZE
  WriteFlag,       \* what PAGING_IS_WRITEABLE adds to the flags of a mapping
  ProgramEnd,      \* bound: where the last segment ends at the latest
  Heap,            \* the blocks of the heap: page-aligned, beyond the programs
  MaxOffset,       \* bound: the largest offset of a segment in its file
  MaxBss,          \* bound: what a segment is longer in memory than in the file
  MaxHeaders,      \* bound: program headers of a file
  MaxCalls         \* bound: calls of a running process that change its pages

ASSUME ElfAssumption ==
  /\ {ProgramAddress, ProgramEnd, StackAddress, StackSize} \cup Heap
       \subseteq {a \in Addresses \ {0} : paging_is_aligned(a)}
  /\ StackAddress + StackSize <= ProgramAddress    \* the stack ends below the program
  /\ ProgramAddress <= ProgramEnd
  /\ \A a \in Heap : ProgramEnd <= a
  /\ {MaxOffset, MaxBss, MaxHeaders, MaxCalls} \subseteq Nat
  /\ {0, NewFlags + WriteFlag} \subseteq Flags

VARIABLES
  elf,     \* process->elf_file, or the raw binary; before elf_load: <<>>
  mapped,  \* how many headers process_map_elf has mapped
  state,   \* "empty", "loaded", "running" or "refused"
  calls    \* calls of the running process so far

evars == <<vars, elf, mapped, state, calls>>

-----------------------------------------------------------------------------
(* Program headers.                                                        *)
Loads ==
  {h \in [p_type : {"PT_LOAD"}, p_vaddr : ProgramAddress .. (ProgramEnd - 1),
          p_offset : 0 .. MaxOffset, p_memsz : 1 .. MaxSize, p_filesz : 0 .. MaxSize,
          p_write : BOOLEAN] :
     /\ h.p_vaddr % PageSize = h.p_offset % PageSize
     /\ h.p_memsz - h.p_filesz \in 0 .. MaxBss
     /\ h.p_vaddr + h.p_memsz <= ProgramEnd}

GnuStack ==
  [p_type |-> "PT_GNU_STACK", p_vaddr |-> 0, p_offset |-> 0,
   p_memsz |-> 0, p_filesz |-> 0, p_write |-> TRUE]

PagesOf(h) ==
  IF h.p_memsz = 0 THEN {}
  ELSE (h.p_vaddr \div PageSize) .. ((h.p_vaddr + h.p_memsz - 1) \div PageSize)

Layouts ==
  {s \in UNION {[1 .. n -> Loads \cup {GnuStack}] : n \in 0 .. MaxHeaders} :
     \A i, j \in DOMAIN s : i # j => PagesOf(s[i]) \cap PagesOf(s[j]) = {}}

(* The fields of the ELF header that are looked at.  A raw binary has any  *)
(* bytes in their place.                                                   *)
Headers == [signature : BOOLEAN, class : 0 .. 2, data : 0 .. 2, e_phoff : 0 .. 1]

elf_validate_loaded(header) ==
  /\ header.signature
  /\ header.class \in {0, 1}             \* ELFCLASSNONE, ELFCLASS32
  /\ header.data \in {0, 1}              \* ELFDATANONE, ELFDATA2LSB
  /\ header.e_phoff # 0

elf_phdr_phys_address(memory, h) == memory + h.p_offset

(* Seeded fault: the comparison with the base is the wrong way round.      *)
elf_process_phdr_pt_load_Highest(f, h) ==
  LET lower == f.vbase <= h.p_vaddr
      end == h.p_vaddr + h.p_filesz
      higher == f.vend <= end
      phys == elf_phdr_phys_address(f.memory, h)
  IN  [f EXCEPT !.vbase = IF lower THEN h.p_vaddr ELSE @,
                !.pbase = IF lower THEN phys ELSE @,
                !.vend = IF higher THEN end ELSE @,
                !.pend = IF higher THEN phys + h.p_filesz ELSE @]

(* The base is taken from p_paddr, which is p_vaddr.                       *)
elf_process_phdr_pt_load(f, h) ==
  LET lower == f.vbase >= h.p_vaddr \/ f.vbase = 0
      end == h.p_vaddr + h.p_filesz
      higher == f.vend <= end \/ f.vend = 0
      phys == elf_phdr_phys_address(f.memory, h)
  IN  [f EXCEPT !.vbase = IF lower THEN h.p_vaddr ELSE @,
                !.pbase = IF lower THEN phys ELSE @,
                !.vend = IF higher THEN end ELSE @,
                !.pend = IF higher THEN phys + h.p_filesz ELSE @]

(* elf_process_pheaders: the headers that are not PT_LOAD are passed over. *)
elf_process_pheaders(f) ==
  LET after[i \in 0 .. Len(f.headers)] ==
        IF i = 0 THEN f
        ELSE IF f.headers[i].p_type = "PT_LOAD"
               THEN elf_process_phdr_pt_load(after[i - 1], f.headers[i])
               ELSE after[i - 1]
  IN  after[Len(f.headers)]

-----------------------------------------------------------------------------
EInit ==
  /\ Init
  /\ elf = <<>> /\ mapped = 0 /\ state = "empty" /\ calls = 0

(* process_load_elf: the whole file is read to memory and its headers give *)
(* the bounds.  What elf_validate_loaded refuses (-EINFORMAT) is taken for *)
(* a raw binary of size bytes.                                             *)
process_load_elf(header, headers, memory) ==
  /\ elf_validate_loaded(header)
  /\ elf' = elf_process_pheaders(
              [filetype |-> "ELF", memory |-> memory, headers |-> headers,
               vbase |-> 0, pbase |-> 0, vend |-> 0, pend |-> 0])
  /\ state' = "loaded"
  /\ UNCHANGED <<vars, mapped, calls>>

process_load_binary(header, memory, size) ==
  /\ ~elf_validate_loaded(header)
  /\ elf' = [filetype |-> "BINARY", memory |-> memory, size |-> size]
  /\ state' = "loaded"
  /\ UNCHANGED <<vars, mapped, calls>>

Writable(w) == NewFlags + IF w THEN WriteFlag ELSE 0

(* paging_map_to has refused with -EINVARG: the load ends there.           *)
Refused == segment' = <<>>

(* Seeded fault: the size in the file is mapped, not the size in memory.   *)
process_map_elf_FileSize ==
  /\ state = "loaded" /\ elf.filetype = "ELF" /\ mapped < Len(elf.headers)
  /\ LET h == elf.headers[mapped + 1]
     IN  process_map(h.p_vaddr, elf_phdr_phys_address(elf.memory, h), h.p_filesz,
                     Writable(h.p_write))
  /\ mapped' = mapped + 1
  /\ state' = IF Refused THEN "refused" ELSE state
  /\ UNCHANGED <<elf, calls>>

(* One turn of the loop of process_map_elf: every header, whatever its     *)
(* type, with the size in memory.                                          *)
process_map_elf ==
  /\ state = "loaded" /\ elf.filetype = "ELF" /\ mapped < Len(elf.headers)
  /\ LET h == elf.headers[mapped + 1]
     IN  process_map(h.p_vaddr, elf_phdr_phys_address(elf.memory, h), h.p_memsz,
                     Writable(h.p_write))
  /\ mapped' = mapped + 1
  /\ state' = IF Refused THEN "refused" ELSE state
  /\ UNCHANGED <<elf, calls>>

process_map_binary ==
  /\ state = "loaded" /\ elf.filetype = "BINARY" /\ mapped = 0
  /\ process_map(ProgramAddress, elf.memory, elf.size, Writable(TRUE))
  /\ mapped' = 1
  /\ state' = IF Refused THEN "refused" ELSE state
  /\ UNCHANGED <<elf, calls>>

(* The end of process_map_memory: the stack.  The result of this mapping   *)
(* is not looked at, and the process runs.                                 *)
process_map_memory(stack) ==
  /\ state = "loaded"
  /\ mapped = IF elf.filetype = "ELF" THEN Len(elf.headers) ELSE 1
  /\ process_map(StackAddress, stack, StackSize, Writable(TRUE))
  /\ state' = "running"
  /\ UNCHANGED <<elf, mapped, calls>>

(* What the process does then: process_malloc maps a piece of the heap to  *)
(* itself, process_free takes all flags from such a piece, and system      *)
(* calls borrow a page of the heap.                                        *)
process_remap(ptr, size, flags) ==
  /\ state = "running" /\ calls < MaxCalls
  /\ process_map(ptr, ptr, size, flags)
  /\ calls' = calls + 1
  /\ UNCHANGED <<elf, mapped, state>>

Borrow(tmp) ==
  /\ state = "running"
  /\ copy_string_from_task(tmp, Writable(TRUE))
  /\ UNCHANGED <<elf, mapped, state, calls>>

ENext ==
  \/ /\ state = "empty"
     /\ \E header \in Headers, memory \in Heap :
          \/ \E headers \in Layouts : process_load_elf(header, headers, memory)
          \/ \E size \in 1 .. MaxSize :
               process_load_binary(header, memory, size)
  \/ process_map_elf
  \/ process_map_binary
  \/ \E stack \in Heap : process_map_memory(stack)
  \/ \E ptr \in Heap, size \in 1 .. MaxSize, flags \in {0, Writable(TRUE)} :
       process_remap(ptr, size, flags)
  \/ \E tmp \in Heap : Borrow(tmp)

ESpec == EInit /\ [][ENext]_evars

-----------------------------------------------------------------------------
(* Type invariant of the loader.                                           *)
ETypeOK ==
  /\ TypeOK
  /\ state \in {"empty", "loaded", "running", "refused"}
  /\ elf = <<>> \/ (elf.filetype = "ELF" => mapped \in 0 .. Len(elf.headers))

(* A program that runs finds every byte of every segment at the address    *)
(* the linker gave it, and of a raw binary from ProgramAddress on, however *)
(* its segments lie in the pages and whatever order they were mapped in;   *)
(* it can write a segment exactly if the segment says so (PF_W); the stack *)
(* has taken no page of the program.                                       *)
ImageMapped ==
  (state = "running" /\ elf # <<>>) =>
    IF elf.filetype = "BINARY"
      THEN \A k \in 0 .. (elf.size - 1) :
             paging_get_physical_address(directory, ProgramAddress + k) = elf.memory + k
      ELSE \A i \in DOMAIN elf.headers :
             LET h == elf.headers[i]
             IN  /\ \A k \in 0 .. (h.p_memsz - 1) :
                      paging_get_physical_address(directory, h.p_vaddr + k)
                        = elf.memory + h.p_offset + k
                 /\ \A x \in PagesOf(h) : Walk(x) % PageSize = Writable(h.p_write)

(* "Virtual address of the first loadable section in memory" (struct       *)
(* elf_file) and "Ending virtual address": the bounds are the lowest start *)
(* and the highest end over the PT_LOAD headers in any order, and the      *)
(* physical ones are the same bytes of the file.                           *)
LoadBounds ==
  (elf # <<>> /\ elf.filetype = "ELF") =>
    LET loads == {elf.headers[i] : i \in {j \in DOMAIN elf.headers :
                                            elf.headers[j].p_type = "PT_LOAD"}}
    IN  loads # {} =>
          /\ \A h \in loads : elf.vbase <= h.p_vaddr /\ h.p_vaddr + h.p_filesz <= elf.vend
          /\ \E h \in loads : /\ elf.vbase = h.p_vaddr
                              /\ elf.pbase = elf.memory + h.p_offset
          /\ \E h \in loads : /\ elf.vend = h.p_vaddr + h.p_filesz
                              /\ elf.pend = elf.memory + h.p_offset + h.p_filesz
=============================================================================
