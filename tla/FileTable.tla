----------------------------- MODULE FileTable -----------------------------
(***************************************************************************)
(* The file descriptor table of src/fs/file.c over the FAT16 driver        *)
(* (src/fs/fat/fat16.c), from the moment the disk is searched for a file   *)
(* system.  Every entry of the table leads to a private descriptor of the  *)
(* driver, allocated on the heap, that knows the item and the position.    *)
(***************************************************************************)
EXTENDS FatVolume

CONSTANTS
  MaxDescriptors,  \* PEACHOS_MAX_FILE_DESCRIPTORS
  Privates,        \* the driver's descriptors the heap has room for
  Signatures,      \* bytes the boot sector may have where FAT16 has 0x29
  Paths, Modes,    \* arguments of fopen
  Offsets, Whence, \* arguments of fseek
  Sizes, Members,  \* arguments of fread
  MaxPos           \* bound: no seek goes beyond this position

ASSUME FileTableAssumption ==
  /\ MaxDescriptors \in Nat \ {0} /\ NULL \notin Privates /\ WILD # NULL
  /\ Signatures \subseteq 0 .. 255 /\ Paths \subseteq Seq(1 .. 255) /\ MaxPos \in Nat
  /\ Offsets \subseteq Nat /\ Sizes \cup Members \subseteq Nat \ {0}
  /\ Whence \subseteq {"SEEK_SET", "SEEK_CUR", "SEEK_END"}

VARIABLES
  filesystem,        \* disk.filesystem: "unset", "none" or "fat16"
  file_descriptors,  \* slot fd - 1 of the table, as fd -> private or NULL
  fat_desc,          \* private -> [item, pos]; item NULL: it is not allocated
  last               \* history: the last call and what came of it

vars == <<filesystem, file_descriptors, fat_desc, last>>

Slots == 1 .. MaxDescriptors
Unused == [item |-> NULL, pos |-> 0]
Unallocated == {d \in Privates : fat_desc[d] = Unused}
Call(op, fd, res) == [op |-> op, fd |-> fd, res |-> res]

(* The slot file_new_descriptor takes: the first that is empty.            *)
file_new_descriptor(fd) ==
  file_descriptors[fd] = NULL /\ \A i \in 1 .. (fd - 1) : file_descriptors[i] # NULL

file_get_descriptor(fd) ==
  IF fd <= 0 \/ fd >= MaxDescriptors THEN NULL ELSE file_descriptors[fd]

-----------------------------------------------------------------------------
Init ==
  /\ filesystem = "unset"
  /\ file_descriptors = [fd \in Slots |-> NULL]
  /\ fat_desc = [d \in Privates |-> Unused]
  /\ last = Call("fs_init", 0, 0)

EFSNOTUS == -5

(* The one disk there is answers every read, so that only the signature of *)
(* the boot sector decides.                                                *)
fat16_resolve(signature) == IF signature # 41 THEN EFSNOTUS ELSE 0

(* fs_resolve asks the file systems in turn; FAT16 is the only one.        *)
disk_search_and_init(signature) ==
  /\ filesystem = "unset"
  /\ filesystem' = IF fat16_resolve(signature) = 0 THEN "fat16" ELSE "none"
  /\ last' = Call("disk_search_and_init", 0, fat16_resolve(signature))
  /\ UNCHANGED <<file_descriptors, fat_desc>>

disk_get(index) == index = 0

file_get_mode_by_string(str) ==
  CASE str = "r" -> "FILE_MODE_READ"
    [] str = "w" -> "FILE_MODE_WRITE"
    [] str = "a" -> "FILE_MODE_APPEND"
    [] OTHER -> "FILE_MODE_INVALID"

(* fopen and fat16_open get as far as searching the directories.           *)
Searches(path, mode) ==
  LET root_path == pathparser_parse(path)
  IN  /\ root_path # NoPath /\ root_path.parts # <<>>
      /\ disk_get(root_path.drive_no) /\ filesystem = "fat16"
      /\ file_get_mode_by_string(mode) = "FILE_MODE_READ"
      /\ Unallocated # {}

(* The items the search for a path may end with: the volume never changes. *)
Entry == [path \in {p \in Paths : pathparser_parse(p).parts # <<>>} |->
            fat16_get_directory_entry(pathparser_parse(path).parts)]

(* The items fopen may end up with; NULL: none.                            *)
Results(path, mode) == IF Searches(path, mode) THEN Entry[path] ELSE {NULL}

Opened(path, mode, fd) == [op |-> "fopen", fd |-> fd, res |-> fd, path |-> path, mode |-> mode]

(* fopen of an item that exists.  If no slot is empty, fopen returns 0 and *)
(* the memory of the driver's descriptor is lost.                          *)
fopen(path, mode) ==
  \E item \in Results(path, mode) \ {NULL}, d \in Unallocated :
    /\ fat_desc' = [fat_desc EXCEPT ![d].item = item]
    /\ IF \E fd \in Slots : file_new_descriptor(fd)
         THEN \E fd \in Slots :
                /\ file_new_descriptor(fd)
                /\ file_descriptors' = [file_descriptors EXCEPT ![fd] = d]
                /\ last' = Opened(path, mode, fd)
         ELSE /\ last' = Opened(path, mode, 0)
              /\ UNCHANGED file_descriptors
    /\ UNCHANGED filesystem

(* fopen returns 0 before there is an item: a bad path, another drive, no  *)
(* file system, another mode, no memory, or nothing of that name.          *)
fopen_fails(path, mode) ==
  /\ filesystem # "unset"
  /\ NULL \in Results(path, mode)
  /\ last' = Opened(path, mode, 0)
  /\ UNCHANGED <<filesystem, file_descriptors, fat_desc>>

(* Seeded fault: fclose returns without emptying the slot.                 *)
file_free_descriptor_Keeps(fd) == UNCHANGED file_descriptors

file_free_descriptor(fd) == file_descriptors' = [file_descriptors EXCEPT ![fd] = NULL]

fclose(fd) ==
  LET d == file_get_descriptor(fd)
  IN  /\ d # NULL
      /\ fat_desc' = [fat_desc EXCEPT ![d] = Unused]               \* fat16_close
      /\ file_free_descriptor(fd)
      /\ last' = Call("fclose", fd, 0)
      /\ UNCHANGED filesystem

(* The new position, or EIO if fat16_seek returns an error.                *)
fat16_seek(d, offset, whence) ==
  LET item == fat_desc[d].item
  IN  IF IsDirectory(item) \/ offset >= item.size \/ whence = "SEEK_END" THEN EIO
      ELSE offset + (IF whence = "SEEK_CUR" THEN fat_desc[d].pos ELSE 0)

(* Seeded fault: the error becomes the position.                           *)
fseek_StoresError(fd, offset, whence) ==
  LET d == file_get_descriptor(fd)
  IN  /\ d # NULL
      /\ fat_desc' = [fat_desc EXCEPT ![d].pos = fat16_seek(d, offset, whence)]
      /\ last' = Call("fseek", fd, 0)
      /\ UNCHANGED <<filesystem, file_descriptors>>

fseek(fd, offset, whence) ==
  LET d == file_get_descriptor(fd)
      pos == fat16_seek(d, offset, whence)
  IN  /\ d # NULL
      /\ pos <= MaxPos
      /\ fat_desc' = [fat_desc EXCEPT ![d].pos = IF pos = EIO THEN @ ELSE pos]
      /\ last' = Call("fseek", fd, IF pos = EIO THEN EIO ELSE 0)
      /\ UNCHANGED <<filesystem, file_descriptors>>

(* fat16_read: nmemb times size bytes; the position does not move.         *)
fat16_read(d, size, nmemb) ==
  LET item == fat_desc[d].item
      read[i \in 0 .. nmemb] ==
        IF i = 0 THEN [res |-> 0, out |-> <<>>]
        ELSE LET before == read[i - 1]
                 now == fat16_read_internal(item.first, fat_desc[d].pos + (i - 1) * size, size)
             IN  IF before.res < 0 THEN before
                 ELSE [res |-> now.res, out |-> before.out \o now.out]
  IN  IF read[nmemb].res < 0 THEN read[nmemb] ELSE [read[nmemb] EXCEPT !.res = nmemb]

(* fread of a file; the callers have asked fstat that it is one.           *)
fread(fd, size, nmemb) ==
  LET d == file_get_descriptor(fd)
      read == fat16_read(d, size, nmemb)
  IN  /\ d # NULL /\ ~IsDirectory(fat_desc[d].item)
      /\ last' = [op |-> "fread", fd |-> fd, res |-> read.res, nmemb |-> nmemb,
                  length |-> size * nmemb, out |-> read.out]
      /\ UNCHANGED <<filesystem, file_descriptors, fat_desc>>

fstat(fd) ==
  LET d == file_get_descriptor(fd)
  IN  /\ d # NULL
      /\ last' = Call("fstat", fd, IF IsDirectory(fat_desc[d].item) THEN EIO ELSE 0)
      /\ UNCHANGED <<filesystem, file_descriptors, fat_desc>>

(* Any call with a descriptor that file_get_descriptor does not know.      *)
BadDescriptor(fd) ==
  /\ filesystem # "unset" /\ file_get_descriptor(fd) = NULL
  /\ last' = Call("bad", fd, EIO)
  /\ UNCHANGED <<filesystem, file_descriptors, fat_desc>>

Next ==
  \/ \E signature \in Signatures : disk_search_and_init(signature)
  \/ \E path \in Paths, mode \in Modes : fopen(path, mode) \/ fopen_fails(path, mode)
  \/ \E fd \in Slots : fclose(fd) \/ fstat(fd)
  \/ \E fd \in 0 .. (MaxDescriptors + 1) : BadDescriptor(fd)
  \/ \E fd \in Slots, offset \in Offsets, whence \in Whence : fseek(fd, offset, whence)
  \/ \E fd \in Slots, size \in Sizes, nmemb \in Members : fread(fd, size, nmemb)

Spec == Init /\ [][Next]_vars

-----------------------------------------------------------------------------
Open == {fd \in Slots : file_descriptors[fd] # NULL}
Item(fd) == fat_desc[file_descriptors[fd]].item

(* Type invariant of the table and of the driver's descriptors.            *)
TypeOK ==
  /\ filesystem \in {"unset", "none", "fat16"}
  /\ file_descriptors \in [Slots -> Privates \cup {NULL}]
  /\ fat_desc \in [Privates -> [item : OnDisk \cup {NULL, WILD}, pos : 0 .. MaxPos]]

(* Every open descriptor leads to an allocated descriptor of the driver,   *)
(* to its own, and to an item that is in memory: no sequence of opens and  *)
(* closes, of whatever paths, also when slots and memory are reused,       *)
(* leaves one that leads to freed memory, or two that share a position.    *)
OwnDescriptor ==
  /\ \A fd \in Open : Item(fd) \notin {NULL, WILD}
  /\ \A fd, other \in Open : file_descriptors[fd] = file_descriptors[other] => fd = other

(* "If more than a sector, we have to go back to the FAT table and get the *)
(* address of the next sector as well" (fat16_read_internal_from_stream):  *)
(* fread of bytes that are in the file succeeds and returns those bytes,   *)
(* whichever sectors and clusters they are in.                             *)
ReadsFile ==
  last.op = "fread" =>
    LET pos == fat_desc[file_descriptors[last.fd]].pos
    IN  pos + last.length <= Item(last.fd).size =>
          last.res = last.nmemb /\ last.out = Content(Item(last.fd), pos, last.length)

(* "Check: if offset is valid" (fat16_seek): the position of an open file  *)
(* is a byte of it, after any sequence of seeks.                           *)
PositionInFile ==
  \A fd \in Open : ~IsDirectory(Item(fd)) =>
    fat_desc[file_descriptors[fd]].pos < Item(fd).size

Target == [path \in Paths |-> Named(path)]

(* fopen opens exactly what its path names.  If a path of drive 0, with    *)
(* single slashes, leads from directory to directory to an item, in small  *)
(* or capital letters, and is not too long, fopen for reading opens that   *)
(* item at position 0, if there are memory and an empty slot; for every    *)
(* other such path it returns 0 and opens nothing.                         *)
OpensWhatPathNames ==
  [][\A path \in Paths :
       last'.op = "fopen" /\ last'.path = path
         /\ (\A i \in 2 .. Len(path) : ~(path[i - 1] = SLASH /\ path[i] = SLASH))
       => IF /\ Target[path] # {} /\ Len(path) <= MaxPath /\ last'.mode = "r"
             /\ filesystem = "fat16" /\ Unallocated # {}
             /\ \E fd \in Slots : file_descriptors[fd] = NULL
            THEN /\ last'.res # 0 /\ file_descriptors[last'.res] = NULL
                 /\ \E item \in Target[path] :
                      fat_desc'[file_descriptors'[last'.res]] = [item |-> item, pos |-> 0]
            ELSE last'.res = 0 /\ file_descriptors' = file_descriptors]_vars

(* "this will get us the whole descriptor, given the index in the file     *)
(* descriptor table" (file_get_descriptor): a descriptor that fopen has    *)
(* issued can be read and closed.                                          *)
IssuedIsKnown == \A fd \in Open : file_get_descriptor(fd) # NULL
=============================================================================
