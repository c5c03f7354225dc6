----------------------------- MODULE FatVolume -----------------------------
(***************************************************************************)
(* Reading a FAT16 volume: the names, the directories and the cluster      *)
(* chains of src/fs/fat/fat16.c and the sector reads of                    *)
(* src/disk/streamer.c.  What a byte of a file holds does not matter, only *)
(* which byte of the disk it is, so a buffer is the sequence of the disk   *)
(* positions it was read from.                                             *)
(***************************************************************************)
EXTENDS PathParser, FiniteSets

CONSTANTS
  SectorSize,         \* PEACHOS_SECTOR_SIZE, in bytes
  SectorsPerCluster,  \* sectors_per_cluster of the header
  FatSector,          \* reserved_sectors: the first FAT starts there
  DataSector,         \* root_directory.ending_sector_pos: cluster 2 is there
  Fat,                \* the FAT: a function from cluster numbers to entries
  Elsewhere,          \* a 16-bit word of the disk that is not in the FAT
  ItemSize,           \* sizeof(struct fat_directory_item)
  NameSize, ExtSize,  \* sizes of its fields filename and ext
  Root,               \* the items of the root directory, in disk order, up to
                      \* the one whose name starts with 0:
                      \* [filename, ext, attribute, first, size]
  Items,              \* the items found from the start of a cluster on
  NULL,
  WILD,               \* an item in memory that was freed, or is no item
  NullIsFile          \* the word at address 4, where a null item would have its
                      \* type, is not 0: the BIOS keeps an interrupt vector there

ASSUME VolumeAssumption ==
  /\ SectorSize \in Nat \ {0} /\ SectorsPerCluster \in Nat \ {0}
  /\ FatSector \in Nat \ {0} /\ DataSector \in Nat
  /\ Elsewhere \in Nat /\ ItemSize \in Nat \ {0}
  /\ NameSize \in Nat \ {0} /\ ExtSize \in Nat \ {0} /\ NullIsFile \in BOOLEAN
  /\ DOMAIN Fat \subseteq Nat /\ \A c \in DOMAIN Fat : Fat[c] \in Nat

EIO == -1
EntrySize == 2                             \* PEACHOS_FAT16_FAT_ENTRY_SIZE
ClusterSize == SectorsPerCluster * SectorSize

(* The entries that end a chain in fat16_get_cluster_for_offset: end of    *)
(* file, bad, reserved and free.                                           *)
Stops == {4088, 4095, 4087, 4080, 4086, 0}

(* Seeded fault: buf is copied from its start, not from offset.            *)
diskstreamer_read_NoOffset(pos, total) ==
  [i \in 1 .. total |-> (pos \div SectorSize) * SectorSize + (i - 1)]

(* diskstreamer_read: one sector into buf, the part of it that was asked   *)
(* for into out, then the rest from the next sector.  The stream is at p   *)
(* when t bytes are left to read.                                          *)
diskstreamer_read(pos, total) ==
  LET read[t \in 0 .. total] ==
        LET p == pos + (total - t)
            offset == p % SectorSize
            overflow == offset + t >= SectorSize
            n == IF overflow THEN t - ((offset + t) - SectorSize) ELSE t
            out == [i \in 1 .. n |-> (p \div SectorSize) * SectorSize + offset + (i - 1)]
        IN  IF overflow THEN out \o read[t - n] ELSE out
  IN  read[total]

fat16_cluster_to_sector(cluster) == DataSector + (cluster - 2) * SectorsPerCluster

(* The word of the disk at byte pos.                                       *)
Word(pos) ==
  LET cell == {c \in DOMAIN Fat : pos = FatSector * SectorSize + c * EntrySize}
  IN  IF cell = {} THEN Elsewhere ELSE Fat[CHOOSE c \in cell : TRUE]

fat16_get_fat_entry(cluster) ==
  Word((FatSector * SectorSize) * (cluster * EntrySize))

fat16_get_cluster_for_offset(starting_cluster, offset) ==
  LET cluster_to_use[i \in 0 .. (offset \div ClusterSize)] ==
        IF i = 0 THEN starting_cluster
        ELSE LET entry == fat16_get_fat_entry(cluster_to_use[i - 1])
             IN  IF cluster_to_use[i - 1] = EIO \/ entry \in Stops THEN EIO ELSE entry
  IN  cluster_to_use[offset \div ClusterSize]

(* fat16_read_internal: the bytes read up to the end or the first error.   *)
(* The next cluster is read at offset o when t bytes are left.             *)
fat16_read_internal(cluster, offset, total) ==
  LET read[t \in 0 .. total] ==
        LET o == offset + (total - t)
            use == fat16_get_cluster_for_offset(cluster, o)
            pos == fat16_cluster_to_sector(use) * SectorSize + (o % ClusterSize)
            n == IF t > ClusterSize THEN ClusterSize ELSE t
        IN  IF use < 0 THEN [res |-> use, out |-> <<>>]
            ELSE LET here == diskstreamer_read(pos, n)
                     rest == read[t - n]
                 IN  IF t = n THEN [res |-> 0, out |-> here]
                     ELSE [rest EXCEPT !.out = here \o @]
  IN  read[total]

-----------------------------------------------------------------------------
Deleted(item) == item.filename[1] = 229                         \* 0xE5
IsDirectory(item) == "SUBDIRECTORY" \in item.attribute

(* The directories of the volume and the items in them.  Every directory   *)
(* is a list of items, and an item that is a directory leads to one.       *)
Directories == {Root} \cup {Items[c] : c \in DOMAIN Items}
OnDisk == UNION {{items[i] : i \in DOMAIN items} : items \in Directories}

ASSUME DirectoriesAssumption ==
  /\ \A items \in Directories : items \in Seq(OnDisk)
  /\ NULL \notin OnDisk /\ WILD \notin OnDisk
  /\ \A item \in OnDisk : IsDirectory(item) => item.first \in DOMAIN Items

(* The characters of a field up to its padding.                            *)
fat16_to_proper_string(in, size) ==
  LET stops == {i \in 1 .. size : in[i] \in {0, 32}} \cup {size + 1}
  IN  SubSeq(in, 1, Least(stops) - 1)

fat16_get_full_relative_filename(item) ==
  LET name == fat16_to_proper_string(item.filename, NameSize)
  IN  IF item.ext[1] \in {0, 32} THEN name
      ELSE name \o <<DOT>> \o fat16_to_proper_string(item.ext, ExtSize)

fat16_get_total_items_for_directory(items) ==
  Cardinality({i \in DOMAIN items : ~Deleted(items[i])})

(* fat16_load_fat_directory can read the whole directory.  If it cannot,   *)
(* it frees what it has read and returns the address of that.              *)
fat16_load_fat_directory(item) ==
  LET size == fat16_get_total_items_for_directory(Items[item.first]) * ItemSize
  IN  fat16_read_internal(item.first, 0, size).res = 0

fat16_new_fat_item_for_directory_item(item) ==
  IF IsDirectory(item) /\ ~fat16_load_fat_directory(item) THEN WILD ELSE item

(* The last item of that name among the first total ones.                  *)
fat16_find_item_in_directory(items, name) ==
  LET total == fat16_get_total_items_for_directory(items)
      found == {i \in 1 .. total :
                  istrncmp(fat16_get_full_relative_filename(items[i]), name, MaxPath) = 0}
  IN  IF found = {} THEN NULL
      ELSE fat16_new_fat_item_for_directory_item(
             items[CHOOSE i \in found : \A j \in found : j <= i])

(* The items that the search for a part in the item before it may return.  *)
(* In a null item the type is whatever is at its address.                  *)
Step(item, name) ==
  IF item = WILD THEN {NULL, WILD}
  ELSE IF item = NULL THEN {NULL} \cup (IF NullIsFile THEN {} ELSE {WILD})
  ELSE IF ~IsDirectory(item) THEN {NULL}
  ELSE {fat16_find_item_in_directory(Items[item.first], name)}

fat16_get_directory_entry(parts) ==
  LET current_item[n \in 1 .. Len(parts)] ==
        IF n = 1 THEN {fat16_find_item_in_directory(Root, parts[1])}
        ELSE IF current_item[1] = {NULL} THEN {NULL}
        ELSE UNION {Step(item, parts[n]) : item \in current_item[n - 1]}
  IN  current_item[Len(parts)]

-----------------------------------------------------------------------------
(* The reference for contents: what FAT16 says byte i (from 0) of a file   *)
(* is.                                                                     *)
ContentByte(item, i) ==
  LET cluster[n \in 0 .. (i \div ClusterSize)] ==
        IF n = 0 THEN item.first ELSE Fat[cluster[n - 1]]
  IN  fat16_cluster_to_sector(cluster[i \div ClusterSize]) * SectorSize + (i % ClusterSize)

Content(item, offset, length) ==
  [k \in 1 .. length |-> ContentByte(item, offset + k - 1)]

(* The reference for names: the name a user sees, in small letters, and    *)
(* the items that a path leads to, one directory after the other.  Deleted *)
(* items, labels and the pieces of long names have no such name.           *)
Lowered(s) == [i \in DOMAIN s |-> tolower(s[i])]

Shown(item) ==
  LET trim(s) == SelectSeq(s, LAMBDA c : c \notin {0, 32})
      dot == IF trim(item.ext) = <<>> THEN <<>> ELSE <<DOT>>
  IN  Lowered(trim(item.filename) \o dot \o trim(item.ext))

Entries(items) ==
  {items[i] : i \in {j \in DOMAIN items : /\ ~Deleted(items[j])
                                          /\ "VOLUME_LABEL" \notin items[j].attribute}}

(* The directory that a chain of items, each in the one before it, ends    *)
(* in, and the chains of up to depth items from the root.                  *)
Inside(chain) ==
  IF chain = <<>> \/ chain[Len(chain)].first = 0 THEN Root ELSE Items[chain[Len(chain)].first]

Chains(depth) ==
  LET chains[n \in 0 .. depth] ==
        IF n = 0 THEN {<<>>}
        ELSE UNION {{Append(chain, item) : item \in Entries(Inside(chain))} :
                      chain \in {c \in chains[n - 1] : c = <<>> \/ IsDirectory(c[Len(c)])}}
  IN  chains

ShownNames(chain) == [n \in DOMAIN chain |-> Shown(chain[n])]

Depth(path) == Cardinality({i \in DOMAIN path : path[i] = SLASH})

Named(path) ==
  {chain[Len(chain)] : chain \in
     {c \in UNION {Chains(Depth(path))[n] : n \in 1 .. Depth(path)} :
        IsPathOf(Lowered(path), 0, ShownNames(c))}}
=============================================================================
