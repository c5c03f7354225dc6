---------------------------- MODULE MCFileTable ----------------------------
(* Volumes for model checking FileTable: two-byte sectors, clusters of two *)
(* sectors, a FAT from byte 6, data from byte 16; names of two characters  *)
(* and one more.                                                           *)
EXTENDS FileTable, TLC

EOC == 65535     \* end of a chain, as mkfs.vfat writes it

DirectoryItem(name, ext, attribute, first, size) ==
  [filename |-> name, ext |-> ext, attribute |-> attribute, first |-> first, size |-> size]
File(name, ext, first, size) == DirectoryItem(name, ext, {"ARCHIVED"}, first, size)
Directory(name, first) == DirectoryItem(name, <<32>>, {"SUBDIRECTORY"}, first, 0)
Long(c) == DirectoryItem(<<65, c>>, <<0>>, {"VOLUME_LABEL"}, 0, EOC)  \* "A", then a long name
Self(cluster) == Directory(<<46, 32>>, cluster)
Above(cluster) == Directory(<<46, 46>>, cluster)

(* A.X, AB.X, the directory D, in it the directory E and in that AB; every *)
(* file and directory in one cluster, as in the image the Makefile builds. *)
SmallFat == [c \in 2 .. 6 |-> EOC]
SmallRoot == <<File(<<65, 32>>, <<88>>, 2, 4), Long(100), Directory(<<68, 32>>, 3),
               File(<<65, 66>>, <<88>>, 4, 3)>>
SmallItems == (0 :> <<>>) @@ (3 :> <<Self(3), Above(0), Directory(<<69, 32>>, 6)>>)
                          @@ (6 :> <<Self(6), Above(3), File(<<65, 66>>, <<32>>, 5, 2)>>)

(* 0:/ and p *)
On0(p) == <<48, 58, 47>> \o p

(* a.x, AB.X, ab, D/e/, d/e/AB, d/./e, d/e/../e, d/z, d/z/e, a.x/e, d/e//e, *)
(* the empty path, one that is too long, another drive, no drive.          *)
SmallPaths ==
  {On0(p) : p \in {<<97, 46, 120>>, <<65, 66, 46, 88>>, <<97, 98>>,
                   <<68, 47, 101, 47>>, <<100, 47, 101, 47, 65, 66>>,
                   <<100, 47, 46, 47, 101>>, <<100, 47, 101, 47, 46, 46, 47, 101>>,
                   <<100, 47, 122>>, <<100, 47, 122, 47, 101>>, <<97, 46, 120, 47, 101>>,
                   <<100, 47, 101, 47, 47, 101>>, <<>>, <<100, 47, 46, 47, 46, 47, 46, 47, 101>>}}
  \cup {<<49, 58, 47, 97, 46, 120>>, <<97, 46, 120>>, <<48, 58>>}

(* The addresses of the driver's descriptors are interchangeable.          *)
Addresses == Permutations(Privates)

(* Other volumes and paths, for the disagreements of the README.           *)
(* A file in the clusters 2 and 4.                                         *)
ChainFat == [c \in 2 .. 6 |-> IF c = 2 THEN 4 ELSE EOC]
ChainRoot == <<File(<<65, 32>>, <<88>>, 2, 8), File(<<65, 66>>, <<88>>, 3, 4)>>

(* A file was deleted before another one.                                  *)
DeletedRoot == <<File(<<229, 32>>, <<88>>, 3, 4), File(<<65, 32>>, <<88>>, 2, 4)>>

(* A directory of five items, which need two clusters.                     *)
LongItems == (0 :> <<>>) @@
             (3 :> <<Self(3), Above(0), File(<<66, 32>>, <<32>>, 5, 2),
                     File(<<67, 32>>, <<32>>, 5, 2), File(<<68, 32>>, <<32>>, 5, 2)>>)

LongNamePaths == {On0(<<97, 100>>)}                          \* ad
ParentPaths == {On0(<<100, 47, 46, 46, 47, 97, 46, 120>>)}   \* d/../a.x
=============================================================================
