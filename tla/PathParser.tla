----------------------------- MODULE PathParser -----------------------------
(***************************************************************************)
(* Paths such as 0:/bin/shell.elf: src/fs/pparser.c, and the comparisons   *)
(* of src/string/string.c.  A string is the sequence of its ASCII codes    *)
(* before the terminating zero.                                            *)
(***************************************************************************)
EXTENDS Integers, Sequences

CONSTANT MaxPath     \* PEACHOS_MAX_PATH

ASSUME PathAssumption == MaxPath \in Nat \ {0}

SLASH == 47
COLON == 58
DOT == 46

Least(S) == CHOOSE i \in S : \A j \in S : i <= j

strnlen(s, max) == IF Len(s) < max THEN Len(s) ELSE max
isdigit(c) == c \in 48 .. 57
tonumericdigit(c) == c - 48
tolower(c) == IF c \in 65 .. 90 THEN c + 32 ELSE c

(* The difference at the first characters, among the first n, that differ  *)
(* other than in case; 0 if there are none before the end of the strings.  *)
istrncmp(s1, s2, n) ==
  LET at(s, i) == IF i <= Len(s) THEN s[i] ELSE 0
      differ == {i \in 1 .. n : tolower(at(s1, i)) # tolower(at(s2, i))}
      end == {i \in 1 .. n : at(s1, i) = 0}
  IN  IF differ = {} \/ (\E i \in end : i < Least(differ)) THEN 0
      ELSE at(s1, Least(differ)) - at(s2, Least(differ))

-----------------------------------------------------------------------------
pathparser_path_valid_format(filename) ==
  /\ strnlen(filename, MaxPath) >= 3
  /\ isdigit(filename[1]) /\ filename[2] = COLON /\ filename[3] = SLASH

(* Seeded fault: the slash is left for the next part.                      *)
pathparser_get_path_part_KeepsSlash(path, i) ==
  LET end == Least({j \in i .. Len(path) : path[j] = SLASH} \cup {Len(path) + 1})
  IN  [part |-> SubSeq(path, i, end - 1), next |-> end]

(* The part of path from position i, and where the next one begins.        *)
pathparser_get_path_part(path, i) ==
  LET end == Least({j \in i .. Len(path) : path[j] = SLASH} \cup {Len(path) + 1})
  IN  [part |-> SubSeq(path, i, end - 1),
       next |-> IF end > Len(path) THEN end ELSE end + 1]

(* The list of parts from position i on: it ends at the first empty one.   *)
pathparser_parse_path_part(path, i) ==
  LET parts[k \in 1 .. (Len(path) + 1)] ==
        LET here == pathparser_get_path_part(path, k)
        IN  IF here.part = <<>> THEN <<>> ELSE <<here.part>> \o parts[here.next]
  IN  parts[i]

NoPath == [drive_no |-> -1, parts |-> <<>>]        \* a null struct path_root

(* Parts <<>> is a null first part.                                        *)
pathparser_parse(path) ==
  IF Len(path) > MaxPath \/ ~pathparser_path_valid_format(path) THEN NoPath
  ELSE [drive_no |-> tonumericdigit(path[1]), parts |-> pathparser_parse_path_part(path, 4)]

-----------------------------------------------------------------------------
(* The reference: the paths that are a drive and parts with one slash      *)
(* between two of them, and perhaps one at the end.                        *)
Join(drive_no, parts) ==
  LET text[n \in 0 .. Len(parts)] ==
        IF n = 0 THEN <<drive_no + 48, COLON>> ELSE text[n - 1] \o <<SLASH>> \o parts[n]
  IN  text[Len(parts)]

IsPathOf(path, drive_no, parts) ==
  /\ parts # <<>> /\ \A n \in DOMAIN parts : parts[n] # <<>>
  /\ path \in {Join(drive_no, parts), Join(drive_no, parts) \o <<SLASH>>}
=============================================================================
