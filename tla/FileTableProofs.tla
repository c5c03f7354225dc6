--------------------------- MODULE FileTableProofs ---------------------------
(***************************************************************************)
(* The file descriptors, reading, the parser of paths and the search for   *)
(* an item, for every volume, every set of paths and every number of       *)
(* descriptors.                                                            *)
(***************************************************************************)
EXTENDS FileTable, Foundations, FiniteSetTheorems, SequenceTheorems

Text == Seq(1 .. 255)

(* The least element that the operators of string.c and pparser.c look     *)
(* for.                                                                    *)
LEMMA LeastElement ==
  ASSUME NEW T, T \subseteq Nat, T # {}
  PROVE  Least(T) \in T /\ \A j \in T : Least(T) <= j
BY NatMinimum DEF Least

(* A part that is not empty ends before the next one begins.               *)
LEMMA PathPart ==
  ASSUME NEW path \in Text, NEW i \in 1 .. (Len(path) + 1)
  PROVE  LET here == pathparser_get_path_part(path, i)
         IN  /\ here.part \in Text
             /\ here.part # <<>> => here.next \in (i + 1) .. (Len(path) + 1)
<1> DEFINE T == {j \in i .. Len(path) : path[j] = SLASH} \cup {Len(path) + 1}
           end == Least(T)
           here == pathparser_get_path_part(path, i)
<1>0. Len(path) \in Nat
  BY DEF Text
<1>1. T \subseteq Nat /\ T # {} /\ T \subseteq i .. (Len(path) + 1)
  BY <1>0
<1>2. end \in i .. (Len(path) + 1)
  <2> HIDE DEF T
  <2> QED BY <1>1, LeastElement
<1>3. here.part = SubSeq(path, i, end - 1) /\ here.next = IF end > Len(path) THEN end ELSE end + 1
  BY DEF pathparser_get_path_part
<1> HIDE DEF end, here
<1>4. /\ SubSeq(path, i, end - 1) \in Text
      /\ Len(SubSeq(path, i, end - 1)) = IF i <= end - 1 THEN end - 1 - i + 1 ELSE 0
  <2> DEFINE m == end - 1
  <2>1. i \in Int /\ m \in Int /\ \A k \in i .. m : k \in 1 .. Len(path)
    BY <1>0, <1>2
  <2> HIDE DEF m
  <2>2. \A k \in i .. m : path[k] \in 1 .. 255
    BY <2>1, ElementOfSeq DEF Text
  <2>3. /\ SubSeq(path, i, m) \in Seq(1 .. 255)
        /\ Len(SubSeq(path, i, m)) = IF i <= m THEN m - i + 1 ELSE 0
    BY <2>1, <2>2, SubSeqProperties
  <2> QED BY <2>3 DEF Text, m
<1>5. ASSUME here.part # <<>> PROVE here.next \in (i + 1) .. (Len(path) + 1)
  <2>1. i <= end - 1
    BY <1>3, <1>4, <1>5, EmptySeq DEF Text
  <2> QED BY <1>0, <1>2, <1>3, <2>1
<1> QED BY <1>3, <1>4, <1>5 DEF here

(* The parts of a path are a list of texts: the first one, and the parts   *)
(* from where the next one begins.                                         *)
LEMMA PathParts ==
  ASSUME NEW path \in Text, NEW i \in 1 .. (Len(path) + 1)
  PROVE  LET here == pathparser_get_path_part(path, i)
         IN  /\ pathparser_parse_path_part(path, i) \in Seq(Text)
             /\ pathparser_parse_path_part(path, i) =
                  IF here.part = <<>> THEN <<>>
                  ELSE <<here.part>> \o pathparser_parse_path_part(path, here.next)
<1> DEFINE n == Len(path) + 1
           S == Seq(Text)
           part(k) == pathparser_get_path_part(path, k).part
           stop == [k \in 1 .. n |-> part(k) = <<>>]
           further == [k \in 1 .. n |-> pathparser_get_path_part(path, k).next]
           step == [k \in 1 .. n |-> [x \in S |-> <<part(k)>> \o x]]
           Is(f) == f = [k \in 1 .. (Len(path) + 1) |->
                           LET here == pathparser_get_path_part(path, k)
                           IN  IF here.part = <<>> THEN <<>>
                               ELSE <<here.part>> \o f[here.next]]
           parts == CHOOSE f : Is(f)
<1>0. n \in Nat /\ <<>> \in S
  BY DEF Text
<1>1. ASSUME NEW k \in 1 .. n
      PROVE  part(k) \in Text /\ (~stop[k] => further[k] \in (k + 1) .. n)
  BY PathPart
<1>2. stop \in [1 .. n -> BOOLEAN]
  OBVIOUS
<1>3. step \in [1 .. n -> [S -> S]]
  <2>1. ASSUME NEW k \in 1 .. n, NEW x \in S PROVE <<part(k)>> \o x \in S
    <3>1. part(k) \in Text
      BY <1>1
    <3> HIDE DEF part
    <3>2. <<part(k)>> \in Seq(Text)
      BY <3>1
    <3> QED BY <3>2, ConcatProperties
  <2> HIDE DEF part, S
  <2> QED BY <2>1
<1>4. \A k \in 1 .. n : ~stop[k] => further[k] \in (k + 1) .. n
  BY <1>1
<1>5. PICK g : Descends(g, S, <<>>, stop, further, step, 1, n)
  <2> HIDE DEF S, n, stop, further, step
  <2> QED BY <1>0, <1>2, <1>3, <1>4, DescendingRecursion
<1>6. ASSUME NEW f, NEW k \in 1 .. n, ~stop[k] => f[further[k]] \in S
      PROVE  (IF stop[k] THEN <<>> ELSE step[k][f[further[k]]])
             = LET here == pathparser_get_path_part(path, k)
               IN  IF here.part = <<>> THEN <<>> ELSE <<here.part>> \o f[here.next]
  <2> HIDE DEF S
  <2> QED BY <1>6
<1>7. Is(g)
  <2>1. /\ g \in [1 .. n -> S]
        /\ \A k \in 1 .. n : g[k] = IF stop[k] THEN <<>> ELSE step[k][g[further[k]]]
    BY <1>5 DEF Descends
  <2>2. ASSUME NEW k \in 1 .. n
        PROVE  g[k] = LET here == pathparser_get_path_part(path, k)
                      IN  IF here.part = <<>> THEN <<>> ELSE <<here.part>> \o g[here.next]
    <3>1. ~stop[k] => g[further[k]] \in S
      <4>1. ~stop[k] => further[k] \in 1 .. n
        BY <1>0, <1>4
      <4> HIDE DEF stop, further, S
      <4> QED BY <2>1, <4>1
    <3> HIDE DEF stop, further, step, S
    <3> QED BY <1>6, <2>1, <3>1
  <2> QED BY <2>1, <2>2
<1>8. Is(parts)
  <2> HIDE DEF Is
  <2> QED BY <1>7
<1> HIDE DEF parts
<1>9. \A k : pathparser_parse_path_part(path, k) = parts[k]
  BY DEF pathparser_parse_path_part, parts
<1>10. ASSUME NEW k \in 1 .. n
       PROVE  parts[k] = IF stop[k] THEN <<>> ELSE <<part(k)>> \o parts[further[k]]
  BY <1>8
<1>11. \A k \in 1 .. n : parts[k] \in S
  <2> DEFINE T == {d \in Nat : d < n /\ parts[n - d] \notin S}
  <2>1. T = {}
    <3> SUFFICES ASSUME T # {} PROVE FALSE
      OBVIOUS
    <3>1. PICK d \in T : \A y \in T : d <= y
      <4>1. T \subseteq Nat
        OBVIOUS
      <4> HIDE DEF T
      <4> QED BY <4>1, NatMinimum
    <3> DEFINE k == n - d
               next == further[k]
    <3>2. k \in 1 .. n /\ parts[k] \notin S
      BY <1>0
    <3> HIDE DEF k
    <3>3. ~stop[k] /\ next \in (k + 1) .. n
      <4> HIDE DEF stop, further, S, part, n
      <4> QED BY <1>0, <1>4, <1>10, <3>2
    <3> HIDE DEF next
    <3>4. n - next \in Nat /\ n - next < n /\ n - (n - next) = next /\ n - next < d
      BY <1>0, <3>2, <3>3 DEF k
    <3> HIDE DEF n, S, stop, part
    <3>5. parts[next] \in S
      BY <3>1, <3>4
    <3>6. parts[k] = <<part(k)>> \o parts[next]
      BY <1>10, <3>2, <3>3 DEF next
    <3>7. <<part(k)>> \in Seq(Text)
      BY <1>1, <3>2
    <3> QED BY <3>2, <3>5, <3>6, <3>7, ConcatProperties DEF S
  <2>2. ASSUME NEW k \in 1 .. n PROVE parts[k] \in S
    <3>1. n - k \in Nat /\ n - k < n /\ n - (n - k) = k
      BY <1>0
    <3> QED BY <2>1, <3>1
  <2> QED BY <2>2
<1>12. i \in 1 .. n
  OBVIOUS
<1>13. parts[i] = IF part(i) = <<>> THEN <<>> ELSE <<part(i)>> \o parts[further[i]]
  BY <1>10, <1>12
<1>14. parts[i] \in Seq(Text)
  BY <1>11, <1>12
<1>15. further[i] = pathparser_get_path_part(path, i).next
  BY <1>12
<1> HIDE DEF further, stop, step, n, S
<1> QED BY <1>9, <1>13, <1>14, <1>15, Zenon

(* What a path is parsed into.                                             *)
LEMMA ParsedPath ==
  ASSUME NEW path \in Paths
  PROVE  pathparser_parse(path).parts \in Seq(Text)
<1>0. path \in Text
  BY FileTableAssumption DEF Text
<1>1. CASE Len(path) > MaxPath \/ ~pathparser_path_valid_format(path)
  BY <1>1 DEF pathparser_parse, NoPath
<1>2. CASE ~(Len(path) > MaxPath \/ ~pathparser_path_valid_format(path))
  <2>1. Len(path) \in Nat /\ MaxPath \in Nat
    BY <1>0, PathAssumption DEF Text
  <2>2. 4 \in 1 .. (Len(path) + 1)
    <3>1. strnlen(path, MaxPath) >= 3
      BY <1>2 DEF pathparser_path_valid_format
    <3> QED BY <2>1, <3>1 DEF strnlen
  <2>3. pathparser_parse(path).parts = pathparser_parse_path_part(path, 4)
    BY <1>2 DEF pathparser_parse
  <2> QED BY <1>0, <2>2, <2>3, PathParts
<1> QED BY <1>1, <1>2

-----------------------------------------------------------------------------
(* What the search in a directory may return: one of its items, nothing,   *)
(* or memory that was freed, and this only if some directory of the volume *)
(* cannot be read.                                                         *)
Findable == OnDisk \cup {NULL, WILD}

(* fat16_load_fat_directory can read every directory of the volume whole.  *)
Readable == \A item \in OnDisk : IsDirectory(item) => fat16_load_fat_directory(item)

(* A set of numbers up to n that is not empty has a greatest element.      *)
LEMMA Greatest ==
  ASSUME NEW n \in Nat, NEW T \in SUBSET (1 .. n), T # {}
  PROVE  \E i \in T : \A j \in T : j <= i
<1> DEFINE U == {n - i : i \in T}
<1>1. U \subseteq Nat /\ U # {}
  <2>1. \A i \in T : n - i \in Nat
    OBVIOUS
  <2>2. PICK i \in T : TRUE
    OBVIOUS
  <2>3. n - i \in U
    BY <2>2
  <2> QED BY <2>1, <2>3
<1>2. PICK d \in U : \A y \in U : d <= y
  <2> HIDE DEF U
  <2> QED BY <1>1, NatMinimum
<1>3. PICK i \in T : d = n - i
  OBVIOUS
<1>4. ASSUME NEW j \in T PROVE j <= i
  <2>1. i \in Int /\ j \in Int /\ n - j \in U
    OBVIOUS
  <2>2. n - i <= n - j
    BY <1>2, <1>3, <2>1
  <2> QED BY <2>1, <2>2
<1> QED BY <1>4

(* fat16_find_item_in_directory returns what can be found.                 *)
LEMMA FindItem ==
  ASSUME NEW items \in Directories, NEW name
  PROVE  /\ fat16_find_item_in_directory(items, name) \in Findable
         /\ Readable => fat16_find_item_in_directory(items, name) # WILD
<1> DEFINE kept == {i \in DOMAIN items : ~Deleted(items[i])}
           total == fat16_get_total_items_for_directory(items)
           found == {i \in 1 .. total :
                       istrncmp(fat16_get_full_relative_filename(items[i]), name, MaxPath) = 0}
           last_found == CHOOSE i \in found : \A j \in found : j <= i
           result == fat16_find_item_in_directory(items, name)
<1>1. items \in Seq(OnDisk)
  BY DirectoriesAssumption
<1>2. Len(items) \in Nat /\ DOMAIN items = 1 .. Len(items)
      /\ \A i \in 1 .. Len(items) : items[i] \in OnDisk
  BY <1>1, LenProperties, ElementOfSeq
<1>3. total \in Nat /\ total <= Len(items)
  <2>1. IsFiniteSet(1 .. Len(items)) /\ Cardinality(1 .. Len(items)) = Len(items)
    <3>1. 1 \in Int /\ Len(items) \in Int
      BY <1>2
    <3>2. /\ IsFiniteSet(1 .. Len(items))
          /\ Cardinality(1 .. Len(items)) = IF 1 > Len(items) THEN 0 ELSE Len(items) - 1 + 1
      BY <3>1, FS_Interval
    <3> QED BY <1>2, <3>2
  <2>2. kept \in SUBSET (1 .. Len(items))
    BY <1>2
  <2>3. total = Cardinality(kept)
    BY DEF fat16_get_total_items_for_directory
  <2> HIDE DEF kept
  <2>4. IsFiniteSet(kept) /\ Cardinality(kept) <= Cardinality(1 .. Len(items))
    BY <2>1, <2>2, FS_Subset
  <2>5. Cardinality(kept) \in Nat
    BY <2>4, FS_CardinalityType
  <2> QED BY <2>1, <2>3, <2>4, <2>5
<1> HIDE DEF total, kept
<1>4. CASE found = {}
  <2>1. result = NULL
    BY <1>4 DEF fat16_find_item_in_directory, total
  <2> HIDE DEF result
  <2>2. NULL # WILD
    BY FileTableAssumption
  <2> QED BY <2>1, <2>2 DEF Findable, result
<1>5. CASE found # {}
  <2>1. last_found \in found
    <3>1. found \in SUBSET (1 .. total)
      OBVIOUS
    <3> HIDE DEF found
    <3>2. \E i \in found : \A j \in found : j <= i
      BY <1>3, <1>5, <3>1, Greatest
    <3> QED BY <3>2
  <2>2. result = fat16_new_fat_item_for_directory_item(items[last_found])
    BY <1>5, Zenon DEF fat16_find_item_in_directory, total
  <2> HIDE DEF last_found, result
  <2>3. items[last_found] \in OnDisk
    <3>1. last_found \in 1 .. Len(items)
      BY <1>2, <1>3, <2>1
    <3> QED BY <1>2, <3>1
  <2>4. WILD \notin OnDisk
    BY DirectoriesAssumption
  <2>5. result \in Findable /\ (Readable => result # WILD)
    BY <2>2, <2>3, <2>4 DEF fat16_new_fat_item_for_directory_item, Findable, Readable
  <2> QED BY <2>5 DEF result
<1> QED BY <1>4, <1>5

(* So does the search for one part of a path in the item before it.        *)
LEMMA StepItem ==
  ASSUME NEW item \in Findable, NEW name
  PROVE  /\ Step(item, name) \subseteq Findable
         /\ Readable /\ NullIsFile /\ item # WILD => WILD \notin Step(item, name)
<1>0. NULL # WILD /\ NULL \in Findable /\ WILD \in Findable
  BY FileTableAssumption DEF Findable
<1>1. CASE item = WILD
  BY <1>0, <1>1 DEF Step
<1>2. CASE item # WILD /\ item = NULL
  BY <1>0, <1>2 DEF Step
<1>3. CASE item # WILD /\ item # NULL /\ ~IsDirectory(item)
  BY <1>0, <1>3 DEF Step
<1>4. CASE item # WILD /\ item # NULL /\ IsDirectory(item)
  <2>1. item \in OnDisk
    BY <1>4 DEF Findable
  <2>2. Items[item.first] \in Directories
    BY <1>4, <2>1, DirectoriesAssumption DEF Directories
  <2>3. Step(item, name) = {fat16_find_item_in_directory(Items[item.first], name)}
    BY <1>4 DEF Step
  <2> QED BY <2>2, <2>3, FindItem
<1> QED BY <1>1, <1>2, <1>3, <1>4

(* The items that the search for the parts of a path may have found after  *)
(* each part.                                                              *)
Searching(current_item, parts) ==
  /\ current_item[1] = {fat16_find_item_in_directory(Root, parts[1])}
  /\ \A n \in 2 .. Len(parts) :
       current_item[n] = IF current_item[1] = {NULL} THEN {NULL}
                         ELSE UNION {Step(item, parts[n]) : item \in current_item[n - 1]}

(* fat16_get_directory_entry is that search.                               *)
LEMMA SearchSteps ==
  ASSUME NEW parts \in Seq(Text), parts # <<>>
  PROVE  \E current_item : /\ Searching(current_item, parts)
                           /\ fat16_get_directory_entry(parts) = current_item[Len(parts)]
<1> DEFINE n == Len(parts)
           S == SUBSET Findable
           base == {fat16_find_item_in_directory(Root, parts[1])}
           next(X, i) == IF base = {NULL} THEN {NULL}
                         ELSE UNION {Step(item, parts[i]) : item \in X}
           step == [i \in Nat |-> [X \in S |-> next(X, i + 1)]]
           Is(f) == f = [i \in 1 .. Len(parts) |->
                           IF i = 1 THEN {fat16_find_item_in_directory(Root, parts[1])}
                           ELSE IF f[1] = {NULL} THEN {NULL}
                           ELSE UNION {Step(item, parts[i]) : item \in f[i - 1]}]
           current_item == CHOOSE f : Is(f)
<1>0. n \in Nat /\ n >= 1 /\ n - 1 \in Nat /\ base \in S
  <2>1. n \in Nat /\ n >= 1
    BY EmptySeq
  <2>2. base \in S
    BY FindItem DEF Directories
  <2> HIDE DEF n, base
  <2> QED BY <2>1, <2>2
<1>1. ASSUME NEW X \in S, NEW i PROVE next(X, i) \in S
  <2>1. {NULL} \in S
    BY DEF Findable
  <2>2. UNION {Step(item, parts[i]) : item \in X} \in S
    BY StepItem
  <2> HIDE DEF base, S
  <2> QED BY <2>1, <2>2
<1>2. step \in [Nat -> [S -> S]]
  <2> HIDE DEF next, S
  <2> QED BY <1>1
<1>3. PICK g : Iterates(g, S, base, step, n - 1)
  <2> HIDE DEF S, base, step, n
  <2> QED BY <1>0, <1>2, Recursion
<1> HIDE DEF S
<1>4. /\ g \in [0 .. (n - 1) -> S] /\ g[0] = base
      /\ \A i \in 1 .. (n - 1) : g[i] = next(g[i - 1], i + 1)
  <2> HIDE DEF next, base
  <2>1. /\ g \in [0 .. (n - 1) -> S] /\ g[0] = base
        /\ \A i \in 1 .. (n - 1) : g[i] = step[i][g[i - 1]]
    BY <1>3 DEF Iterates
  <2>2. ASSUME NEW i \in 1 .. (n - 1) PROVE i \in Nat /\ g[i - 1] \in S
    BY <1>0, <2>1
  <2> QED BY <2>1, <2>2
<1> DEFINE h == [i \in 1 .. n |-> g[i - 1]]
<1>5. ASSUME NEW i \in 1 .. n
      PROVE  h[i] = IF i = 1 THEN base ELSE next(h[i - 1], i)
  <2> HIDE DEF next, base
  <2>1. CASE i = 1
    BY <1>4, <2>1
  <2>2. CASE i # 1
    <3>1. i - 1 \in 1 .. (n - 1) /\ i - 1 \in 1 .. n /\ (i - 1) + 1 = i
      BY <1>0, <2>2
    <3>2. g[i - 1] = next(g[(i - 1) - 1], (i - 1) + 1)
      BY <1>4, <3>1
    <3>3. h[i] = g[i - 1] /\ h[i - 1] = g[(i - 1) - 1]
      BY <3>1
    <3> QED BY <2>2, <3>1, <3>2, <3>3
  <2> QED BY <2>1, <2>2
<1>6. 1 \in 1 .. n
  BY <1>0
<1>7. h[1] = base
  BY <1>5, <1>6
<1>8. Is(h)
  <2>1. h = [i \in 1 .. n |-> h[i]]
    OBVIOUS
  <2> HIDE DEF h
  <2>2. \A i \in 1 .. n :
          h[i] = IF i = 1 THEN base
                 ELSE IF h[1] = {NULL} THEN {NULL}
                 ELSE UNION {Step(item, parts[i]) : item \in h[i - 1]}
    BY <1>5, <1>7
  <2> QED BY <2>1, <2>2
<1>9. Is(current_item)
  <2> HIDE DEF Is
  <2> QED BY <1>8
<1> HIDE DEF current_item
<1>10. /\ current_item[1] = base
       /\ \A i \in 2 .. n : current_item[i] = next(current_item[i - 1], i)
  <2>1. current_item[1] = base
    BY <1>6, <1>9
  <2>2. \A i \in 2 .. n : i \in 1 .. n /\ i # 1
    BY <1>0
  <2> QED BY <1>9, <2>1, <2>2
<1>11. fat16_get_directory_entry(parts) = current_item[n]
  BY DEF fat16_get_directory_entry, current_item
<1>12. Searching(current_item, parts)
  <2> HIDE DEF Is
  <2> QED BY <1>10 DEF Searching
<1> QED BY <1>11, <1>12

(* The search from directory to directory stays among the items F, if each *)
(* of its steps does.                                                      *)
LEMMA DirectoryEntry ==
  ASSUME NEW F, NULL \in F,
         \A name : fat16_find_item_in_directory(Root, name) \in F,
         \A item \in F : \A name : Step(item, name) \subseteq F,
         NEW parts \in Seq(Text), parts # <<>>
  PROVE  fat16_get_directory_entry(parts) \subseteq F
<1> DEFINE n == Len(parts)
           S == SUBSET F
<1>0. n \in Nat /\ n >= 1
  BY EmptySeq
<1>1. PICK current_item : /\ Searching(current_item, parts)
                          /\ fat16_get_directory_entry(parts) = current_item[n]
  BY SearchSteps
<1>2. current_item[1] \in S
  BY <1>1 DEF Searching
<1>3. ASSUME NEW i \in 2 .. n, current_item[i - 1] \in S PROVE current_item[i] \in S
  <2>1. UNION {Step(item, parts[i]) : item \in current_item[i - 1]} \in S
    BY <1>3
  <2>2. {NULL} \in S
    OBVIOUS
  <2>3. current_item[i] = IF current_item[1] = {NULL} THEN {NULL}
                          ELSE UNION {Step(item, parts[i]) : item \in current_item[i - 1]}
    BY <1>1 DEF Searching
  <2> HIDE DEF S
  <2> QED BY <2>1, <2>2, <2>3
<1>4. ASSUME NEW i \in 1 .. n PROVE current_item[i] \in S
  <2> HIDE DEF S
  <2> DEFINE T == {k \in 1 .. n : current_item[k] \notin S}
  <2> SUFFICES ASSUME T # {} PROVE FALSE
    OBVIOUS
  <2>1. PICK m \in T : \A y \in T : m <= y
    <3>1. T \subseteq Nat
      BY <1>0
    <3> HIDE DEF T
    <3> QED BY <3>1, NatMinimum
  <2>2. m # 1
    BY <1>0, <1>2
  <2>3. m \in 2 .. n /\ m - 1 \in 1 .. n /\ ~(m <= m - 1)
    BY <1>0, <2>2
  <2>4. current_item[m - 1] \in S
    BY <2>1, <2>3
  <2>5. current_item[m] \in S
    BY <1>3, <2>3, <2>4
  <2> QED BY <2>5
<1>5. n \in 1 .. n
  BY <1>0
<1> QED BY <1>1, <1>4, <1>5

(* What fopen may end up with.                                             *)
LEMMA FoundItems ==
  ASSUME NEW path \in Paths, NEW mode
  PROVE  /\ Results(path, mode) \subseteq Findable
         /\ Readable /\ NullIsFile => WILD \notin Results(path, mode)
<1> DEFINE parts == pathparser_parse(path).parts
<1>0. Root \in Directories /\ NULL # WILD /\ NULL \in Findable
  BY FileTableAssumption DEF Directories, Findable
<1>1. CASE ~Searches(path, mode)
  BY <1>0, <1>1 DEF Results
<1>2. CASE Searches(path, mode)
  <2>1. parts # <<>> /\ parts \in Seq(Text)
    BY <1>2, ParsedPath DEF Searches
  <2>2. Results(path, mode) = fat16_get_directory_entry(parts)
    BY <1>2, <2>1 DEF Results, Entry
  <2> HIDE DEF parts
  <2>3. fat16_get_directory_entry(parts) \subseteq Findable
    BY <1>0, <2>1, FindItem, StepItem, DirectoryEntry
  <2>4. ASSUME Readable, NullIsFile PROVE WILD \notin fat16_get_directory_entry(parts)
    <3> DEFINE F == Findable \ {WILD}
    <3>1. NULL \in F
      BY <1>0
    <3>2. \A name : fat16_find_item_in_directory(Root, name) \in F
      BY <1>0, <2>4, FindItem
    <3>3. \A item \in F : \A name : Step(item, name) \subseteq F
      BY <2>4, StepItem
    <3> HIDE DEF F
    <3>4. fat16_get_directory_entry(parts) \subseteq F
      BY <2>1, <3>1, <3>2, <3>3, DirectoryEntry
    <3> QED BY <3>4 DEF F
  <2> QED BY <2>2, <2>3, <2>4
<1> QED BY <1>1, <1>2

-----------------------------------------------------------------------------
Descriptor == [item : Findable, pos : 0 .. MaxPos]

(* The type invariant, in the terms of the proofs.                         *)
LEMMA TypeFacts ==
  TypeOK <=> /\ filesystem \in {"unset", "none", "fat16"}
             /\ file_descriptors \in [Slots -> Privates \cup {NULL}]
             /\ fat_desc \in [Privates -> Descriptor]
BY DEF TypeOK, Descriptor, Findable

(* A descriptor that file_get_descriptor knows.                            *)
LEMMA KnownDescriptor ==
  ASSUME TypeOK, NEW fd \in Slots, file_get_descriptor(fd) # NULL
  PROVE  /\ file_get_descriptor(fd) = file_descriptors[fd]
         /\ file_descriptors[fd] \in Privates /\ fd \in Open
<1>1. file_get_descriptor(fd) = file_descriptors[fd]
  BY DEF file_get_descriptor
<1> QED BY <1>1, TypeFacts DEF Open

(* fopen fills one descriptor of the driver that nobody used, and at most  *)
(* one slot that was empty.                                                *)
LEMMA OpenStep ==
  ASSUME TypeOK, NEW path \in Paths, NEW mode, fopen(path, mode)
  PROVE  \E d \in Unallocated, item \in Results(path, mode) \ {NULL} :
           /\ fat_desc' = [fat_desc EXCEPT ![d] = [item |-> item, pos |-> 0]]
           /\ filesystem' = filesystem
           /\ \/ file_descriptors' = file_descriptors
              \/ \E fd \in Slots : /\ file_descriptors[fd] = NULL
                                   /\ file_descriptors' = [file_descriptors EXCEPT ![fd] = d]
<1>1. PICK item \in Results(path, mode) \ {NULL}, d \in Unallocated :
        /\ fat_desc' = [fat_desc EXCEPT ![d].item = item]
        /\ IF \E fd \in Slots : file_new_descriptor(fd)
             THEN \E fd \in Slots :
                    /\ file_new_descriptor(fd)
                    /\ file_descriptors' = [file_descriptors EXCEPT ![fd] = d]
             ELSE UNCHANGED file_descriptors
        /\ filesystem' = filesystem
  BY DEF fopen
<1>2. d \in Privates /\ fat_desc[d] = [item |-> NULL, pos |-> 0]
  BY DEF Unallocated, Unused
<1>3. [fat_desc[d] EXCEPT !.item = item] = [item |-> item, pos |-> 0]
  BY <1>2
<1>4. fat_desc' = [fat_desc EXCEPT ![d] = [item |-> item, pos |-> 0]]
  BY <1>1, <1>3
<1>5. \/ file_descriptors' = file_descriptors
      \/ \E fd \in Slots : /\ file_descriptors[fd] = NULL
                           /\ file_descriptors' = [file_descriptors EXCEPT ![fd] = d]
  BY <1>1 DEF file_new_descriptor
<1> QED BY <1>1, <1>4, <1>5

(* fclose gives back the descriptor of the driver and empties its slot.    *)
LEMMA CloseStep ==
  ASSUME TypeOK, NEW fd \in Slots, fclose(fd)
  PROVE  /\ fd \in Open /\ file_descriptors[fd] \in Privates
         /\ fat_desc' = [fat_desc EXCEPT ![file_descriptors[fd]] = Unused]
         /\ file_descriptors' = [file_descriptors EXCEPT ![fd] = NULL]
         /\ filesystem' = filesystem
BY KnownDescriptor DEF fclose, file_free_descriptor

(* fseek moves the position of the descriptor it is given, or of none.     *)
LEMMA SeekStep ==
  ASSUME TypeOK, NEW fd \in Slots, NEW offset \in Offsets, NEW whence,
         fseek(fd, offset, whence)
  PROVE  \E d \in Privates, pos \in 0 .. MaxPos :
           /\ fat_desc' = [fat_desc EXCEPT ![d] = [item |-> fat_desc[d].item, pos |-> pos]]
           /\ UNCHANGED <<filesystem, file_descriptors>>
<1> DEFINE d == file_get_descriptor(fd)
           new == fat16_seek(d, offset, whence)
           pos == IF new = EIO THEN fat_desc[d].pos ELSE new
<1>1. /\ d # NULL /\ new <= MaxPos
      /\ fat_desc' = [fat_desc EXCEPT ![d].pos = pos]
      /\ UNCHANGED <<filesystem, file_descriptors>>
  BY DEF fseek
<1>2. d \in Privates
  BY <1>1, KnownDescriptor
<1> HIDE DEF d
<1>3. fat_desc[d] \in Descriptor /\ fat_desc[d].pos \in 0 .. MaxPos
  BY <1>2, TypeFacts DEF Descriptor
<1>4. pos \in 0 .. MaxPos
  <2>1. offset \in Nat /\ MaxPos \in Nat /\ fat_desc[d].pos \in Nat
    BY <1>3, FileTableAssumption
  <2>2. new = EIO \/ new = offset + fat_desc[d].pos \/ new = offset + 0
    BY DEF fat16_seek
  <2> HIDE DEF new
  <2>3. new = EIO \/ new \in Nat
    BY <2>1, <2>2
  <2> QED BY <1>1, <1>3, <2>1, <2>3
<1> HIDE DEF pos
<1>5. [fat_desc[d] EXCEPT !.pos = pos] = [item |-> fat_desc[d].item, pos |-> pos]
  BY <1>3 DEF Descriptor
<1>6. fat_desc' = [fat_desc EXCEPT ![d] = [item |-> fat_desc[d].item, pos |-> pos]]
  BY <1>1, <1>5
<1> QED BY <1>1, <1>2, <1>4, <1>6

(* What every step is, as far as the table and the driver's descriptors    *)
(* are concerned.                                                          *)
LEMMA Steps ==
  ASSUME TypeOK, [Next]_vars
  PROVE  \/ \E path \in Paths, mode \in Modes : fopen(path, mode)
         \/ \E fd \in Slots : fclose(fd)
         \/ \E fd \in Slots, offset \in Offsets, whence \in Whence : fseek(fd, offset, whence)
         \/ /\ filesystem' \in {filesystem, "none", "fat16"}
            /\ UNCHANGED <<file_descriptors, fat_desc>>
BY DEF Next, vars, disk_search_and_init, fopen_fails, fstat, fread, BadDescriptor

(* Every step keeps the types.                                             *)
LEMMA TypeStep ==
  ASSUME TypeOK, [Next]_vars
  PROVE  TypeOK'
<1>0. /\ filesystem \in {"unset", "none", "fat16"}
      /\ file_descriptors \in [Slots -> Privates \cup {NULL}]
      /\ fat_desc \in [Privates -> Descriptor]
  BY TypeFacts
<1>1. SUFFICES /\ filesystem' \in {"unset", "none", "fat16"}
               /\ file_descriptors' \in [Slots -> Privates \cup {NULL}]
               /\ fat_desc' \in [Privates -> Descriptor]
  BY DEF TypeOK, Descriptor, Findable, Slots, OnDisk, Directories
<1>2. MaxPos \in Nat
  BY FileTableAssumption
<1>3. ASSUME NEW path \in Paths, NEW mode \in Modes, fopen(path, mode)
      PROVE  /\ filesystem' \in {"unset", "none", "fat16"}
             /\ file_descriptors' \in [Slots -> Privates \cup {NULL}]
             /\ fat_desc' \in [Privates -> Descriptor]
  <2>1. PICK d \in Unallocated, item \in Results(path, mode) \ {NULL} :
           /\ fat_desc' = [fat_desc EXCEPT ![d] = [item |-> item, pos |-> 0]]
           /\ filesystem' = filesystem
           /\ \/ file_descriptors' = file_descriptors
              \/ \E fd \in Slots : /\ file_descriptors[fd] = NULL
                                   /\ file_descriptors' = [file_descriptors EXCEPT ![fd] = d]
    BY <1>3, OpenStep
  <2>2. item \in Findable /\ d \in Privates
    BY FoundItems DEF Unallocated
  <2>3. [item |-> item, pos |-> 0] \in Descriptor
    BY <1>2, <2>2 DEF Descriptor
  <2> QED BY <1>0, <2>1, <2>2, <2>3
<1>4. ASSUME NEW fd \in Slots, fclose(fd)
      PROVE  /\ filesystem' \in {"unset", "none", "fat16"}
             /\ file_descriptors' \in [Slots -> Privates \cup {NULL}]
             /\ fat_desc' \in [Privates -> Descriptor]
  <2>1. Unused \in Descriptor
    BY <1>2 DEF Unused, Descriptor, Findable
  <2> QED BY <1>0, <1>4, <2>1, CloseStep
<1>5. ASSUME NEW fd \in Slots, NEW offset \in Offsets, NEW whence \in Whence,
             fseek(fd, offset, whence)
      PROVE  /\ filesystem' \in {"unset", "none", "fat16"}
             /\ file_descriptors' \in [Slots -> Privates \cup {NULL}]
             /\ fat_desc' \in [Privates -> Descriptor]
  <2>1. PICK d \in Privates, pos \in 0 .. MaxPos :
           /\ fat_desc' = [fat_desc EXCEPT ![d] = [item |-> fat_desc[d].item, pos |-> pos]]
           /\ UNCHANGED <<filesystem, file_descriptors>>
    BY <1>5, SeekStep
  <2>2. [item |-> fat_desc[d].item, pos |-> pos] \in Descriptor
    <3>1. fat_desc[d] \in Descriptor
      BY <1>0
    <3> QED BY <3>1 DEF Descriptor
  <2> QED BY <1>0, <2>1, <2>2
<1>6. CASE /\ filesystem' \in {filesystem, "none", "fat16"}
           /\ UNCHANGED <<file_descriptors, fat_desc>>
  BY <1>0, <1>6
<1> QED BY <1>3, <1>4, <1>5, <1>6, Steps

(* fs_init and an empty table.                                             *)
LEMMA InitType == Init => TypeOK /\ OwnDescriptor
<1> SUFFICES ASSUME Init PROVE TypeOK /\ OwnDescriptor
  OBVIOUS
<1>1. MaxPos \in Nat /\ Unused \in Descriptor
  BY FileTableAssumption DEF Unused, Descriptor, Findable
<1>2. TypeOK
  BY <1>1, TypeFacts DEF Init
<1>3. Open = {}
  BY DEF Init, Open
<1> QED BY <1>2, <1>3 DEF OwnDescriptor

(* The table and the driver's descriptors keep their types, on every       *)
(* volume and for every path.                                              *)
THEOREM FileTableTypeCorrect == Spec => []TypeOK
<1>1. Init => TypeOK
  BY InitType
<1>2. TypeOK /\ [Next]_vars => TypeOK'
  BY TypeStep
<1> QED BY <1>1, <1>2, PTL DEF Spec
-----------------------------------------------------------------------------
(* Every step keeps every open descriptor on a descriptor of its own.      *)
LEMMA OwnStep ==
  ASSUME Readable, NullIsFile, TypeOK, OwnDescriptor, [Next]_vars
  PROVE  OwnDescriptor'
<1>0. /\ file_descriptors \in [Slots -> Privates \cup {NULL}]
      /\ fat_desc \in [Privates -> Descriptor] /\ NULL \notin Privates
  BY TypeFacts, FileTableAssumption
<1>1. \A fd \in Slots : file_descriptors[fd] # NULL =>
        /\ file_descriptors[fd] \in Privates
        /\ fat_desc[file_descriptors[fd]].item \notin {NULL, WILD}
        /\ \A other \in Slots : file_descriptors[fd] = file_descriptors[other] => fd = other
  BY <1>0 DEF OwnDescriptor, Open, Item
<1>2. SUFFICES \A fd \in Slots : file_descriptors'[fd] # NULL =>
                 /\ fat_desc'[file_descriptors'[fd]].item \notin {NULL, WILD}
                 /\ \A other \in Slots :
                      file_descriptors'[fd] = file_descriptors'[other] => fd = other
  BY DEF OwnDescriptor, Open, Item, Slots
<1>3. ASSUME NEW path \in Paths, NEW mode \in Modes, fopen(path, mode),
             NEW fd \in Slots, file_descriptors'[fd] # NULL
      PROVE  /\ fat_desc'[file_descriptors'[fd]].item \notin {NULL, WILD}
             /\ \A other \in Slots :
                  file_descriptors'[fd] = file_descriptors'[other] => fd = other
  <2>1. PICK d \in Unallocated, item \in Results(path, mode) \ {NULL} :
           /\ fat_desc' = [fat_desc EXCEPT ![d] = [item |-> item, pos |-> 0]]
           /\ \/ file_descriptors' = file_descriptors
              \/ \E new \in Slots : /\ file_descriptors[new] = NULL
                                    /\ file_descriptors' = [file_descriptors EXCEPT ![new] = d]
    BY <1>3, OpenStep
  <2>2. item \notin {NULL, WILD}
    BY FoundItems
  <2>3. d \in Privates /\ fat_desc[d].item = NULL
    BY DEF Unallocated, Unused
  <2>4. \A slot \in Slots : file_descriptors[slot] # d
    BY <1>0, <1>1, <2>3
  <2>5. \A slot \in Slots : file_descriptors[slot] # NULL =>
          fat_desc'[file_descriptors[slot]] = fat_desc[file_descriptors[slot]]
    BY <1>0, <1>1, <2>1, <2>4
  <2>6. fat_desc'[d].item = item
    BY <1>0, <2>1, <2>3
  <2>7. CASE file_descriptors' = file_descriptors
    BY <1>1, <1>3, <2>5, <2>7
  <2>8. ASSUME NEW new \in Slots, file_descriptors[new] = NULL,
               file_descriptors' = [file_descriptors EXCEPT ![new] = d]
        PROVE  /\ fat_desc'[file_descriptors'[fd]].item \notin {NULL, WILD}
               /\ \A other \in Slots :
                    file_descriptors'[fd] = file_descriptors'[other] => fd = other
    <3>1. \A slot \in Slots :
            file_descriptors'[slot] = IF slot = new THEN d ELSE file_descriptors[slot]
      BY <1>0, <2>8
    <3> QED BY <1>1, <1>3, <2>2, <2>4, <2>5, <2>6, <3>1
  <2> QED BY <2>1, <2>7, <2>8
<1>4. ASSUME NEW shut \in Slots, fclose(shut),
             NEW fd \in Slots, file_descriptors'[fd] # NULL
      PROVE  /\ fat_desc'[file_descriptors'[fd]].item \notin {NULL, WILD}
             /\ \A other \in Slots :
                  file_descriptors'[fd] = file_descriptors'[other] => fd = other
  <2>1. /\ file_descriptors[shut] \in Privates
        /\ fat_desc' = [fat_desc EXCEPT ![file_descriptors[shut]] = Unused]
        /\ file_descriptors' = [file_descriptors EXCEPT ![shut] = NULL]
    BY <1>4, CloseStep
  <2>2. \A slot \in Slots :
          file_descriptors'[slot] = IF slot = shut THEN NULL ELSE file_descriptors[slot]
    BY <1>0, <2>1
  <2>3. fd # shut /\ file_descriptors'[fd] = file_descriptors[fd] /\ file_descriptors[fd] # NULL
    BY <1>4, <2>2
  <2>4. file_descriptors[fd] # file_descriptors[shut] /\ file_descriptors[fd] \in Privates
    BY <1>1, <2>3
  <2>5. fat_desc'[file_descriptors[fd]] = fat_desc[file_descriptors[fd]]
    BY <1>0, <2>1, <2>4
  <2> QED BY <1>1, <2>2, <2>3, <2>5
<1>5. ASSUME NEW at \in Slots, NEW offset \in Offsets, NEW whence \in Whence,
             fseek(at, offset, whence),
             NEW fd \in Slots, file_descriptors'[fd] # NULL
      PROVE  /\ fat_desc'[file_descriptors'[fd]].item \notin {NULL, WILD}
             /\ \A other \in Slots :
                  file_descriptors'[fd] = file_descriptors'[other] => fd = other
  <2>1. PICK d \in Privates, pos \in 0 .. MaxPos :
           /\ fat_desc' = [fat_desc EXCEPT ![d] = [item |-> fat_desc[d].item, pos |-> pos]]
           /\ file_descriptors' = file_descriptors
    BY <1>5, SeekStep
  <2>2. \A p \in Privates : fat_desc'[p].item = fat_desc[p].item
    BY <1>0, <2>1
  <2> QED BY <1>1, <1>5, <2>1, <2>2
<1>6. CASE UNCHANGED <<file_descriptors, fat_desc>>
  BY <1>1, <1>6
<1>7. \/ \E path \in Paths, mode \in Modes : fopen(path, mode)
      \/ \E fd \in Slots : fclose(fd)
      \/ \E fd \in Slots, offset \in Offsets, whence \in Whence : fseek(fd, offset, whence)
      \/ UNCHANGED <<file_descriptors, fat_desc>>
  BY Steps
<1> QED BY <1>3, <1>4, <1>5, <1>6, <1>7

(* Every open descriptor leads to a descriptor of the driver that is       *)
(* allocated, is its own and has an item that is in memory, for any number *)
(* of slots and of private descriptors and any sequence of calls, on a     *)
(* volume whose directories fat16_load_fat_directory can read whole, on a  *)
(* machine whose word at address 4 is not 0: elsewhere a search may end in *)
(* memory that was freed, or in memory that never was an item.             *)
THEOREM FileTableOwnDescriptor ==
  ASSUME Readable, NullIsFile
  PROVE  Spec => []OwnDescriptor
<1>1. Init => TypeOK /\ OwnDescriptor
  BY InitType
<1>2. TypeOK /\ OwnDescriptor /\ [Next]_vars => TypeOK' /\ OwnDescriptor'
  BY TypeStep, OwnStep
<1> QED BY <1>1, <1>2, PTL DEF Spec

-----------------------------------------------------------------------------
(* n bytes of the disk from position a on.                                 *)
Bytes(a, n) == [i \in 1 .. n |-> a + (i - 1)]

(* Bytes that follow each other are read together.                         *)
LEMMA BytesFollow ==
  ASSUME NEW a \in Int, NEW m \in Nat, NEW n \in Nat
  PROVE  Bytes(a, m) \o Bytes(a + m, n) = Bytes(a, m + n)
<1> DEFINE s == Bytes(a, m)
           t == Bytes(a + m, n)
           u == Bytes(a, m + n)
<1>1. /\ s \in Seq(Int) /\ Len(s) = m /\ \A i \in 1 .. m : s[i] = a + (i - 1)
      /\ t \in Seq(Int) /\ Len(t) = n /\ \A i \in 1 .. n : t[i] = a + m + (i - 1)
      /\ u \in Seq(Int) /\ Len(u) = m + n /\ \A i \in 1 .. (m + n) : u[i] = a + (i - 1)
  BY DEF Bytes
<1> HIDE DEF s, t, u
<1>2. s \o t \in Seq(Int) /\ Len(s \o t) = m + n
  BY <1>1, ConcatProperties
<1>3. ASSUME NEW i \in 1 .. (m + n) PROVE (s \o t)[i] = u[i]
  <2>1. (s \o t)[i] = IF i <= m THEN s[i] ELSE t[i - m]
    BY <1>1, ConcatProperties
  <2>2. CASE i <= m
    BY <1>1, <2>1, <2>2
  <2>3. CASE ~(i <= m)
    <3>1. i - m \in 1 .. n /\ a + m + ((i - m) - 1) = a + (i - 1)
      BY <2>3
    <3>2. t[i - m] = a + m + ((i - m) - 1)
      BY <1>1, <3>1
    <3> QED BY <1>1, <2>1, <2>3, <3>1, <3>2
  <2> QED BY <2>2, <2>3
<1>4. s \o t = u
  BY <1>1, <1>2, <1>3, SeqEqual
<1> QED BY <1>4 DEF s, t, u

(* The sector that diskstreamer_read reads when t bytes are left, with the *)
(* bytes that the reads after it return in rest.                           *)
SectorStep(pos, total, t, rest) ==
  LET p == pos + (total - t)
      offset == p % SectorSize
      overflow == offset + t >= SectorSize
      n == IF overflow THEN t - ((offset + t) - SectorSize) ELSE t
      out == [i \in 1 .. n |-> (p \div SectorSize) * SectorSize + offset + (i - 1)]
  IN  IF overflow THEN out \o rest[t - n] ELSE out

(* It returns the bytes from there on, if the reads after it do.           *)
LEMMA SectorReads ==
  ASSUME NEW pos \in Nat, NEW total \in Nat, NEW t \in 0 .. total, NEW rest,
         \A u \in 0 .. total : u < t => rest[u] = Bytes(pos + (total - u), u)
  PROVE  SectorStep(pos, total, t, rest) = Bytes(pos + (total - t), t)
<1> DEFINE p == pos + (total - t)
           offset == p % SectorSize
           overflow == offset + t >= SectorSize
           n == IF overflow THEN t - ((offset + t) - SectorSize) ELSE t
           out == [i \in 1 .. n |-> (p \div SectorSize) * SectorSize + offset + (i - 1)]
           z == SectorSize
<1>1. SectorStep(pos, total, t, rest) = IF overflow THEN out \o rest[t - n] ELSE out
  BY DEF SectorStep
<1>2. z \in Nat \ {0} /\ p \in Nat /\ p \in Int /\ t \in Nat
  BY VolumeAssumption
<1> DEFINE q == p \div z
<1>3. p = q * z + offset /\ offset \in Nat /\ offset < z /\ q \in Int
  <2> HIDE DEF p, z
  <2>1. p = (p \div z) * z + (p % z) /\ 0 <= p % z /\ p % z < z /\ p % z \in Int /\ p \div z \in Int
    BY <1>2, DivMod
  <2> QED BY <2>1 DEF z
<1>4. out = Bytes(p, n)
  <2>1. \A i \in 1 .. n : (p \div SectorSize) * SectorSize + offset + (i - 1) = p + (i - 1)
    <3>1. (p \div SectorSize) * SectorSize + offset = p
      BY <1>3
    <3> QED BY <3>1
  <2> HIDE DEF p, offset, n
  <2> QED BY <2>1 DEF Bytes
<1> HIDE DEF out, q
<1>5. CASE ~overflow
  <2>1. n = t
    BY <1>5
  <2> QED BY <1>1, <1>4, <1>5, <2>1
<1>6. CASE overflow
  <2>1. n = z - offset
    BY <1>2, <1>3, <1>6
  <2>2. n \in Nat /\ n >= 1 /\ t - n \in 0 .. total /\ t - n < t /\ t - n \in Nat
    <3> HIDE DEF p, n
    <3>1. offset + t >= z
      BY <1>6
    <3> HIDE DEF offset, z
    <3> QED BY <1>2, <1>3, <2>1, <3>1
  <2>3. rest[t - n] = Bytes(pos + (total - (t - n)), t - n)
    <3> HIDE DEF n
    <3> QED BY <2>2
  <2>4. pos + (total - (t - n)) = p + n /\ n + (t - n) = t
    <3> HIDE DEF n
    <3> QED BY <1>2, <2>2
  <2> HIDE DEF p, n
  <2>5. Bytes(p, n) \o Bytes(p + n, t - n) = Bytes(p, n + (t - n))
    BY <1>2, <2>2, BytesFollow
  <2>6. SectorStep(pos, total, t, rest) = Bytes(p, t)
    BY <1>1, <1>4, <1>6, <2>3, <2>4, <2>5
  <2> QED BY <2>6 DEF p
<1> QED BY <1>5, <1>6

(* diskstreamer_read returns the bytes that were asked for, in order, from *)
(* however many sectors.                                                   *)
LEMMA StreamerReads ==
  ASSUME NEW pos \in Nat, NEW total \in Nat
  PROVE  diskstreamer_read(pos, total) = Bytes(pos, total)
<1> DEFINE Is(h) == h = [t \in 0 .. total |-> SectorStep(pos, total, t, h)]
           f == [t \in 0 .. total |-> Bytes(pos + (total - t), t)]
           r == CHOOSE h : Is(h)
           P == {j \in Nat : \A t \in 0 .. total : t < j => r[t] = Bytes(pos + (total - t), t)}
<1>1. diskstreamer_read(pos, total) = r[total]
  BY DEF diskstreamer_read, SectorStep
<1>2. Is(f)
  <2>1. \A t \in 0 .. total : SectorStep(pos, total, t, f) = Bytes(pos + (total - t), t)
    <3>1. \A u \in 0 .. total : f[u] = Bytes(pos + (total - u), u)
      OBVIOUS
    <3> HIDE DEF f
    <3> QED BY <3>1, SectorReads
  <2> QED BY <2>1
<1>3. Is(r)
  <2> HIDE DEF Is, f
  <2> QED BY <1>2
<1> HIDE DEF r
<1>4. \A t \in 0 .. total : r[t] = SectorStep(pos, total, t, r)
  BY <1>3
<1>5. Nat \subseteq P
  <2>1. 0 \in P
    OBVIOUS
  <2>2. ASSUME NEW j \in Nat, j \in P PROVE j + 1 \in P
    <3> SUFFICES ASSUME NEW t \in 0 .. total, t < j + 1
                 PROVE  r[t] = Bytes(pos + (total - t), t)
      OBVIOUS
    <3>1. \A u \in 0 .. total : u < t => r[u] = Bytes(pos + (total - u), u)
      BY <2>2
    <3>2. SectorStep(pos, total, t, r) = Bytes(pos + (total - t), t)
      BY <3>1, SectorReads
    <3> QED BY <1>4, <3>2
  <2> HIDE DEF P
  <2> QED BY <2>1, <2>2, NatInductionSet
<1>6. r[total] = Bytes(pos + (total - total), total)
  <2>1. total + 1 \in Nat /\ total \in 0 .. total /\ total < total + 1
    OBVIOUS
  <2>2. total + 1 \in P
    <3> HIDE DEF P
    <3> QED BY <1>5, <2>1
  <2> QED BY <2>1, <2>2
<1>7. pos + (total - total) = pos
  OBVIOUS
<1> QED BY <1>1, <1>6, <1>7

(* A position in the first cluster.                                        *)
LEMMA FirstCluster ==
  ASSUME NEW o \in 0 .. (ClusterSize - 1)
  PROVE  /\ ClusterSize \in Nat \ {0} /\ o \in Nat
         /\ o \div ClusterSize = 0 /\ o % ClusterSize = o
<1> DEFINE w == ClusterSize
           q == o \div w
           m == o % w
<1>1. w \in Nat /\ o \in Nat /\ o < w /\ w # 0
  <2>1. w \in Nat
    BY VolumeAssumption, ProductNat DEF ClusterSize
  <2> QED BY <2>1
<1>2. w \in Nat \ {0} /\ o \in Int /\ o \in 0 .. (w - 1)
  BY <1>1
<1> HIDE DEF w
<1>3. o = q * w + m /\ 0 <= m /\ m < w /\ q \in Int /\ m \in Int
  BY <1>2, DivMod
<1>4. m = o
  BY <1>2, ModSmall
<1> DEFINE x == q * w
<1> HIDE DEF q, m
<1>5. x = 0
  <2>1. x \in Int /\ o = x + m
    BY <1>1, <1>3
  <2> QED BY <1>1, <1>4, <2>1
<1>6. q = 0
  <2>1. -w < q * w /\ q * w < w
    BY <1>1, <1>5
  <2> QED BY <1>2, <1>3, <2>1, SmallMultiple
<1> QED BY <1>1, <1>2, <1>4, <1>6 DEF q, m, w

(* The byte of the disk where a cluster starts.                            *)
ClusterStart(cluster) == fat16_cluster_to_sector(cluster) * SectorSize

(* Clusters are numbered from 2.                                           *)
LEMMA ClusterStartNat ==
  ASSUME NEW cluster \in Nat, cluster >= 2
  PROVE  ClusterStart(cluster) \in Nat
<1>1. cluster - 2 \in Nat
  OBVIOUS
<1>2. (cluster - 2) * SectorsPerCluster \in Nat
  BY <1>1, VolumeAssumption, ProductNat
<1>3. fat16_cluster_to_sector(cluster) \in Nat
  BY <1>2, VolumeAssumption DEF fat16_cluster_to_sector
<1> QED BY <1>3, VolumeAssumption, ProductNat DEF ClusterStart

(* The driver and the reference agree on the first cluster of a chain.     *)
LEMMA FirstOfChain ==
  ASSUME NEW cluster, NEW o \in 0 .. (ClusterSize - 1)
  PROVE  fat16_get_cluster_for_offset(cluster, o) = cluster
<1> DEFINE k == o \div ClusterSize
           Is(h) == h = [i \in 0 .. k |->
                          IF i = 0 THEN cluster
                          ELSE LET entry == fat16_get_fat_entry(h[i - 1])
                               IN  IF h[i - 1] = EIO \/ entry \in Stops THEN EIO ELSE entry]
           f == [i \in 0 .. k |-> cluster]
           r == CHOOSE h : Is(h)
<1>1. fat16_get_cluster_for_offset(cluster, o) = r[k]
  BY DEF fat16_get_cluster_for_offset
<1>2. k = 0
  BY FirstCluster
<1> HIDE DEF k
<1>3. \A i \in 0 .. k : i = 0
  BY <1>2
<1>4. Is(f)
  BY <1>3
<1>5. Is(r)
  <2> HIDE DEF Is, f
  <2> QED BY <1>4
<1> HIDE DEF r
<1>6. r[k] = cluster
  BY <1>2, <1>5
<1> QED BY <1>1, <1>6

(* Where the bytes of the first cluster of a file are.                     *)
LEMMA FirstContent ==
  ASSUME NEW item, NEW i \in 0 .. (ClusterSize - 1)
  PROVE  ContentByte(item, i) = ClusterStart(item.first) + i
<1> DEFINE k == i \div ClusterSize
           Is(h) == h = [n \in 0 .. k |-> IF n = 0 THEN item.first ELSE Fat[h[n - 1]]]
           f == [n \in 0 .. k |-> item.first]
           r == CHOOSE h : Is(h)
<1>1. ContentByte(item, i) = fat16_cluster_to_sector(r[k]) * SectorSize + (i % ClusterSize)
  BY DEF ContentByte
<1>2. k = 0 /\ i % ClusterSize = i
  BY FirstCluster
<1> HIDE DEF k
<1>3. \A n \in 0 .. k : n = 0
  BY <1>2
<1>4. Is(f)
  BY <1>3
<1>5. Is(r)
  <2> HIDE DEF Is, f
  <2> QED BY <1>4
<1> HIDE DEF r
<1>6. r[k] = item.first
  BY <1>2, <1>5
<1> QED BY <1>1, <1>2, <1>6 DEF ClusterStart

(* What fat16_read_internal does when t bytes are left.                    *)
ClusterStep(cluster, offset, total, t, rest) ==
  LET o == offset + (total - t)
      use == fat16_get_cluster_for_offset(cluster, o)
      pos == fat16_cluster_to_sector(use) * SectorSize + (o % ClusterSize)
      n == IF t > ClusterSize THEN ClusterSize ELSE t
  IN  IF use < 0 THEN [res |-> use, out |-> <<>>]
      ELSE LET here == diskstreamer_read(pos, n)
               more == rest[t - n]
           IN  IF t = n THEN [res |-> 0, out |-> here]
               ELSE [more EXCEPT !.out = here \o @]

(* A read of bytes of the first cluster returns those bytes.               *)
LEMMA ClusterReads ==
  ASSUME NEW cluster \in Nat, cluster >= 2, NEW offset \in Nat, NEW total \in Nat \ {0},
         offset + total <= ClusterSize
  PROVE  fat16_read_internal(cluster, offset, total) =
           [res |-> 0, out |-> Bytes(ClusterStart(cluster) + offset, total)]
<1> DEFINE Is(h) == h = [t \in 0 .. total |-> ClusterStep(cluster, offset, total, t, h)]
           f == [t \in 0 .. total |-> ClusterStep(cluster, offset, total, t, <<>>)]
           r == CHOOSE h : Is(h)
<1>0. ClusterSize \in Nat
  BY VolumeAssumption, ProductNat DEF ClusterSize
<1>1. fat16_read_internal(cluster, offset, total) = r[total]
  BY DEF fat16_read_internal, ClusterStep
<1>2. ASSUME NEW t \in 0 .. total, NEW h, NEW g
      PROVE  ClusterStep(cluster, offset, total, t, h) = ClusterStep(cluster, offset, total, t, g)
  <2>1. ~(t > ClusterSize)
    BY <1>0
  <2> QED BY <2>1 DEF ClusterStep
<1>3. Is(f)
  <2>1. \A t \in 0 .. total : ClusterStep(cluster, offset, total, t, f)
                              = ClusterStep(cluster, offset, total, t, <<>>)
    <3> HIDE DEF f
    <3> QED BY <1>2
  <2> QED BY <2>1
<1>4. Is(r)
  <2> HIDE DEF Is, f
  <2> QED BY <1>3
<1> HIDE DEF r
<1>5. r[total] = ClusterStep(cluster, offset, total, total, r)
  BY <1>4
<1>6. /\ offset + (total - total) = offset /\ ~(total > ClusterSize)
      /\ offset \in 0 .. (ClusterSize - 1)
  BY <1>0
<1>7. /\ fat16_get_cluster_for_offset(cluster, offset) = cluster /\ ~(cluster < 0)
      /\ offset % ClusterSize = offset
  BY <1>6, FirstOfChain, FirstCluster
<1>8. ClusterStep(cluster, offset, total, total, r) =
        [res |-> 0, out |-> diskstreamer_read(ClusterStart(cluster) + offset, total)]
  BY <1>6, <1>7 DEF ClusterStep, ClusterStart
<1>9. ClusterStart(cluster) + offset \in Nat
  BY ClusterStartNat
<1> QED BY <1>1, <1>5, <1>8, <1>9, StreamerReads

(* i times size bytes, one after the other.                                *)
LEMMA Multiples ==
  ASSUME NEW size \in Nat, NEW n \in Nat, NEW i \in 1 .. n
  PROVE  /\ (i - 1) * size \in Nat /\ size * (i - 1) = (i - 1) * size
         /\ (i - 1) * size + size = size * i
         /\ size * i <= size * n /\ size * n \in Nat
<1>1. i - 1 \in Nat /\ n - i \in Nat /\ i \in Nat
  OBVIOUS
<1>2. (i - 1) * size \in Nat /\ size * (n - i) \in Nat /\ size * i \in Nat /\ size * n \in Nat
  BY <1>1, ProductNat
<1>3. (i - 1) * size + size = size * i /\ size * (i - 1) = (i - 1) * size
  BY <1>1
<1>4. size * n = size * i + size * (n - i)
  BY <1>1
<1> QED BY <1>2, <1>3, <1>4

(* fread of bytes that are in the first cluster of a file.                 *)
LEMMA DriverReads ==
  ASSUME NEW d, fat_desc[d].pos \in Nat, fat_desc[d].item.first \in Nat,
         fat_desc[d].item.first >= 2,
         NEW size \in Nat \ {0}, NEW nmemb \in Nat \ {0},
         fat_desc[d].pos + size * nmemb <= ClusterSize
  PROVE  fat16_read(d, size, nmemb) =
           [res |-> nmemb,
            out |-> Bytes(ClusterStart(fat_desc[d].item.first) + fat_desc[d].pos, size * nmemb)]
<1> DEFINE item == fat_desc[d].item
           pos == fat_desc[d].pos
           start == ClusterStart(item.first)
           Now(i) == fat16_read_internal(item.first, pos + (i - 1) * size, size)
           Is(h) == h = [i \in 0 .. nmemb |->
                          IF i = 0 THEN [res |-> 0, out |-> <<>>]
                          ELSE IF h[i - 1].res < 0 THEN h[i - 1]
                          ELSE [res |-> Now(i).res, out |-> h[i - 1].out \o Now(i).out]]
           f == [i \in 0 .. nmemb |-> [res |-> 0, out |-> Bytes(start + pos, size * i)]]
           r == CHOOSE h : Is(h)
<1>0. start \in Nat /\ pos \in Nat /\ start + pos \in Int
  BY ClusterStartNat
<1>1. fat16_read(d, size, nmemb) = IF r[nmemb].res < 0 THEN r[nmemb]
                                   ELSE [r[nmemb] EXCEPT !.res = nmemb]
  BY DEF fat16_read
<1>2. ASSUME NEW i \in 1 .. nmemb
      PROVE  /\ Now(i) = [res |-> 0, out |-> Bytes(start + pos + (i - 1) * size, size)]
             /\ Bytes(start + pos, size * (i - 1)) \o Now(i).out = Bytes(start + pos, size * i)
  <2> DEFINE a == (i - 1) * size
             p == pos + a
  <2>1. /\ a \in Nat /\ a + size = size * i /\ size * (i - 1) = a
        /\ size * i <= size * nmemb /\ size * nmemb \in Nat
    BY Multiples
  <2>2. Now(i) = fat16_read_internal(item.first, p, size)
    OBVIOUS
  <2> HIDE DEF a
  <2>3. p \in Nat /\ p + size <= ClusterSize /\ start + p = start + pos + a
    <3>1. ClusterSize \in Nat
      BY VolumeAssumption, ProductNat DEF ClusterSize
    <3> DEFINE x == size * i
               y == size * nmemb
    <3>2. a + size = x /\ x <= y /\ y \in Nat /\ pos + y <= ClusterSize
      BY <2>1
    <3> HIDE DEF x, y, start, pos
    <3> QED BY <1>0, <2>1, <3>1, <3>2
  <2> HIDE DEF p
  <2>4. fat16_read_internal(item.first, p, size) =
          [res |-> 0, out |-> Bytes(ClusterStart(item.first) + p, size)]
    <3> HIDE DEF item, pos
    <3>1. item.first \in Nat /\ item.first >= 2
      BY DEF item
    <3> QED BY <2>3, <3>1, ClusterReads
  <2>5. Now(i) = [res |-> 0, out |-> Bytes(start + pos + a, size)]
    <3> HIDE DEF Now, pos
    <3> QED BY <2>2, <2>3, <2>4
  <2>6. Bytes(start + pos, a) \o Bytes(start + pos + a, size) = Bytes(start + pos, a + size)
    <3> HIDE DEF start, pos
    <3> QED BY <1>0, <2>1, BytesFollow
  <2>7. Bytes(start + pos, size * (i - 1)) \o Now(i).out = Bytes(start + pos, size * i)
    <3> DEFINE more == Bytes(start + pos + a, size)
    <3> HIDE DEF more
    <3>1. Now(i) = [res |-> 0, out |-> more]
      BY <2>5 DEF more
    <3> HIDE DEF Now
    <3>2. Now(i).out = more
      BY <3>1
    <3> QED BY <2>1, <2>6, <3>2, Zenon DEF more
  <2> QED BY <2>5, <2>7 DEF a
<1> HIDE DEF Now
<1>3. Bytes(start + pos, size * 0) = <<>>
  <2>1. size * 0 = 0
    OBVIOUS
  <2> HIDE DEF start, pos
  <2> QED BY <2>1 DEF Bytes
<1> HIDE DEF start, pos, item
<1>4. \A i \in 0 .. nmemb : f[i] = [res |-> 0, out |-> Bytes(start + pos, size * i)]
  OBVIOUS
<1>5. Is(f)
  <2> HIDE DEF f
  <2>1. ASSUME NEW i \in 0 .. nmemb
        PROVE  f[i] = IF i = 0 THEN [res |-> 0, out |-> <<>>]
                      ELSE IF f[i - 1].res < 0 THEN f[i - 1]
                      ELSE [res |-> Now(i).res, out |-> f[i - 1].out \o Now(i).out]
    <3>1. CASE i = 0
      BY <1>3, <1>4, <3>1
    <3>2. CASE i # 0
      <4>1. i \in 1 .. nmemb /\ i - 1 \in 0 .. nmemb
        BY <3>2
      <4> DEFINE before == f[i - 1]
                 done == Bytes(start + pos, size * (i - 1))
                 now == Now(i)
                 more == Bytes(start + pos + (i - 1) * size, size)
                 all == Bytes(start + pos, size * i)
      <4>2. before = [res |-> 0, out |-> done] /\ now = [res |-> 0, out |-> more]
            /\ f[i] = [res |-> 0, out |-> all] /\ done \o now.out = all
        BY <1>2, <1>4, <4>1, Zenon
      <4> HIDE DEF before, done, now, more, all
      <4>3. before.res = 0 /\ ~(before.res < 0) /\ before.out = done /\ now.res = 0
        BY <4>2
      <4>4. f[i] = IF i = 0 THEN [res |-> 0, out |-> <<>>]
                   ELSE IF before.res < 0 THEN before
                   ELSE [res |-> now.res, out |-> before.out \o now.out]
        BY <3>2, <4>2, <4>3, Zenon
      <4> QED BY <4>4 DEF before, now
    <3> QED BY <3>1, <3>2
  <2> QED BY <2>1 DEF f
<1>6. Is(r)
  <2> HIDE DEF Is, f
  <2> QED BY <1>5
<1> HIDE DEF r
<1>7. \A i \in 0 .. nmemb : r[i] = f[i]
  <2>1. \A i \in 0 .. nmemb :
          r[i] = IF i = 0 THEN [res |-> 0, out |-> <<>>]
                 ELSE IF r[i - 1].res < 0 THEN r[i - 1]
                 ELSE [res |-> Now(i).res, out |-> r[i - 1].out \o Now(i).out]
    BY <1>6
  <2>2. \A i \in 0 .. nmemb :
          f[i] = IF i = 0 THEN [res |-> 0, out |-> <<>>]
                 ELSE IF f[i - 1].res < 0 THEN f[i - 1]
                 ELSE [res |-> Now(i).res, out |-> f[i - 1].out \o Now(i).out]
    BY <1>5
  <2> HIDE DEF f, Is
  <2>3. 0 \in 0 .. nmemb /\ \A k \in 1 .. nmemb : k \in 0 .. nmemb /\ k # 0
    OBVIOUS
  <2>4. r[0] = f[0]
    BY <2>1, <2>2, <2>3
  <2>5. \A k \in 1 .. nmemb : r[k - 1] = f[k - 1] => r[k] = f[k]
    BY <2>1, <2>2, <2>3
  <2> QED BY <2>4, <2>5, SameSteps
<1> HIDE DEF f
<1>8. r[nmemb] = [res |-> 0, out |-> Bytes(start + pos, size * nmemb)]
  BY <1>4, <1>7
<1> QED BY <1>1, <1>8 DEF start, pos, item

(* The reference for the same bytes.                                       *)
LEMMA ContentIsBytes ==
  ASSUME NEW item, item.first \in Nat, item.first >= 2, NEW pos \in Nat, NEW length \in Nat,
         pos + length <= ClusterSize
  PROVE  Content(item, pos, length) = Bytes(ClusterStart(item.first) + pos, length)
<1> DEFINE start == ClusterStart(item.first)
<1>0. start \in Nat /\ ClusterSize \in Nat
  BY ClusterStartNat, VolumeAssumption, ProductNat DEF ClusterSize
<1>1. ASSUME NEW k \in 1 .. length
      PROVE  ContentByte(item, pos + k - 1) = start + pos + (k - 1)
  <2>1. pos + k - 1 \in 0 .. (ClusterSize - 1)
    BY <1>0
  <2>2. ContentByte(item, pos + k - 1) = start + (pos + k - 1)
    BY <2>1, FirstContent
  <2> HIDE DEF start
  <2> QED BY <1>0, <2>2
<1> HIDE DEF start
<1>2. Content(item, pos, length) = Bytes(start + pos, length)
  BY <1>1 DEF Content, Bytes
<1> QED BY <1>2 DEF start

-----------------------------------------------------------------------------
(* Every file that a path leads to is in one cluster.                      *)
Reached == UNION {Entry[path] : path \in DOMAIN Entry}
OneCluster ==
  \A item \in Reached \ {NULL} : ~IsDirectory(item) =>
    /\ item.size \in Nat /\ item.size <= ClusterSize
    /\ item.size > 0 => item.first \in Nat /\ item.first >= 2

(* The inductive invariant: the driver's descriptors have items that a     *)
(* path leads to.                                                          *)
ReadInv ==
  /\ TypeOK /\ OwnDescriptor
  /\ \A d \in Privates : fat_desc[d].item \in Reached \cup {NULL}
  /\ ReadsFile

(* What fread of a file returns.                                           *)
LEMMA ReadStep ==
  ASSUME OneCluster, TypeOK, OwnDescriptor,
         \A d \in Privates : fat_desc[d].item \in Reached \cup {NULL},
         NEW fd \in Slots, NEW size \in Sizes, NEW nmemb \in Members, fread(fd, size, nmemb)
  PROVE  ReadsFile'
<1> DEFINE d == file_descriptors[fd]
           item == fat_desc[d].item
           pos == fat_desc[d].pos
           length == size * nmemb
           read == fat16_read(d, size, nmemb)
<1>0. size \in Nat \ {0} /\ nmemb \in Nat \ {0} /\ length \in Nat /\ length > 0
  <2>1. size \in Nat \ {0} /\ nmemb \in Nat \ {0}
    BY FileTableAssumption
  <2>2. size \in 1 .. size /\ size * nmemb \in Nat /\ nmemb \in 1 .. nmemb
    BY <2>1, ProductNat
  <2>3. size * nmemb # 0
    BY <2>1
  <2> QED BY <2>1, <2>2, <2>3
<1>1. /\ file_get_descriptor(fd) = d /\ d \in Privates /\ fd \in Open
      /\ ~IsDirectory(item)
      /\ last' = [op |-> "fread", fd |-> fd, res |-> read.res, nmemb |-> nmemb,
                  length |-> length, out |-> read.out]
      /\ UNCHANGED <<filesystem, file_descriptors, fat_desc>>
  <2>1. file_get_descriptor(fd) # NULL
    BY DEF fread
  <2>2. file_get_descriptor(fd) = d /\ d \in Privates /\ fd \in Open
    BY <2>1, KnownDescriptor
  <2> QED BY <2>2 DEF fread
<1>2. item \in Reached \ {NULL} /\ pos \in Nat
  <2>1. item # NULL
    BY <1>1 DEF OwnDescriptor, Item
  <2>2. pos \in 0 .. MaxPos /\ MaxPos \in Nat
    BY <1>1, TypeFacts, FileTableAssumption DEF Descriptor
  <2> QED BY <1>1, <2>1, <2>2
<1>3. /\ item.size \in Nat /\ item.size <= ClusterSize
      /\ item.size > 0 => item.first \in Nat /\ item.first >= 2
  <2> HIDE DEF item
  <2> QED BY <1>1, <1>2 DEF OneCluster
<1>4. ASSUME pos + length <= item.size
      PROVE  read.res = nmemb /\ read.out = Content(item, pos, length)
  <2>1. item.first \in Nat /\ item.first >= 2 /\ pos + length <= ClusterSize
    <3>1. ClusterSize \in Nat
      BY VolumeAssumption, ProductNat DEF ClusterSize
    <3> HIDE DEF pos, length, item
    <3> QED BY <1>0, <1>2, <1>3, <1>4, <3>1
  <2> DEFINE bytes == Bytes(ClusterStart(item.first) + pos, length)
  <2>2. read = [res |-> nmemb, out |-> bytes]
    <3> HIDE DEF d
    <3> QED BY <1>0, <1>2, <2>1, DriverReads
  <2>3. Content(item, pos, length) = bytes
    <3> HIDE DEF item, pos, length
    <3> QED BY <1>0, <1>2, <2>1, ContentIsBytes
  <2> HIDE DEF bytes, read, item, pos, length
  <2> QED BY <2>2, <2>3
<1>5. /\ last'.op = "fread" /\ last'.fd = fd /\ last'.res = read.res /\ last'.nmemb = nmemb
      /\ last'.length = length /\ last'.out = read.out
  <2> HIDE DEF read, length
  <2> QED BY <1>1
<1>6. fat_desc'[file_descriptors'[last'.fd]] = fat_desc[d]
  BY <1>1, <1>5
<1> HIDE DEF read, length
<1> QED BY <1>4, <1>5, <1>6 DEF ReadsFile, Item

(* Every step keeps what the invariant says of contents.                   *)
LEMMA ReadInvStep ==
  ASSUME Readable, NullIsFile, OneCluster, ReadInv, [Next]_vars
  PROVE  ReadInv'
<1>0. /\ TypeOK /\ OwnDescriptor /\ TypeOK' /\ OwnDescriptor'
      /\ fat_desc \in [Privates -> Descriptor]
  BY TypeStep, OwnStep, TypeFacts DEF ReadInv
<1>1. \A d \in Privates : fat_desc[d].item \in Reached \cup {NULL}
  BY DEF ReadInv
<1>2. \A d \in Privates : fat_desc'[d].item \in Reached \cup {NULL}
  <2>1. ASSUME NEW path \in Paths, NEW mode \in Modes, fopen(path, mode)
        PROVE  \A d \in Privates : fat_desc'[d].item \in Reached \cup {NULL}
    <3>1. PICK new \in Unallocated, item \in Results(path, mode) \ {NULL} :
             fat_desc' = [fat_desc EXCEPT ![new] = [item |-> item, pos |-> 0]]
      BY <1>0, <2>1, OpenStep
    <3>2. item \in Reached
      <4>1. Searches(path, mode) /\ item \in Entry[path]
        BY DEF Results
      <4>2. path \in DOMAIN Entry
        BY <4>1 DEF Searches, Entry
      <4> QED BY <4>1, <4>2 DEF Reached
    <3> QED BY <1>0, <1>1, <3>1, <3>2
  <2>2. ASSUME NEW fd \in Slots, fclose(fd)
        PROVE  \A d \in Privates : fat_desc'[d].item \in Reached \cup {NULL}
    <3>1. fat_desc' = [fat_desc EXCEPT ![file_descriptors[fd]] = Unused]
      BY <1>0, <2>2, CloseStep
    <3>2. Unused.item = NULL
      BY DEF Unused
    <3> QED BY <1>0, <1>1, <3>1, <3>2
  <2>3. ASSUME NEW fd \in Slots, NEW offset \in Offsets, NEW whence \in Whence,
               fseek(fd, offset, whence)
        PROVE  \A d \in Privates : fat_desc'[d].item \in Reached \cup {NULL}
    <3>1. PICK at \in Privates, pos \in 0 .. MaxPos :
             fat_desc' = [fat_desc EXCEPT ![at] = [item |-> fat_desc[at].item, pos |-> pos]]
      BY <1>0, <2>3, SeekStep
    <3> QED BY <1>0, <1>1, <3>1
  <2> QED BY <1>0, <1>1, <2>1, <2>2, <2>3, Steps
<1>3. ReadsFile'
  <2>1. ASSUME NEW fd \in Slots, NEW size \in Sizes, NEW nmemb \in Members,
               fread(fd, size, nmemb)
        PROVE  ReadsFile'
    BY <1>0, <1>1, <2>1, ReadStep
  <2>2. CASE UNCHANGED vars
    BY <2>2 DEF vars, ReadInv, ReadsFile, Item
  <2>3. ASSUME last'.op # "fread" PROVE ReadsFile'
    BY <2>3 DEF ReadsFile
  <2>4. \/ \E fd \in Slots, size \in Sizes, nmemb \in Members : fread(fd, size, nmemb)
        \/ UNCHANGED vars
        \/ last'.op # "fread"
    BY DEF Next, disk_search_and_init, fopen, fopen_fails, fclose, fseek, fstat, BadDescriptor,
           Opened, Call
  <2> QED BY <2>1, <2>2, <2>3, <2>4
<1> QED BY <1>0, <1>2, <1>3 DEF ReadInv, Reached

(* fread of bytes that are in the file returns those bytes, wherever in    *)
(* the sectors of its cluster they are and however they are cut into       *)
(* members, for every size of sectors and clusters and any sequence of     *)
(* opens, seeks and closes before it, if every file is in one cluster.     *)
(* The chains of longer files are followed wrongly: the README has a       *)
(* volume that shows it.                                                   *)
THEOREM FileTableReadsFile ==
  ASSUME Readable, NullIsFile, OneCluster
  PROVE  Spec => []ReadsFile
<1>1. Init => ReadInv
  <2> SUFFICES ASSUME Init PROVE ReadInv
    OBVIOUS
  <2>1. \A d \in Privates : fat_desc[d].item = NULL
    BY DEF Init, Unused
  <2>2. ReadsFile
    BY DEF Init, Call, ReadsFile
  <2> QED BY <2>1, <2>2, InitType DEF ReadInv
<1>2. ReadInv /\ [Next]_vars => ReadInv'
  BY ReadInvStep
<1>3. ReadInv => ReadsFile
  BY DEF ReadInv
<1> QED BY <1>1, <1>2, <1>3, PTL DEF Spec

-----------------------------------------------------------------------------
(* The parts that a path can have.                                         *)
Name == {s \in Text : s # <<>> /\ \A i \in 1 .. Len(s) : s[i] # SLASH}

(* A text is a sequence of codes.                                          *)
LEMMA TextIs ==
  ASSUME NEW s \in Text
  PROVE  /\ s \in Seq(Nat) /\ Len(s) \in Nat /\ DOMAIN s = 1 .. Len(s)
         /\ \A i \in 1 .. Len(s) : s[i] \in 1 .. 255 /\ s[i] \in Nat
<1>1. Len(s) \in Nat /\ s \in [1 .. Len(s) -> 1 .. 255] /\ DOMAIN s = 1 .. Len(s)
  BY LenProperties DEF Text
<1>2. ASSUME NEW i \in 1 .. Len(s) PROVE s[i] \in 1 .. 255 /\ s[i] \in Nat
  <2>1. s[i] \in 1 .. 255
    BY ElementOfSeq DEF Text
  <2>2. \A c \in 1 .. 255 : c \in Nat
    OBVIOUS
  <2> QED BY <2>1, <2>2, Zenon
<1>3. 1 .. 255 \subseteq Nat /\ s \in Seq(1 .. 255)
  BY DEF Text
<1>4. s \in Seq(Nat)
  BY <1>3, SeqMonotonic
<1> QED BY <1>1, <1>2, <1>4

(* A part ends at the next slash or at the end of the path.                *)
LEMMA PartEnd ==
  ASSUME NEW path \in Text, NEW i \in 1 .. (Len(path) + 1)
  PROVE  \E e \in i .. (Len(path) + 1) :
           /\ \A k \in i .. (e - 1) : path[k] # SLASH
           /\ e <= Len(path) => path[e] = SLASH
           /\ pathparser_get_path_part(path, i) =
                [part |-> SubSeq(path, i, e - 1), next |-> IF e > Len(path) THEN e ELSE e + 1]
<1> DEFINE T == {j \in i .. Len(path) : path[j] = SLASH} \cup {Len(path) + 1}
           e == Least(T)
<1>0. Len(path) \in Nat
  BY DEF Text
<1>1. T \subseteq Nat /\ T # {} /\ T \subseteq i .. (Len(path) + 1)
  BY <1>0
<1>2. e \in T /\ \A j \in T : e <= j
  <2> HIDE DEF T
  <2> QED BY <1>1, LeastElement
<1>3. pathparser_get_path_part(path, i) =
        [part |-> SubSeq(path, i, e - 1), next |-> IF e > Len(path) THEN e ELSE e + 1]
  BY DEF pathparser_get_path_part
<1> HIDE DEF e
<1>4. e \in i .. (Len(path) + 1) /\ (e <= Len(path) => path[e] = SLASH)
  BY <1>0, <1>2
<1>5. \A k \in i .. (e - 1) : path[k] # SLASH
  <2> SUFFICES ASSUME NEW k \in i .. (e - 1), path[k] = SLASH PROVE FALSE
    OBVIOUS
  <2>1. k \in i .. Len(path) /\ ~(e <= k)
    BY <1>0, <1>4
  <2> QED BY <1>2, <2>1
<1> QED BY <1>3, <1>4, <1>5

(* There is only one such end.                                             *)
LEMMA PartIs ==
  ASSUME NEW path \in Text, NEW i \in 1 .. (Len(path) + 1), NEW e \in i .. (Len(path) + 1),
         \A k \in i .. (e - 1) : path[k] # SLASH, e <= Len(path) => path[e] = SLASH
  PROVE  pathparser_get_path_part(path, i) =
           [part |-> SubSeq(path, i, e - 1), next |-> IF e > Len(path) THEN e ELSE e + 1]
<1>0. Len(path) \in Nat
  BY DEF Text
<1>1. PICK f \in i .. (Len(path) + 1) :
        /\ \A k \in i .. (f - 1) : path[k] # SLASH
        /\ f <= Len(path) => path[f] = SLASH
        /\ pathparser_get_path_part(path, i) =
             [part |-> SubSeq(path, i, f - 1), next |-> IF f > Len(path) THEN f ELSE f + 1]
  BY PartEnd
<1>2. ~(f < e)
  <2> SUFFICES ASSUME f < e PROVE FALSE
    OBVIOUS
  <2>1. f \in i .. (e - 1) /\ f <= Len(path)
    BY <1>0
  <2> QED BY <1>1, <2>1
<1>3. ~(e < f)
  <2> SUFFICES ASSUME e < f PROVE FALSE
    OBVIOUS
  <2>1. e \in i .. (f - 1) /\ e <= Len(path)
    BY <1>0
  <2> QED BY <1>1, <2>1
<1>4. e = f
  BY <1>0, <1>2, <1>3
<1> QED BY <1>1, <1>4

(* The text of a path without its last slash, part by part.                *)
Texts(text, drive_no, parts) ==
  /\ text \in [0 .. Len(parts) -> Seq(Nat)]
  /\ text[0] = <<drive_no + 48, COLON>>
  /\ \A n \in 1 .. Len(parts) : text[n] = text[n - 1] \o <<SLASH>> \o parts[n]

(* Join is the last of these texts.                                        *)
LEMMA JoinTexts ==
  ASSUME NEW drive_no \in 0 .. 9, NEW parts \in Seq(Text)
  PROVE  \E text : Texts(text, drive_no, parts) /\ Join(drive_no, parts) = text[Len(parts)]
<1> DEFINE N == Len(parts)
           S == Seq(Nat)
           base == <<drive_no + 48, COLON>>
           part == [i \in Nat |-> IF i \in 1 .. N THEN parts[i] ELSE <<>>]
           next(s, i) == s \o <<SLASH>> \o part[i]
           step == [i \in Nat |-> [s \in S |-> next(s, i)]]
           Is(f) == f = [n \in 0 .. Len(parts) |->
                           IF n = 0 THEN <<drive_no + 48, COLON>>
                           ELSE f[n - 1] \o <<SLASH>> \o parts[n]]
           text == CHOOSE f : Is(f)
<1>0. N \in Nat /\ base \in S
  BY DEF COLON
<1>1. ASSUME NEW s \in S, NEW i \in Nat PROVE next(s, i) \in S
  <2>1. part[i] \in S
    <3>1. CASE i \in 1 .. N
      <4>1. parts[i] \in Text
        BY <3>1, ElementOfSeq
      <4>2. parts[i] \in Seq(Nat)
        BY <4>1, TextIs
      <4> QED BY <3>1, <4>2
    <3>2. CASE i \notin 1 .. N
      BY <3>2, EmptySeq
    <3> QED BY <3>1, <3>2
  <2>2. <<SLASH>> \in S
    BY DEF SLASH
  <2> HIDE DEF part
  <2>3. s \o <<SLASH>> \in S
    BY <2>2, ConcatProperties
  <2> QED BY <2>1, <2>3, ConcatProperties
<1>2. step \in [Nat -> [S -> S]]
  <2> HIDE DEF next, S
  <2> QED BY <1>1
<1>3. PICK g : Iterates(g, S, base, step, N)
  <2> HIDE DEF S, base, step, N
  <2> QED BY <1>0, <1>2, Recursion
<1>4. /\ g \in [0 .. N -> S] /\ g[0] = base
      /\ \A n \in 1 .. N : g[n] = g[n - 1] \o <<SLASH>> \o parts[n]
  <2>1. g \in [0 .. N -> S] /\ g[0] = base /\ \A n \in 1 .. N : g[n] = step[n][g[n - 1]]
    BY <1>3, Zenon DEF Iterates
  <2>2. ASSUME NEW n \in 1 .. N PROVE g[n] = g[n - 1] \o <<SLASH>> \o parts[n]
    <3>1. n \in Nat /\ n - 1 \in 0 .. N
      BY <1>0
    <3>2. g[n - 1] \in S /\ g[n] = step[n][g[n - 1]]
      BY <2>1, <3>1
    <3>3. step[n][g[n - 1]] = next(g[n - 1], n)
      <4> HIDE DEF next, S
      <4> QED BY <3>1, <3>2
    <3>4. part[n] = parts[n]
      BY <3>1
    <3> HIDE DEF part, step
    <3> QED BY <3>2, <3>3, <3>4
  <2> HIDE DEF S, base
  <2> QED BY <2>1, <2>2
<1>5. Is(g)
  <2>1. \A n \in 0 .. N : n # 0 => n \in 1 .. N
    BY <1>0
  <2> HIDE DEF S
  <2> QED BY <1>4, <2>1
<1>6. Is(text)
  <2> HIDE DEF Is
  <2> QED BY <1>5
<1>7. Join(drive_no, parts) = text[N]
  BY DEF Join
<1> HIDE DEF text
<1>8. text[0] = base /\ \A n \in 1 .. N : text[n] = text[n - 1] \o <<SLASH>> \o parts[n]
  <2>1. 0 \in 0 .. N /\ \A n \in 1 .. N : n \in 0 .. N /\ n # 0
    BY <1>0
  <2> QED BY <1>6, <2>1
<1>9. \A n \in 0 .. N : text[n] = g[n]
  <2> HIDE DEF Is, base, N, S
  <2>1. \A k \in 1 .. N : text[k - 1] = g[k - 1] => text[k] = g[k]
    BY <1>4, <1>8
  <2>2. text[0] = g[0]
    BY <1>4, <1>8
  <2>3. N \in Nat
    BY <1>0
  <2>4. \A k \in 0 .. N : text[k] = g[k]
    BY ONLY <2>1, <2>2, <2>3, SameSteps, SMTT(30)
  <2> QED BY <2>4
<1>10. text \in [0 .. N -> S]
  <2>1. text = [n \in 0 .. N |-> text[n]]
    BY <1>6
  <2>2. \A n \in 0 .. N : text[n] \in S
    <3> HIDE DEF S, Is, N
    <3> QED BY <1>4, <1>9
  <2> HIDE DEF S, Is, N
  <2> QED BY <2>1, <2>2
<1> HIDE DEF Is
<1> QED BY <1>7, <1>8, <1>10 DEF Texts

(* Where the parts are in the text.                                        *)
LEMMA TextBase ==
  ASSUME NEW drive_no \in 0 .. 9, NEW parts \in Seq(Text), NEW text, Texts(text, drive_no, parts)
  PROVE  Len(text[0]) = 2 /\ text[0][1] = drive_no + 48 /\ text[0][2] = COLON
BY DEF Texts

PartFollows(text, parts, n) ==
  /\ text[n - 1] \in Seq(Nat) /\ Len(text[n - 1]) \in Nat /\ text[n] \in Seq(Nat)
  /\ parts[n] \in Text /\ Len(parts[n]) \in Nat
  /\ Len(text[n]) = Len(text[n - 1]) + 1 + Len(parts[n])
  /\ \A j \in 1 .. Len(text[n - 1]) : text[n][j] = text[n - 1][j]
  /\ text[n][Len(text[n - 1]) + 1] = SLASH
  /\ \A j \in 1 .. Len(parts[n]) : text[n][Len(text[n - 1]) + 1 + j] = parts[n][j]

(* Each part follows the text before it and a slash.                       *)
LEMMA TextStep ==
  ASSUME NEW drive_no, NEW parts \in Seq(Text), NEW text, Texts(text, drive_no, parts),
         NEW n \in 1 .. Len(parts)
  PROVE  PartFollows(text, parts, n)
<1> DEFINE t == text[n - 1]
           p == parts[n]
           u == t \o <<SLASH>>
           v == u \o p
           s == <<SLASH>>
<1>1. parts[n] \in Text
  BY ElementOfSeq
<1>2. p \in Seq(Nat) /\ Len(p) \in Nat
  BY <1>1, TextIs
<1>3. t \in Seq(Nat) /\ text[n] = v
  <2>1. n - 1 \in 0 .. Len(parts)
    BY LenProperties
  <2> QED BY <2>1 DEF Texts
<1>4. Len(t) \in Nat
  BY <1>3, LenProperties
<1>5. s \in Seq(Nat) /\ Len(s) = 1 /\ s[1] = SLASH
  BY DEF SLASH
<1> HIDE DEF t, p, s
<1>6. /\ u \in Seq(Nat) /\ Len(u) = Len(t) + 1
      /\ \A j \in 1 .. (Len(t) + 1) : u[j] = IF j <= Len(t) THEN t[j] ELSE s[j - Len(t)]
  BY <1>3, <1>5, ConcatProperties DEF s
<1> HIDE DEF u
<1>7. /\ v \in Seq(Nat) /\ Len(v) = Len(t) + 1 + Len(p)
      /\ \A j \in 1 .. (Len(t) + 1 + Len(p)) :
           v[j] = IF j <= Len(t) + 1 THEN u[j] ELSE p[j - (Len(t) + 1)]
  <2>1. /\ v \in Seq(Nat) /\ Len(v) = Len(u) + Len(p)
        /\ \A j \in 1 .. (Len(u) + Len(p)) : v[j] = IF j <= Len(u) THEN u[j] ELSE p[j - Len(u)]
    <3>1. u \in Seq(Nat) /\ p \in Seq(Nat)
      BY <1>2, <1>6
    <3> QED BY ONLY <3>1, ConcatProperties, ZenonT(30)
  <2> HIDE DEF v
  <2> QED BY <1>6, <2>1, Zenon
<1> HIDE DEF v
<1>8. \A j \in 1 .. Len(t) : v[j] = t[j]
  <2>1. \A j \in 1 .. Len(t) : /\ j \in 1 .. (Len(t) + 1 + Len(p)) /\ j \in 1 .. (Len(t) + 1)
                               /\ j <= Len(t) + 1 /\ j <= Len(t)
    BY <1>2, <1>4
  <2> QED BY <1>6, <1>7, <2>1
<1>9. v[Len(t) + 1] = SLASH
  <2>1. /\ Len(t) + 1 \in 1 .. (Len(t) + 1 + Len(p)) /\ Len(t) + 1 \in 1 .. (Len(t) + 1)
        /\ Len(t) + 1 <= Len(t) + 1 /\ ~(Len(t) + 1 <= Len(t)) /\ (Len(t) + 1) - Len(t) = 1
    BY <1>2, <1>4
  <2> QED BY <1>5, <1>6, <1>7, <2>1
<1>10. ASSUME NEW j \in 1 .. Len(p) PROVE v[Len(t) + 1 + j] = p[j]
  <2>1. /\ Len(t) + 1 + j \in 1 .. (Len(t) + 1 + Len(p))
        /\ ~(Len(t) + 1 + j <= Len(t) + 1) /\ (Len(t) + 1 + j) - (Len(t) + 1) = j
    BY <1>2, <1>4
  <2> QED BY <1>7, <2>1
<1> QED BY <1>1, <1>2, <1>3, <1>4, <1>7, <1>8, <1>9, <1>10 DEF t, p, PartFollows

Begins(s, t) == Len(s) <= Len(t) /\ \A j \in 1 .. Len(s) : t[j] = s[j]

(* The text of the first parts is the beginning of the whole text.         *)
LEMMA TextPrefix ==
  ASSUME NEW drive_no \in 0 .. 9, NEW parts \in Seq(Text), NEW text,
         Texts(text, drive_no, parts), NEW n \in 0 .. Len(parts)
  PROVE  /\ Len(text[n]) \in Nat /\ text[n] \in Seq(Nat)
         /\ Begins(text[n], text[Len(parts)])
<1> DEFINE N == Len(parts)
           Pre(m) == /\ Len(text[m]) <= Len(text[N])
                     /\ \A j \in 1 .. Len(text[m]) : text[N][j] = text[m][j]
           P == {k \in Nat : k <= N => Pre(N - k)}
<1>0. N \in Nat /\ \A m \in 0 .. N : text[m] \in Seq(Nat) /\ Len(text[m]) \in Nat
  <2>1. N \in Nat /\ \A m \in 0 .. N : text[m] \in Seq(Nat)
    BY LenProperties DEF Texts
  <2> QED BY <2>1, LenProperties
<1>1. Pre(N)
  <2>1. N \in 0 .. N
    BY <1>0
  <2>2. Len(text[N]) \in Nat
    BY <1>0, <2>1
  <2> QED BY <2>2
<1>2. ASSUME NEW m \in 1 .. N, Pre(m) PROVE Pre(m - 1)
  <2> DEFINE a == Len(text[m - 1])
             b == Len(text[m])
             c == Len(text[N])
             d == Len(parts[m])
  <2>1. a \in Nat /\ b = a + 1 + d /\ d \in Nat /\ \A j \in 1 .. a : text[m][j] = text[m - 1][j]
    <3>1. PartFollows(text, parts, m)
      BY TextStep
    <3> QED BY <3>1 DEF PartFollows
  <2>2. b <= c /\ c \in Nat /\ \A j \in 1 .. b : text[N][j] = text[m][j]
    <3>1. N \in 0 .. N
      BY <1>0
    <3> QED BY <1>0, <1>2, <3>1
  <2> HIDE DEF a, b, c, d
  <2>3. a <= c /\ \A j \in 1 .. a : j \in 1 .. b
    BY <2>1, <2>2
  <2>4. \A j \in 1 .. a : text[N][j] = text[m - 1][j]
    BY <2>1, <2>2, <2>3
  <2> QED BY <2>3, <2>4 DEF a, c
<1> HIDE DEF Pre
<1>3. Nat \subseteq P
  <2>1. 0 \in P
    <3>1. N - 0 = N
      BY <1>0
    <3> QED BY <1>1, <3>1
  <2>2. ASSUME NEW k \in Nat, k \in P PROVE k + 1 \in P
    <3> SUFFICES ASSUME k + 1 <= N PROVE Pre(N - (k + 1))
      OBVIOUS
    <3>1. k <= N /\ N - k \in 1 .. N /\ (N - k) - 1 = N - (k + 1)
      BY <1>0
    <3>2. Pre(N - k)
      BY <2>2, <3>1
    <3>3. Pre((N - k) - 1)
      BY <1>2, <3>1, <3>2
    <3> QED BY <3>1, <3>3
  <2> HIDE DEF P
  <2> QED BY <2>1, <2>2, NatInductionSet
<1>4. Pre(n)
  <2>1. N - n \in Nat /\ N - n <= N /\ N - (N - n) = n
    BY <1>0
  <2>2. N - n \in P
    <3> HIDE DEF P
    <3> QED BY <1>3, <2>1
  <2>3. Pre(N - (N - n))
    BY <2>1, <2>2
  <2> QED BY <2>1, <2>3
<1>5. Len(text[n]) \in Nat /\ text[n] \in Seq(Nat)
  BY <1>0
<1> QED BY <1>4, <1>5 DEF Pre, Begins

(* The text begins with the drive and a colon.                             *)
LEMMA TextLong ==
  ASSUME NEW drive_no \in 0 .. 9, NEW parts \in Seq(Text), NEW text,
         Texts(text, drive_no, parts), NEW n \in 0 .. Len(parts)
  PROVE  Len(text[n]) \in Nat /\ Len(text[n]) >= 2
<1> DEFINE N == Len(parts)
           P == {m \in Nat : m <= N => Len(text[m]) \in Nat /\ Len(text[m]) >= 2}
<1>0. N \in Nat
  BY LenProperties
<1>1. 0 \in P
  BY TextBase
<1>2. ASSUME NEW m \in Nat, m \in P PROVE m + 1 \in P
  <2> SUFFICES ASSUME m + 1 <= N PROVE Len(text[m + 1]) \in Nat /\ Len(text[m + 1]) >= 2
    OBVIOUS
  <2>1. m + 1 \in 1 .. N /\ (m + 1) - 1 = m /\ m <= N
    BY <1>0
  <2>2. PartFollows(text, parts, m + 1)
    BY <2>1, TextStep
  <2> DEFINE a == Len(text[m])
             d == Len(parts[m + 1])
             c == Len(text[m + 1])
  <2>3. a \in Nat /\ a >= 2 /\ d \in Nat /\ c = a + 1 + d
    BY <1>2, <2>1, <2>2 DEF PartFollows
  <2> HIDE DEF a, c, d
  <2>4. c \in Nat /\ c >= 2
    BY <2>3
  <2> QED BY <2>4 DEF c
<1> HIDE DEF P
<1>3. Nat \subseteq P
  BY <1>1, <1>2, NatInductionSet
<1> QED BY <1>0, <1>3 DEF P

(* A path as the parser sees it: the n-th part and where the next begins.  *)
PartAt(path, parts, text, n) ==
  LET b == Len(text[n - 1]) + 2
      e == b + Len(parts[n])
  IN  /\ b \in 4 .. (Len(path) + 1) /\ e \in b .. (Len(path) + 1) /\ path[b - 1] = SLASH
      /\ pathparser_get_path_part(path, b) =
           [part |-> parts[n], next |-> IF e > Len(path) THEN e ELSE e + 1]
      /\ Len(text[n]) + 2 = e + 1
      /\ IF n < Len(parts) THEN e <= Len(path) ELSE e \in {Len(path), Len(path) + 1}

(* The parts that are joined into a path are the parts that are found.     *)
LEMMA JoinedPart ==
  ASSUME NEW path \in Text, NEW drive_no \in 0 .. 9, NEW parts \in Seq(Name), NEW text,
         Texts(text, drive_no, parts),
         path \in {text[Len(parts)], text[Len(parts)] \o <<SLASH>>},
         NEW n \in 1 .. Len(parts)
  PROVE  PartAt(path, parts, text, n)
<1> DEFINE N == Len(parts)
           p == parts[n]
           a == Len(text[n - 1])
           c == Len(text[n])
           d == Len(p)
           L == Len(text[N])
           W == Len(path)
<1>0. N \in Nat /\ n \in 0 .. N /\ N \in 0 .. N /\ n - 1 \in 0 .. N /\ parts \in Seq(Text)
  <2>1. N \in Nat
    BY LenProperties
  <2>2. Name \subseteq Text
    BY DEF Name
  <2>3. parts \in Seq(Text)
    BY <2>2, SeqMonotonic
  <2> QED BY <2>1, <2>3
<1>1. p \in Name /\ p \in Text /\ \A j \in 1 .. d : p[j] # SLASH /\ p[j] \in Nat
  <2>1. p \in Name
    BY ElementOfSeq
  <2> QED BY <2>1, TextIs DEF Name
<1>2. L \in Nat /\ text[N] \in Seq(Nat)
  BY <1>0, TextPrefix
<1>3. /\ W \in Nat /\ \A j \in 1 .. L : path[j] = text[N][j]
      /\ W = L \/ (W = L + 1 /\ path[L + 1] = SLASH)
  <2>1. CASE path = text[N]
    BY <1>2, <2>1
  <2>2. CASE path = text[N] \o <<SLASH>>
    <3> DEFINE s == text[N]
               z == <<SLASH>>
    <3>1. z \in Seq(Nat) /\ Len(z) = 1 /\ z[1] = SLASH
      BY DEF SLASH
    <3> HIDE DEF z
    <3>2. /\ Len(s \o z) = Len(s) + Len(z)
          /\ \A i \in 1 .. (Len(s) + Len(z)) :
               (s \o z)[i] = IF i <= Len(s) THEN s[i] ELSE z[i - Len(s)]
      BY <1>2, <3>1, ConcatProperties
    <3>3. path = s \o z
      BY <2>2 DEF z
    <3>4. W = L + 1
      BY <3>1, <3>2, <3>3
    <3>5. \A i \in 1 .. (L + 1) : path[i] = IF i <= L THEN s[i] ELSE z[i - L]
      BY <3>1, <3>2, <3>3
    <3> HIDE DEF L, s
    <3>6. \A i \in 1 .. L : path[i] = s[i]
      <4>1. \A i \in 1 .. L : i \in 1 .. (L + 1) /\ i <= L
        BY <1>2
      <4> QED BY <3>5, <4>1
    <3>7. path[L + 1] = SLASH
      <4>1. L + 1 \in 1 .. (L + 1) /\ ~(L + 1 <= L) /\ (L + 1) - L = 1
        BY <1>2
      <4> QED BY <3>1, <3>5, <4>1
    <3> QED BY <1>2, <3>4, <3>6, <3>7 DEF s
  <2> QED BY <2>1, <2>2
<1>4. /\ a \in Nat /\ d \in Nat /\ c = a + 1 + d
      /\ text[n][a + 1] = SLASH /\ \A j \in 1 .. d : text[n][a + 1 + j] = p[j]
  <2>1. PartFollows(text, parts, n)
    BY <1>0, TextStep
  <2> QED BY <2>1 DEF PartFollows
<1>5. c <= L /\ \A j \in 1 .. c : text[N][j] = text[n][j]
  <2>1. Begins(text[n], text[N])
    BY <1>0, TextPrefix
  <2> QED BY <2>1 DEF Begins
<1>6. a >= 2
  BY <1>0, TextLong
<1>7. n < N => /\ c + 1 <= L /\ text[N][c + 1] = SLASH
  <2> SUFFICES ASSUME n < N PROVE c + 1 <= L /\ text[N][c + 1] = SLASH
    OBVIOUS
  <2>1. n + 1 \in 1 .. N /\ (n + 1) - 1 = n /\ n + 1 \in 0 .. N
    BY <1>0
  <2> DEFINE f == Len(text[n + 1])
             g == Len(parts[n + 1])
  <2>2. f = c + 1 + g /\ g \in Nat /\ text[n + 1][c + 1] = SLASH /\ c \in Nat
    <3>1. PartFollows(text, parts, n + 1)
      BY <1>0, <2>1, TextStep
    <3> QED BY <2>1, <3>1 DEF PartFollows
  <2>3. f <= L /\ \A j \in 1 .. f : text[N][j] = text[n + 1][j]
    <3> DEFINE m == n + 1
    <3> HIDE DEF m
    <3>1. m \in 0 .. Len(parts)
      BY <2>1 DEF m
    <3>2. Begins(text[m], text[N])
      BY <1>0, <3>1, TextPrefix
    <3> QED BY <3>2 DEF m, Begins
  <2> HIDE DEF f, g, c, L
  <2>4. c + 1 \in 1 .. f /\ c + 1 <= L
    BY <1>2, <2>2, <2>3
  <2> QED BY <2>2, <2>3, <2>4
<1> HIDE DEF L, W, a, c, d, p
<1> DEFINE b == a + 2
           e == b + d
<1>8. b \in 4 .. (W + 1) /\ e \in b .. (W + 1) /\ e = c + 1 /\ c <= W
  BY <1>2, <1>3, <1>4, <1>5, <1>6
<1>9. path[b - 1] = SLASH /\ \A j \in 1 .. d : path[b + j - 1] = p[j]
  <2>1. b - 1 = a + 1 /\ a + 1 \in 1 .. c /\ a + 1 \in 1 .. L
    BY <1>2, <1>4, <1>5
  <2>2. \A j \in 1 .. d : b + j - 1 = a + 1 + j /\ a + 1 + j \in 1 .. c /\ a + 1 + j \in 1 .. L
    BY <1>2, <1>4, <1>5
  <2>3. path[a + 1] = text[n][a + 1]
    BY <1>3, <1>5, <2>1
  <2>4. ASSUME NEW j \in 1 .. d PROVE path[b + j - 1] = p[j]
    <3>1. path[a + 1 + j] = text[n][a + 1 + j]
      BY <1>3, <1>5, <2>2
    <3>2. b + j - 1 = a + 1 + j
      BY <2>2
    <3> HIDE DEF b
    <3> QED BY <1>4, <3>1, <3>2
  <2> HIDE DEF b
  <2> QED BY <1>4, <2>1, <2>3, <2>4
<1>10. e <= W => path[e] = SLASH
  <2>1. CASE n < N
    <3>1. c + 1 \in 1 .. L
      BY <1>2, <1>4, <1>7, <2>1
    <3>2. path[c + 1] = SLASH
      BY <1>3, <1>7, <2>1, <3>1
    <3> HIDE DEF e
    <3> QED BY <1>8, <3>2
  <2>2. CASE ~(n < N)
    <3>1. n = N
      BY <1>0, <2>2
    <3>2. c = L
      BY <3>1 DEF c, L
    <3> HIDE DEF e
    <3> QED BY <1>2, <1>3, <1>8, <3>2
  <2> QED BY <2>1, <2>2
<1>11. \A k \in b .. (e - 1) : path[k] # SLASH
  <2> SUFFICES ASSUME NEW k \in b .. (e - 1) PROVE path[k] # SLASH
    OBVIOUS
  <2> DEFINE j == k - b + 1
  <2>1. j \in 1 .. d /\ b + j - 1 = k
    BY <1>4, <1>8
  <2>2. path[b + j - 1] = p[j] /\ p[j] # SLASH
    <3> HIDE DEF j, b
    <3> QED BY <1>1, <1>9, <2>1 DEF d
  <2> HIDE DEF j, b
  <2> QED BY <2>1, <2>2
<1>12. SubSeq(path, b, e - 1) = p
  <2> DEFINE q == SubSeq(path, b, e - 1)
             m == e - 1
  <2>1. b \in Int /\ m \in Int /\ m - b + 1 = d /\ (IF b <= m THEN m - b + 1 ELSE 0) = d
        /\ \A i \in b .. m : i \in 1 .. W
    <3>1. e = b + d /\ b \in 4 .. (W + 1) /\ e \in b .. (W + 1) /\ d \in Nat /\ W \in Nat
      BY <1>3, <1>4, <1>8
    <3> HIDE DEF b, e
    <3> QED BY <3>1
  <2>2. \A i \in b .. m : path[i] \in Nat
    <3> HIDE DEF b, m
    <3> QED BY <2>1, TextIs DEF W
  <2>3. q = SubSeq(path, b, m)
    OBVIOUS
  <2> HIDE DEF q, m, b
  <2>4. q \in Seq(Nat) /\ Len(q) = d /\ \A i \in 1 .. d : q[i] = path[b + i - 1]
    BY <2>1, <2>2, <2>3, SubSeqProperties
  <2>5. p \in Seq(Nat) /\ Len(p) = d
    BY <1>1, TextIs DEF d
  <2>6. \A i \in 1 .. d : q[i] = p[i]
    BY <1>9, <2>4
  <2>7. q = p
    BY <2>4, <2>5, <2>6, SeqEqual
  <2> QED BY <2>7 DEF q
<1>13. pathparser_get_path_part(path, b) = [part |-> p, next |-> IF e > W THEN e ELSE e + 1]
  <2>1. /\ b \in 1 .. (Len(path) + 1) /\ e \in b .. (Len(path) + 1)
        /\ e <= Len(path) => path[e] = SLASH
    BY <1>3, <1>8, <1>10 DEF W
  <2> HIDE DEF b, e
  <2> QED BY <1>11, <1>12, <2>1, PartIs DEF W
<1>14. IF n < N THEN e <= W ELSE e \in {W, W + 1}
  <2>1. CASE n < N
    BY <1>2, <1>3, <1>7, <1>8, <2>1
  <2>2. CASE ~(n < N)
    <3>1. n = N
      BY <1>0, <2>2
    <3>2. c = L
      BY <3>1 DEF c, L
    <3> HIDE DEF e
    <3> QED BY <1>2, <1>3, <1>8, <2>2, <3>2
  <2> QED BY <2>1, <2>2
<1>15. c + 2 = e + 1
  BY <1>4, <1>8
<1> HIDE DEF b, e
<1> QED BY <1>8, <1>9, <1>13, <1>14, <1>15 DEF PartAt, b, e, a, c, d, p, W, N

(* Behind the end of a path there are no parts.                            *)
LEMMA PartsEnd ==
  ASSUME NEW path \in Text
  PROVE  pathparser_parse_path_part(path, Len(path) + 1) = <<>>
<1> DEFINE e == Len(path) + 1
<1>0. Len(path) \in Nat
  BY TextIs
<1>1. /\ e \in 1 .. (Len(path) + 1) /\ e \in e .. (Len(path) + 1) /\ ~(e <= Len(path))
      /\ e \in Int /\ e - 1 \in Int /\ e - 1 < e /\ \A k \in e .. (e - 1) : FALSE
  BY <1>0
<1> HIDE DEF e
<1>2. pathparser_get_path_part(path, e) =
        [part |-> SubSeq(path, e, e - 1), next |-> IF e > Len(path) THEN e ELSE e + 1]
  BY <1>1, PartIs
<1>3. SubSeq(path, e, e - 1) = <<>>
  BY <1>1, SubSeqEmpty
<1>4. pathparser_get_path_part(path, e).part = <<>>
  BY <1>2, <1>3
<1>5. pathparser_parse_path_part(path, e) = <<>>
  BY <1>1, <1>4, PathParts
<1> QED BY <1>5 DEF e

(* The parts from position b on are the parts after the first n.           *)
RestIs(path, parts, b, n) ==
  LET rest == pathparser_parse_path_part(path, b)
  IN  /\ rest \in Seq(Text) /\ Len(rest) = Len(parts) - n
      /\ \A i \in 1 .. (Len(parts) - n) : rest[i] = parts[n + i]

(* A list is its first element and the rest.                               *)
LEMMA Cons ==
  ASSUME NEW S, NEW x \in S, NEW s \in Seq(S)
  PROVE  /\ <<x>> \o s \in Seq(S) /\ Len(s) \in Nat /\ Len(<<x>> \o s) = Len(s) + 1
         /\ (<<x>> \o s)[1] = x
         /\ \A i \in 1 .. Len(s) : (<<x>> \o s)[i + 1] = s[i]
<1> DEFINE y == <<x>>
<1>1. y \in Seq(S) /\ Len(y) = 1 /\ y[1] = x /\ Len(s) \in Nat
  OBVIOUS
<1> HIDE DEF y
<1>2. /\ y \o s \in Seq(S) /\ Len(y \o s) = 1 + Len(s)
      /\ \A i \in 1 .. (1 + Len(s)) : (y \o s)[i] = IF i <= 1 THEN y[i] ELSE s[i - 1]
  BY <1>1, ConcatProperties, SMTT(30)
<1>3. (y \o s)[1] = x
  <2>1. 1 \in 1 .. (1 + Len(s))
    BY <1>1
  <2> QED BY <1>1, <1>2, <2>1
<1>4. ASSUME NEW i \in 1 .. Len(s) PROVE (y \o s)[i + 1] = s[i]
  <2>1. i + 1 \in 1 .. (1 + Len(s)) /\ ~(i + 1 <= 1) /\ (i + 1) - 1 = i
    BY <1>1
  <2> QED BY <1>2, <2>1
<1>5. 1 + Len(s) = Len(s) + 1
  BY <1>1
<1> QED BY <1>1, <1>2, <1>3, <1>4, <1>5 DEF y

(* pathparser_parse_path_part finds the parts that were joined.            *)
LEMMA JoinedParts ==
  ASSUME NEW path \in Text, NEW drive_no \in 0 .. 9, NEW parts \in Seq(Name), parts # <<>>,
         NEW text, Texts(text, drive_no, parts),
         path \in {text[Len(parts)], text[Len(parts)] \o <<SLASH>>}
  PROVE  pathparser_parse_path_part(path, 4) = parts
<1> DEFINE N == Len(parts)
           Rest(n) == RestIs(path, parts, Len(text[n]) + 2, n)
           P == {k \in Nat : k < N => Rest(N - 1 - k)}
<1>0. N \in Nat /\ N >= 1 /\ parts \in Seq(Text)
  <2>1. Name \subseteq Text
    BY DEF Name
  <2>2. N \in Nat \ {0}
    BY EmptySeq
  <2> QED BY <2>1, <2>2, SeqMonotonic
<1>1. ASSUME NEW n \in 1 .. N, n < N => Rest(n)
      PROVE  Rest(n - 1)
  <2> DEFINE b == Len(text[n - 1]) + 2
             e == b + Len(parts[n])
             W == Len(path)
             next == IF e > W THEN e ELSE e + 1
             rest == pathparser_parse_path_part(path, next)
             all == pathparser_parse_path_part(path, b)
             x == parts[n]
  <2>0. W \in Nat /\ x \in Text /\ x # <<>>
    <3>1. x \in Name
      BY ElementOfSeq
    <3> QED BY <3>1, TextIs DEF Name
  <2>1. /\ b \in 4 .. (W + 1) /\ e \in b .. (W + 1)
        /\ pathparser_get_path_part(path, b) = [part |-> x, next |-> next]
        /\ Len(text[n]) + 2 = e + 1
        /\ IF n < N THEN e <= W ELSE e \in {W, W + 1}
    <3>1. PartAt(path, parts, text, n)
      BY JoinedPart
    <3> QED BY <3>1 DEF PartAt
  <2> HIDE DEF b, e
  <2>2. b \in 1 .. (W + 1) /\ next \in 1 .. (W + 1)
    BY <2>0, <2>1
  <2>3. all = <<x>> \o rest /\ rest \in Seq(Text)
    <3>1. /\ pathparser_get_path_part(path, b).part = x
          /\ pathparser_get_path_part(path, b).next = next
      <4> HIDE DEF x, next
      <4> QED BY <2>1
    <3> HIDE DEF next, x
    <3>2. all = <<x>> \o rest
      BY <2>0, <2>2, <3>1, PathParts
    <3> QED BY <2>2, <3>2, PathParts
  <2>4. Len(rest) = N - n /\ \A i \in 1 .. (N - n) : rest[i] = parts[n + i]
    <3>1. CASE n < N
      <4>1. next = Len(text[n]) + 2
        BY <2>0, <2>1, <3>1
      <4> HIDE DEF next
      <4> QED BY <1>1, <3>1, <4>1 DEF RestIs
    <3>2. CASE ~(n < N)
      <4>1. n = N /\ N - n = 0
        BY <1>0, <3>2
      <4>2. next = W + 1
        BY <2>0, <2>1, <3>2
      <4> HIDE DEF next
      <4>3. rest = <<>>
        BY <4>2, PartsEnd
      <4> HIDE DEF rest
      <4> QED BY <4>1, <4>3
    <3> QED BY <3>1, <3>2
  <2> HIDE DEF next, rest, all, x
  <2>5. /\ all \in Seq(Text) /\ Len(rest) \in Nat /\ Len(all) = Len(rest) + 1 /\ all[1] = x
        /\ \A i \in 1 .. Len(rest) : all[i + 1] = rest[i]
    BY <2>0, <2>3, Cons
  <2>6. Len(all) = N - (n - 1)
    BY <1>0, <2>4, <2>5
  <2>7. ASSUME NEW i \in 1 .. (N - (n - 1)) PROVE all[i] = parts[(n - 1) + i]
    <3>1. CASE i = 1
      <4>1. (n - 1) + i = n
        BY <1>0, <3>1
      <4> QED BY <2>5, <3>1, <4>1 DEF x
    <3>2. CASE i # 1
      <4>1. i - 1 \in 1 .. (N - n) /\ (i - 1) + 1 = i /\ n + (i - 1) = (n - 1) + i
        BY <1>0, <3>2
      <4>2. all[(i - 1) + 1] = rest[i - 1] /\ rest[i - 1] = parts[n + (i - 1)]
        BY <2>4, <2>5, <4>1
      <4> QED BY <4>1, <4>2
    <3> QED BY <3>1, <3>2
  <2> QED BY <2>5, <2>6, <2>7 DEF RestIs, all, b
<1> HIDE DEF Rest
<1>2. Nat \subseteq P
  <2>1. 0 \in P
    <3>1. N \in 1 .. N /\ ~(N < N) /\ N - 1 - 0 = N - 1
      BY <1>0
    <3>2. Rest(N - 1)
      BY <1>1, <3>1
    <3> QED BY <3>1, <3>2
  <2>2. ASSUME NEW k \in Nat, k \in P PROVE k + 1 \in P
    <3> SUFFICES ASSUME k + 1 < N PROVE Rest(N - 1 - (k + 1))
      OBVIOUS
    <3>1. N - 1 - k \in 1 .. N /\ (N - 1 - k) - 1 = N - 1 - (k + 1) /\ k < N
      BY <1>0
    <3>2. Rest(N - 1 - k)
      BY <2>2, <3>1
    <3>3. Rest((N - 1 - k) - 1)
      BY <1>1, <3>1, <3>2
    <3> QED BY <3>1, <3>3
  <2> HIDE DEF P
  <2> QED BY <2>1, <2>2, NatInductionSet
<1>3. Rest(0)
  <2>1. N - 1 \in Nat /\ N - 1 < N /\ N - 1 - (N - 1) = 0
    BY <1>0
  <2>2. N - 1 \in P
    <3> HIDE DEF P
    <3> QED BY <1>2, <2>1
  <2>3. Rest(N - 1 - (N - 1))
    BY <2>1, <2>2
  <2> QED BY <2>1, <2>3
<1>4. Len(text[0]) + 2 = 4
  <2>1. Len(text[0]) = 2
    BY <1>0, TextBase
  <2> QED BY <2>1
<1> DEFINE all == pathparser_parse_path_part(path, 4)
<1>5. all \in Seq(Text) /\ Len(all) = N - 0 /\ \A i \in 1 .. (N - 0) : all[i] = parts[0 + i]
  BY <1>3, <1>4 DEF Rest, RestIs
<1>6. N - 0 = N /\ \A i \in 1 .. N : 0 + i = i
  BY <1>0
<1> HIDE DEF all
<1>7. all = parts
  <2>1. Len(all) = Len(parts) /\ \A i \in 1 .. Len(all) : all[i] = parts[i]
    BY <1>5, <1>6
  <2> QED BY <1>0, <1>5, <2>1, SeqEqual
<1> QED BY <1>7 DEF all

(* What is between two slashes is a name.                                  *)
LEMMA PartText ==
  ASSUME NEW path \in Text, NEW b \in 1 .. (Len(path) + 1), NEW e \in b .. (Len(path) + 1),
         \A k \in b .. (e - 1) : path[k] # SLASH
  PROVE  LET p == SubSeq(path, b, e - 1)
         IN  /\ p \in Text /\ Len(p) = e - b /\ (p # <<>> => p \in Name)
             /\ \A i \in 1 .. (e - b) : p[i] = path[b + i - 1]
<1> DEFINE p == SubSeq(path, b, e - 1)
<1>0. Len(path) \in Nat
  BY TextIs
<1>1. b \in Int /\ e \in Int /\ e - 1 \in Int /\ b <= e
  BY <1>0
<1>2. /\ p \in Text /\ Len(p) = e - b /\ \A i \in 1 .. (e - b) : p[i] = path[b + i - 1]
  <2>1. CASE b = e
    <3>1. p = <<>>
      BY <1>1, <2>1, SubSeqEmpty
    <3> HIDE DEF p
    <3>2. e - b = 0
      BY <1>1, <2>1
    <3> QED BY <3>1, <3>2 DEF Text
  <2>2. CASE b # e
    <3>1. b \in 1 .. Len(path) /\ e - 1 \in 1 .. Len(path) /\ b <= e - 1 /\ (e - 1) - b + 1 = e - b
      BY <1>0, <1>1, <2>2
    <3>2. b \in Int /\ e - 1 \in Int
      BY <1>1
    <3>3. /\ p \in Seq(1 .. 255) /\ Len(p) = (e - 1) - b + 1
          /\ \A i \in 1 .. ((e - 1) - b + 1) : p[i] = path[b + i - 1]
      <4>1. \A i \in b .. (e - 1) : path[i] \in 1 .. 255
        <5>1. \A i \in b .. (e - 1) : i \in 1 .. Len(path)
          BY <1>0, <3>1
        <5> QED BY <5>1, TextIs
      <4>2. /\ p \in Seq(1 .. 255) /\ Len(p) = (IF b <= e - 1 THEN (e - 1) - b + 1 ELSE 0)
            /\ \A i \in 1 .. ((e - 1) - b + 1) : p[i] = path[b + i - 1]
        BY <3>2, <4>1, SubSeqProperties
      <4> QED BY <3>1, <4>2
    <3> HIDE DEF p
    <3> QED BY <3>1, <3>3 DEF Text
  <2> QED BY <2>1, <2>2
<1> HIDE DEF p
<1>3. ASSUME p # <<>> PROVE p \in Name
  <2>1. \A i \in 1 .. Len(p) : b + i - 1 \in b .. (e - 1)
    BY <1>1, <1>2
  <2> QED BY <1>2, <1>3, <2>1 DEF Name
<1> QED BY <1>2, <1>3 DEF p

NoDoubleSlash(path) == \A i \in 2 .. Len(path) : ~(path[i - 1] = SLASH /\ path[i] = SLASH)

(* The next part of a path: the list is empty only at the end of the path. *)
PartNext(path, b) ==
  LET rest == pathparser_parse_path_part(path, b)
  IN  \/ rest = <<>> /\ b = Len(path) + 1
      \/ \E e \in (b + 1) .. (Len(path) + 1) :
           LET p == SubSeq(path, b, e - 1)
           IN  /\ p \in Name /\ Len(p) = e - b /\ (e <= Len(path) => path[e] = SLASH)
               /\ \A i \in 1 .. (e - b) : p[i] = path[b + i - 1]
               /\ rest = <<p>> \o pathparser_parse_path_part(
                                   path, IF e > Len(path) THEN e ELSE e + 1)

(* With single slashes, the parser stops only at the end of the path.      *)
LEMMA ParsedPart ==
  ASSUME NEW path \in Text, NoDoubleSlash(path), NEW b \in 4 .. (Len(path) + 1),
         path[b - 1] = SLASH
  PROVE  PartNext(path, b)
<1> DEFINE rest == pathparser_parse_path_part(path, b)
<1>0. Len(path) \in Nat /\ b \in 1 .. (Len(path) + 1) /\ b \in Int
  BY TextIs
<1>1. PICK e \in b .. (Len(path) + 1) :
        /\ \A k \in b .. (e - 1) : path[k] # SLASH
        /\ e <= Len(path) => path[e] = SLASH
        /\ pathparser_get_path_part(path, b) =
             [part |-> SubSeq(path, b, e - 1), next |-> IF e > Len(path) THEN e ELSE e + 1]
  BY <1>0, PartEnd
<1> DEFINE p == SubSeq(path, b, e - 1)
           next == IF e > Len(path) THEN e ELSE e + 1
<1>2. /\ p \in Text /\ Len(p) = e - b /\ (p # <<>> => p \in Name)
      /\ \A i \in 1 .. (e - b) : p[i] = path[b + i - 1]
  BY <1>0, <1>1, PartText
<1>3. rest = IF p = <<>> THEN <<>> ELSE <<p>> \o pathparser_parse_path_part(path, next)
  <2>1. /\ pathparser_get_path_part(path, b).part = p
        /\ pathparser_get_path_part(path, b).next = next
    <3> HIDE DEF p, next
    <3> QED BY <1>1 DEF p, next
  <2> HIDE DEF p, next
  <2> QED BY <1>0, <2>1, PathParts
<1>4. CASE e = b
  <2>1. ~(e <= Len(path))
    <3> SUFFICES ASSUME e <= Len(path) PROVE FALSE
      OBVIOUS
    <3>1. b \in 2 .. Len(path) /\ path[b] = SLASH
      BY <1>0, <1>1, <1>4
    <3> QED BY <3>1 DEF NoDoubleSlash
  <2>2. b = Len(path) + 1
    BY <1>0, <1>4, <2>1
  <2>3. rest = <<>>
    BY <2>2, PartsEnd
  <2> HIDE DEF rest
  <2> QED BY <2>2, <2>3 DEF PartNext, rest
<1>5. CASE e # b
  <2>1. e \in (b + 1) .. (Len(path) + 1) /\ e - b > 0
    BY <1>0, <1>5
  <2>2. p # <<>>
    <3> HIDE DEF p
    <3> QED BY <1>2, <2>1
  <2>3. p \in Name /\ rest = <<p>> \o pathparser_parse_path_part(path, next)
    <3> HIDE DEF p, next, rest
    <3> QED BY <1>2, <1>3, <2>2
  <2> QED BY <1>1, <1>2, <2>1, <2>3 DEF PartNext
<1> QED BY <1>4, <1>5

(* The first n parts are where their text says, and the parts that follow  *)
(* are the others.                                                         *)
ParsedTo(path, parts, text, n) ==
  LET b == Len(text[n]) + 2
  IN  /\ Begins(text[n], path) /\ \A m \in 1 .. n : parts[m] \in Name
      /\ \/ n = Len(parts) /\ Len(path) = Len(text[n])
         \/ /\ b \in 4 .. (Len(path) + 1) /\ path[b - 1] = SLASH
            /\ RestIs(path, parts, b, n)

(* The parser goes on from there.                                          *)
LEMMA ParsedToNext ==
  ASSUME NEW path \in Text, NoDoubleSlash(path), NEW drive_no \in 0 .. 9,
         NEW parts \in Seq(Text), NEW text, Texts(text, drive_no, parts),
         NEW n \in 0 .. (Len(parts) - 1), ParsedTo(path, parts, text, n)
  PROVE  ParsedTo(path, parts, text, n + 1)
<1> DEFINE N == Len(parts)
           W == Len(path)
           a == Len(text[n])
           c == Len(text[n + 1])
           b == a + 2
           q == parts[n + 1]
           d == Len(q)
           rest == pathparser_parse_path_part(path, b)
<1>0. W \in Nat /\ N \in Nat /\ n \in Nat /\ n < N /\ n + 1 \in 1 .. N /\ (n + 1) - 1 = n
  BY TextIs, LenProperties
<1>1. /\ a \in Nat /\ text[n + 1] \in Seq(Nat) /\ q \in Text /\ d \in Nat /\ c = a + 1 + d
      /\ \A j \in 1 .. a : text[n + 1][j] = text[n][j]
      /\ text[n + 1][a + 1] = SLASH
      /\ \A j \in 1 .. d : text[n + 1][a + 1 + j] = q[j]
  <2>1. PartFollows(text, parts, n + 1)
    BY <1>0, TextStep
  <2> QED BY <1>0, <2>1 DEF PartFollows
<1>2. /\ a <= W /\ (\A j \in 1 .. a : path[j] = text[n][j]) /\ \A m \in 1 .. n : parts[m] \in Name
      /\ b \in 4 .. (W + 1) /\ path[b - 1] = SLASH /\ rest \in Seq(Text) /\ Len(rest) = N - n
      /\ \A i \in 1 .. (N - n) : rest[i] = parts[n + i]
  <2>1. n # N
    BY <1>0
  <2> QED BY <2>1 DEF ParsedTo, Begins, RestIs
<1>3. PartNext(path, b)
  <2> HIDE DEF b
  <2> QED BY <1>2, ParsedPart
<1>4. rest # <<>>
  <2> HIDE DEF rest
  <2> QED BY <1>0, <1>2
<1>5. PICK e \in (b + 1) .. (W + 1) :
        LET p == SubSeq(path, b, e - 1)
        IN  /\ p \in Name /\ Len(p) = e - b /\ (e <= W => path[e] = SLASH)
            /\ \A i \in 1 .. (e - b) : p[i] = path[b + i - 1]
            /\ rest = <<p>> \o pathparser_parse_path_part(path, IF e > W THEN e ELSE e + 1)
  BY <1>3, <1>4 DEF PartNext
<1> DEFINE p == SubSeq(path, b, e - 1)
           next == IF e > W THEN e ELSE e + 1
           more == pathparser_parse_path_part(path, next)
<1>6. /\ p \in Name /\ p \in Text /\ Len(p) = e - b /\ (e <= W => path[e] = SLASH)
      /\ \A i \in 1 .. (e - b) : p[i] = path[b + i - 1]
      /\ rest = <<p>> \o more
  BY <1>5 DEF Name
<1> HIDE DEF W, a, c, d, q, N
<1>7. e \in Int /\ b \in Int /\ next \in 1 .. (W + 1)
  BY <1>0, <1>1, <1>5
<1>8. more \in Seq(Text)
  <2> HIDE DEF next
  <2> QED BY <1>7, PathParts DEF W
<1> HIDE DEF p, next, more, rest
<1>9. /\ Len(more) \in Nat /\ Len(rest) = Len(more) + 1 /\ rest[1] = p
      /\ \A i \in 1 .. Len(more) : rest[i + 1] = more[i]
  BY <1>6, <1>8, Cons
<1>10. q = p /\ d = e - b
  <2>1. 1 \in 1 .. (N - n)
    BY <1>0
  <2> QED BY <1>2, <1>6, <1>9, <2>1 DEF q, d
<1>11. c = e - 1 /\ c <= W
  BY <1>0, <1>1, <1>7, <1>5, <1>10
<1>12. ASSUME NEW j \in 1 .. c PROVE path[j] = text[n + 1][j]
  <2>1. CASE j <= a
    <3>1. j \in 1 .. a
      BY <1>1, <2>1
    <3> QED BY <1>1, <1>2, <3>1
  <2>2. CASE j = a + 1
    <3>1. b - 1 = a + 1
      BY <1>1
    <3> QED BY <1>1, <1>2, <2>2, <3>1
  <2>3. CASE j > a + 1
    <3> DEFINE i == j - (a + 1)
    <3>1. i \in 1 .. d /\ i \in 1 .. (e - b) /\ a + 1 + i = j /\ b + i - 1 = j
      BY <1>1, <1>7, <1>10, <1>11, <2>3
    <3> HIDE DEF i
    <3>2. text[n + 1][j] = q[i] /\ p[i] = path[j]
      BY <1>1, <1>6, <3>1
    <3> QED BY <1>10, <3>2
  <2> QED BY <1>1, <1>7, <1>11, <2>1, <2>2, <2>3
<1>13. Begins(text[n + 1], path)
  BY <1>11, <1>12 DEF Begins, c, W
<1>14. ASSUME NEW m \in 1 .. (n + 1) PROVE parts[m] \in Name
  <2>1. m \in 1 .. n \/ m = n + 1
    BY <1>0
  <2> QED BY <1>2, <1>6, <1>10, <2>1 DEF q
<1>15. /\ Len(more) = N - (n + 1)
       /\ \A i \in 1 .. (N - (n + 1)) : more[i] = parts[(n + 1) + i]
  <2>1. Len(more) = N - (n + 1)
    <3>1. Len(rest) = N - n
      BY <1>2
    <3>2. Len(more) \in Nat /\ Len(rest) = Len(more) + 1
      BY <1>9
    <3> HIDE DEF b
    <3> QED BY ONLY <1>0, <3>1, <3>2, n \in Nat, SMT
  <2>2. ASSUME NEW i \in 1 .. (N - (n + 1)) PROVE more[i] = parts[(n + 1) + i]
    <3>1. i + 1 \in 1 .. (N - n) /\ i \in 1 .. Len(more) /\ n + (i + 1) = (n + 1) + i
      BY <1>0, <2>1
    <3> QED BY <1>2, <1>9, <3>1
  <2> QED BY <2>1, <2>2
<1>16. CASE e <= W
  <2>1. next = c + 2 /\ c + 2 \in 4 .. (W + 1) /\ (c + 2) - 1 = e
    BY <1>0, <1>2, <1>5, <1>7, <1>11, <1>16, SMTT(30) DEF next
  <2>2. RestIs(path, parts, c + 2, n + 1)
    BY <1>8, <1>15, <2>1 DEF RestIs, more, N
  <2>3. c + 2 = Len(text[n + 1]) + 2
    BY DEF c
  <2>4. path[(c + 2) - 1] = SLASH
    BY <1>6, <1>16, <2>1
  <2> QED BY <1>13, <1>14, <2>1, <2>2, <2>3, <2>4 DEF ParsedTo, W
<1>17. CASE ~(e <= W)
  <2>1. e = W + 1 /\ next = W + 1 /\ c = W
    BY <1>0, <1>5, <1>7, <1>11, <1>17 DEF next
  <2>2. more = <<>>
    BY <2>1, PartsEnd DEF more, W
  <2>3. n + 1 = N
    BY <1>0, <1>15, <2>2
  <2> QED BY <1>13, <1>14, <2>1, <2>3 DEF ParsedTo, W, N, c
<1> QED BY <1>16, <1>17

(* A slash at the end.                                                     *)
LEMMA WithSlash ==
  ASSUME NEW t \in Seq(Nat)
  PROVE  /\ Len(t) \in Nat /\ t \o <<SLASH>> \in Seq(Nat) /\ Len(t \o <<SLASH>>) = Len(t) + 1
         /\ \A j \in 1 .. Len(t) : (t \o <<SLASH>>)[j] = t[j]
         /\ (t \o <<SLASH>>)[Len(t) + 1] = SLASH
<1> DEFINE s == <<SLASH>>
<1>1. s \in Seq(Nat) /\ Len(s) = 1 /\ s[1] = SLASH /\ Len(t) \in Nat
  BY DEF SLASH
<1> HIDE DEF s
<1>2. /\ t \o s \in Seq(Nat) /\ Len(t \o s) = Len(t) + Len(s)
      /\ \A j \in 1 .. (Len(t) + Len(s)) : (t \o s)[j] = IF j <= Len(t) THEN t[j] ELSE s[j - Len(t)]
  BY <1>1, ConcatProperties
<1>3. /\ Len(t) + 1 \in 1 .. (Len(t) + Len(s)) /\ ~(Len(t) + 1 <= Len(t))
      /\ (Len(t) + 1) - Len(t) = 1
      /\ \A j \in 1 .. Len(t) : j \in 1 .. (Len(t) + Len(s)) /\ j <= Len(t)
  BY <1>1
<1>4. (t \o s)[Len(t) + 1] = SLASH /\ \A j \in 1 .. Len(t) : (t \o s)[j] = t[j]
  BY <1>1, <1>2, <1>3
<1> QED BY <1>1, <1>2, <1>4 DEF s

(* A path with single slashes is its drive and the parts that are found.   *)
LEMMA ParsedJoins ==
  ASSUME NEW path \in Text, NoDoubleSlash(path), NEW drive_no \in 0 .. 9, 3 <= Len(path),
         path[1] = drive_no + 48, path[2] = COLON, path[3] = SLASH,
         NEW parts, parts = pathparser_parse_path_part(path, 4), NEW text,
         Texts(text, drive_no, parts)
  PROVE  /\ parts \in Seq(Name)
         /\ path \in {text[Len(parts)], text[Len(parts)] \o <<SLASH>>}
<1> DEFINE N == Len(parts)
           W == Len(path)
           P == {n \in Nat : n <= N => ParsedTo(path, parts, text, n)}
<1>0. W \in Nat /\ 4 \in 1 .. (W + 1) /\ 4 \in 4 .. (W + 1)
  BY TextIs
<1>1. parts \in Seq(Text) /\ N \in Nat /\ DOMAIN parts = 1 .. N
  <2>1. parts \in Seq(Text)
    BY <1>0, PathParts
  <2> QED BY <2>1, LenProperties
<1>2. 0 \in P
  <2>1. Len(text[0]) = 2 /\ text[0][1] = drive_no + 48 /\ text[0][2] = COLON
    BY <1>1, TextBase
  <2>2. Begins(text[0], path)
    <3>1. \A j \in 1 .. 2 : j = 1 \/ j = 2
      OBVIOUS
    <3>2. 2 <= Len(path)
      BY <1>0
    <3> QED BY <2>1, <3>1, <3>2 DEF Begins
  <2>3. RestIs(path, parts, 4, 0)
    <3>1. N - 0 = N /\ \A i \in 1 .. N : 0 + i = i
      BY <1>1
    <3> QED BY <1>1, <3>1 DEF RestIs
  <2>4. Len(text[0]) + 2 = 4 /\ 4 - 1 = 3
    BY <2>1
  <2>5. \A m \in 1 .. 0 : FALSE
    OBVIOUS
  <2> QED BY <1>0, <2>2, <2>3, <2>4, <2>5 DEF ParsedTo
<1>3. ASSUME NEW n \in Nat, n \in P PROVE n + 1 \in P
  <2> SUFFICES ASSUME n + 1 <= N PROVE ParsedTo(path, parts, text, n + 1)
    OBVIOUS
  <2>1. n <= N /\ n \in 0 .. (Len(parts) - 1)
    BY <1>1
  <2>2. ParsedTo(path, parts, text, n)
    BY <1>3, <2>1
  <2> QED BY <1>1, <2>1, <2>2, ParsedToNext
<1>4. ParsedTo(path, parts, text, N)
  <2>1. N \in P
    <3> HIDE DEF P
    <3>1. Nat \subseteq P
      BY <1>2, <1>3, NatInductionSet
    <3> QED BY <1>1, <3>1
  <2> QED BY <1>1, <2>1
<1>5. parts \in Seq(Name)
  <2>1. \A m \in 1 .. N : parts[m] \in Name
    BY <1>4 DEF ParsedTo
  <2>2. parts = [m \in 1 .. N |-> parts[m]]
    BY <1>1
  <2>3. [m \in 1 .. N |-> parts[m]] \in [1 .. N -> Name]
    BY <2>1
  <2>4. parts \in [1 .. N -> Name]
    BY ONLY <2>2, <2>3, Zenon
  <2> HIDE DEF N
  <2> QED BY <1>1, <2>4, IsASeq
<1> DEFINE t == text[N]
<1>6. t \in Seq(Nat) /\ Len(t) \in Nat /\ path \in Seq(Nat)
  BY <1>1, TextIs, TextPrefix, SMTT(30)
<1>7. /\ Len(t) <= W /\ \A j \in 1 .. Len(t) : path[j] = t[j]
  BY <1>4 DEF ParsedTo, Begins
<1>8. W = Len(t) \/ (W = Len(t) + 1 /\ path[W] = SLASH)
  <2>1. CASE W = Len(t)
    BY <2>1
  <2>2. CASE W # Len(t)
    <3> DEFINE b == Len(t) + 2
    <3>1. b \in 4 .. (W + 1) /\ path[b - 1] = SLASH /\ RestIs(path, parts, b, N)
      BY <1>4, <2>2 DEF ParsedTo
    <3>2. pathparser_parse_path_part(path, b) = <<>>
      <4>1. N - N = 0
        BY <1>1
      <4>2. /\ pathparser_parse_path_part(path, b) \in Seq(Text)
            /\ Len(pathparser_parse_path_part(path, b)) = 0
        BY <3>1, <4>1 DEF RestIs
      <4> QED BY <4>2, EmptySeq
    <3> HIDE DEF b
    <3>3. b = W + 1
      <4>1. PartNext(path, b)
        BY <3>1, ParsedPart
      <4> SUFFICES ASSUME b # W + 1 PROVE FALSE
        OBVIOUS
      <4>2. PICK e \in (b + 1) .. (W + 1) :
              LET p == SubSeq(path, b, e - 1)
              IN  /\ p \in Name
                  /\ pathparser_parse_path_part(path, b) =
                       <<p>> \o pathparser_parse_path_part(path, IF e > W THEN e ELSE e + 1)
        BY <4>1 DEF PartNext
      <4> DEFINE p == SubSeq(path, b, e - 1)
                 next == IF e > W THEN e ELSE e + 1
                 more == pathparser_parse_path_part(path, next)
      <4>3. p \in Text /\ next \in 1 .. (W + 1) /\ <<>> = <<p>> \o more
        <5>1. p \in Name /\ pathparser_parse_path_part(path, b) = <<p>> \o more
          BY <4>2
        <5>2. next \in 1 .. (W + 1)
          BY <1>0, <3>1, <4>2
        <5> HIDE DEF p, more, next
        <5> QED BY <3>2, <5>1, <5>2, Zenon DEF Name
      <4>4. more \in Seq(Text)
        <5> HIDE DEF next
        <5> QED BY <4>3, PathParts
      <4> HIDE DEF p, more, next
      <4>5. Len(more) \in Nat /\ Len(<<p>> \o more) = Len(more) + 1
        BY <4>3, <4>4, Cons
      <4>6. Len(<<p>> \o more) = 0
        <5>1. Len(<<>>) = 0
          OBVIOUS
        <5> QED BY <4>3, <5>1, Zenon
      <4> QED BY <4>5, <4>6
    <3>4. W = Len(t) + 1 /\ b - 1 = W
      BY <1>0, <1>6, <3>3, SMTT(30) DEF b
    <3> QED BY <3>1, <3>4
  <2> QED BY <2>1, <2>2
<1> HIDE DEF t
<1>9. CASE W = Len(t)
  <2>1. path = t
    BY <1>6, <1>7, <1>9, SeqEqual
  <2> QED BY <1>5, <2>1 DEF t
<1>10. CASE W = Len(t) + 1 /\ path[W] = SLASH
  <2> DEFINE u == t \o <<SLASH>>
  <2>2. /\ u \in Seq(Nat) /\ Len(u) = Len(t) + 1 /\ u[Len(t) + 1] = SLASH
        /\ \A j \in 1 .. Len(t) : u[j] = t[j]
    BY <1>6, WithSlash
  <2> HIDE DEF u
  <2>3. ASSUME NEW j \in 1 .. W PROVE path[j] = u[j]
    <3>1. CASE j <= Len(t)
      <4>1. j \in 1 .. Len(t)
        BY <1>6, <1>10, <3>1
      <4> QED BY <1>7, <2>2, <4>1
    <3>2. CASE ~(j <= Len(t))
      <4>1. j = W
        BY <1>6, <1>10, <3>2
      <4> QED BY <1>10, <2>2, <4>1
    <3> QED BY <3>1, <3>2
  <2>4. path = u
    BY <1>6, <1>10, <2>2, <2>3, SeqEqual
  <2> QED BY <1>5, <2>4 DEF t, u
<1> QED BY <1>8, <1>9, <1>10

-----------------------------------------------------------------------------
(* pathparser_parse is right about every path with single slashes that is  *)
(* not too long: it finds a drive and some parts exactly if the path is    *)
(* that drive and those parts, with a slash before each and perhaps one at *)
(* the end.                                                                *)
THEOREM PathParserParts ==
  ASSUME NEW path \in Text, NoDoubleSlash(path), Len(path) <= MaxPath,
         NEW drive_no \in 0 .. 9, NEW parts \in Seq(Name), parts # <<>>
  PROVE  IsPathOf(path, drive_no, parts)
           <=> pathparser_parse(path) = [drive_no |-> drive_no, parts |-> parts]
<1> DEFINE N == Len(parts)
           W == Len(path)
           d == drive_no
<1>0. W \in Nat /\ N \in Nat /\ N >= 1 /\ parts \in Seq(Text) /\ MaxPath \in Nat
  <2>1. Name \subseteq Text
    BY DEF Name
  <2>2. N \in Nat \ {0}
    BY EmptySeq
  <2> QED BY <2>1, <2>2, SeqMonotonic, TextIs, PathAssumption
<1>1. PICK text : Texts(text, d, parts) /\ Join(d, parts) = text[N]
  BY <1>0, JoinTexts
<1>2. \A n \in DOMAIN parts : parts[n] # <<>>
  <2>1. ASSUME NEW n \in 1 .. N PROVE parts[n] \in Name
    BY ElementOfSeq
  <2>2. DOMAIN parts = 1 .. N
    BY LenProperties
  <2> QED BY <2>1, <2>2 DEF Name
<1>3. IsPathOf(path, d, parts) <=> path \in {text[N], text[N] \o <<SLASH>>}
  <2> HIDE DEF d, N
  <2> QED BY <1>1, <1>2, Zenon DEF IsPathOf
<1>4. ASSUME path \in {text[N], text[N] \o <<SLASH>>}
      PROVE  pathparser_parse(path) = [drive_no |-> d, parts |-> parts]
  <2>1. pathparser_parse_path_part(path, 4) = parts
    BY <1>0, <1>1, <1>4, JoinedParts
  <2>2. path[1] = d + 48 /\ path[2] = COLON /\ path[3] = SLASH /\ W >= 3
    <3>1. PartAt(path, parts, text, 1)
      <4>1. 1 \in 1 .. N
        BY <1>0
      <4> QED BY <1>1, <1>4, <4>1, JoinedPart
    <3>2. Len(text[0]) = 2 /\ text[0][1] = d + 48 /\ text[0][2] = COLON
      BY <1>0, <1>1, TextBase
    <3>3. path[3] = SLASH /\ W >= 3
      <4>1. 1 - 1 = 0
        OBVIOUS
      <4>2. Len(text[1 - 1]) + 2 = 4
        <5>1. text[1 - 1] = text[0]
          BY <4>1, Zenon
        <5>2. Len(text[1 - 1]) = 2
          BY <3>2, <5>1, Zenon
        <5> HIDE DEF N
        <5> QED BY ONLY <5>2, SMT
      <4>3. 4 \in 4 .. (W + 1) /\ path[4 - 1] = SLASH
        BY <3>1, <4>2 DEF PartAt
      <4> QED BY <1>0, <4>3
    <3>4. Begins(text[0], text[N]) /\ Len(text[N]) \in Nat /\ text[N] \in Seq(Nat)
      <4>1. 0 \in 0 .. N /\ N \in 0 .. N
        BY <1>0
      <4> QED BY <1>0, <1>1, <4>1, TextPrefix
    <3>5. text[N][1] = d + 48 /\ text[N][2] = COLON /\ 2 <= Len(text[N])
      <4>1. 1 \in 1 .. 2 /\ 2 \in 1 .. 2
        OBVIOUS
      <4> QED BY <3>2, <3>4, <4>1 DEF Begins
    <3>6. path[1] = text[N][1] /\ path[2] = text[N][2]
      <4> DEFINE t == text[N]
                 u == t \o <<SLASH>>
      <4>1. t \in Seq(Nat) /\ Len(t) \in Nat /\ 2 <= Len(t) /\ path \in {t, u}
        BY <1>4, <3>4, <3>5
      <4> HIDE DEF t
      <4>2. \A j \in 1 .. Len(t) : u[j] = t[j]
        BY <4>1, WithSlash
      <4> HIDE DEF u
      <4>3. 1 \in 1 .. Len(t) /\ 2 \in 1 .. Len(t)
        BY <4>1
      <4>4. u[1] = t[1] /\ u[2] = t[2]
        BY <4>2, <4>3
      <4>6. path[1] = t[1] /\ path[2] = t[2]
        BY <4>1, <4>4, Zenon
      <4> QED BY <4>6 DEF t
    <3> QED BY <3>3, <3>5, <3>6
  <2>3. isdigit(path[1]) /\ tonumericdigit(path[1]) = d
    BY <2>2 DEF isdigit, tonumericdigit
  <2>4. strnlen(path, MaxPath) >= 3
    BY <1>0, <2>2 DEF strnlen
  <2>5. pathparser_path_valid_format(path) /\ ~(W > MaxPath)
    BY <1>0, <2>2, <2>3, <2>4 DEF pathparser_path_valid_format
  <2> HIDE DEF d, W
  <2> QED BY <2>1, <2>3, <2>5 DEF pathparser_parse, W
<1>5. ASSUME pathparser_parse(path) = [drive_no |-> d, parts |-> parts]
      PROVE  path \in {text[N], text[N] \o <<SLASH>>}
  <2>1. ~(Len(path) > MaxPath \/ ~pathparser_path_valid_format(path))
    <3> SUFFICES ASSUME pathparser_parse(path) = NoPath PROVE FALSE
      BY DEF pathparser_parse
    <3>1. pathparser_parse(path).parts = parts
      BY <1>5
    <3>2. parts = <<>>
      BY <3>1 DEF NoPath
    <3> QED BY <3>2
  <2>2. pathparser_parse(path) =
          [drive_no |-> tonumericdigit(path[1]), parts |-> pathparser_parse_path_part(path, 4)]
    BY <2>1 DEF pathparser_parse
  <2>3. d = tonumericdigit(path[1]) /\ parts = pathparser_parse_path_part(path, 4)
    <3> DEFINE dd == tonumericdigit(path[1])
               pp == pathparser_parse_path_part(path, 4)
    <3> HIDE DEF dd, pp, d
    <3>1. [drive_no |-> dd, parts |-> pp] = [drive_no |-> d, parts |-> parts]
      BY <1>5, <2>2 DEF dd, pp
    <3> QED BY <3>1 DEF dd, pp
  <2>4. strnlen(path, MaxPath) >= 3 /\ isdigit(path[1]) /\ path[2] = COLON /\ path[3] = SLASH
    BY <2>1 DEF pathparser_path_valid_format
  <2>5. 3 <= W /\ path[1] = d + 48
    BY <1>0, <2>3, <2>4, SMTT(30) DEF strnlen, isdigit, tonumericdigit
  <2> QED BY <1>1, <2>3, <2>4, <2>5, ParsedJoins
<1> QED BY <1>3, <1>4, <1>5

-----------------------------------------------------------------------------
(* Small letters: tolower changes neither slashes nor what a drive is.     *)
LEMMA LowerChar ==
  ASSUME NEW c \in 1 .. 255
  PROVE  /\ tolower(c) \in 1 .. 255 /\ (tolower(c) = SLASH <=> c = SLASH)
         /\ (tolower(c) = COLON <=> c = COLON) /\ (isdigit(tolower(c)) <=> isdigit(c))
         /\ (isdigit(c) => tolower(c) = c)
BY DEF tolower, SLASH, COLON, isdigit

(* A text in small letters.                                                *)
LEMMA LoweredText ==
  ASSUME NEW s \in Text
  PROVE  /\ Lowered(s) \in Text /\ Len(Lowered(s)) = Len(s)
         /\ \A i \in 1 .. Len(s) : Lowered(s)[i] = tolower(s[i])
         /\ s \in Name => Lowered(s) \in Name
         /\ Lowered(s) = <<>> <=> s = <<>>
<1> DEFINE L == Lowered(s)
           n == Len(s)
<1>1. n \in Nat /\ DOMAIN s = 1 .. n /\ \A i \in 1 .. n : s[i] \in 1 .. 255
  BY TextIs
<1>2. L = [i \in 1 .. n |-> tolower(s[i])]
  BY <1>1 DEF Lowered
<1>3. \A i \in 1 .. n : tolower(s[i]) \in 1 .. 255 /\ (tolower(s[i]) = SLASH <=> s[i] = SLASH)
  BY <1>1, LowerChar
<1> HIDE DEF n
<1>4. L \in [1 .. n -> 1 .. 255]
  BY <1>2, <1>3
<1>5. \A i \in 1 .. n : L[i] = tolower(s[i])
  BY <1>2
<1> HIDE DEF L
<1>6. L \in Seq(1 .. 255) /\ Len(L) = n
  <2>1. L \in Seq(1 .. 255)
    BY <1>1, <1>4, IsASeq
  <2>2. DOMAIN L = 1 .. n
    BY <1>4
  <2> QED BY <1>1, <2>1, <2>2, LenProperties
<1>7. L = <<>> <=> s = <<>>
  <2>1. L = <<>> <=> Len(L) = 0
    BY <1>6, EmptySeq
  <2>2. s = <<>> <=> Len(s) = 0
    BY EmptySeq DEF Text
  <2> QED BY <1>6, <2>1, <2>2 DEF n
<1>8. ASSUME s \in Name PROVE L \in Name
  <2>1. s # <<>> /\ \A i \in 1 .. n : s[i] # SLASH
    BY <1>8 DEF Name, n
  <2> QED BY <1>3, <1>5, <1>6, <1>7, <2>1 DEF Name, Text
<1> QED BY <1>5, <1>6, <1>7, <1>8 DEF L, n, Text

(* istrncmp of names compares them without their case.                     *)
LEMMA SameName ==
  ASSUME NEW a \in Text, NEW b \in Text, NEW n \in Nat, Len(a) < n
  PROVE  istrncmp(a, b, n) = 0 <=> Lowered(a) = Lowered(b)
<1> DEFINE at(s, i) == IF i <= Len(s) THEN s[i] ELSE 0
           same(i) == tolower(at(a, i)) = tolower(at(b, i))
           differ == {i \in 1 .. n : tolower(at(a, i)) # tolower(at(b, i))}
           end == {i \in 1 .. n : at(a, i) = 0}
           k == Len(a)
           m == Len(b)
<1>0. k \in Nat /\ m \in Nat /\ k + 1 \in 1 .. n
  BY TextIs
<1>1. tolower(0) = 0
  BY DEF tolower
<1>2. ASSUME NEW i \in 1 .. k
      PROVE  at(a, i) = a[i] /\ a[i] \in 1 .. 255 /\ tolower(a[i]) \in 1 .. 255
  <2>1. i <= Len(a) /\ i \in 1 .. Len(a)
    BY <1>0
  <2>2. a[i] \in 1 .. 255
    BY <2>1, TextIs
  <2>3. at(a, i) = a[i]
    BY <2>1
  <2> QED BY <2>2, <2>3, LowerChar
<1>3. ASSUME NEW i \in 1 .. m
      PROVE  at(b, i) = b[i] /\ b[i] \in 1 .. 255 /\ tolower(b[i]) \in 1 .. 255
  <2>1. i <= Len(b) /\ i \in 1 .. Len(b)
    BY <1>0
  <2>2. b[i] \in 1 .. 255
    BY <2>1, TextIs
  <2>3. at(b, i) = b[i]
    BY <2>1
  <2> QED BY <2>2, <2>3, LowerChar
<1>4. /\ Lowered(a) \in Text /\ Len(Lowered(a)) = k
      /\ \A i \in 1 .. k : Lowered(a)[i] = tolower(a[i])
      /\ Lowered(b) \in Text /\ Len(Lowered(b)) = m
      /\ \A i \in 1 .. m : Lowered(b)[i] = tolower(b[i])
  BY LoweredText
<1>5. ASSUME Lowered(a) = Lowered(b) PROVE differ = {}
  <2>1. k = m
    BY <1>4, <1>5
  <2> SUFFICES ASSUME NEW i \in 1 .. n, ~same(i) PROVE FALSE
    OBVIOUS
  <2>2. CASE i <= k
    <3>1. i \in 1 .. k /\ i \in 1 .. m
      BY <1>0, <2>1, <2>2
    <3>2. tolower(a[i]) = tolower(b[i])
      BY <1>4, <1>5, <3>1
    <3> QED BY <1>2, <1>3, <3>1, <3>2
  <2>3. CASE ~(i <= k)
    BY <2>1, <2>3
  <2> QED BY <2>2, <2>3
<1>6. ASSUME \A i \in 1 .. (k + 1) : same(i) PROVE Lowered(a) = Lowered(b)
  <2>1. ~(k + 1 <= m)
    <3> SUFFICES ASSUME k + 1 <= m PROVE FALSE
      OBVIOUS
    <3>1. k + 1 \in 1 .. m /\ k + 1 \in 1 .. (k + 1) /\ ~(k + 1 <= k)
      BY <1>0
    <3>2. at(a, k + 1) = 0 /\ at(b, k + 1) = b[k + 1] /\ tolower(b[k + 1]) \in 1 .. 255
      BY <1>3, <3>1
    <3>3. tolower(at(a, k + 1)) = tolower(at(b, k + 1))
      BY <1>6, <3>1
    <3>4. tolower(b[k + 1]) = 0
      BY <1>1, <3>2, <3>3, Zenon
    <3> QED BY <3>2, <3>4
  <2>2. ~(m < k)
    <3> SUFFICES ASSUME m < k PROVE FALSE
      OBVIOUS
    <3>1. k \in 1 .. k /\ k \in 1 .. (k + 1) /\ ~(k <= m)
      BY <1>0
    <3>2. at(b, k) = 0 /\ at(a, k) = a[k] /\ tolower(a[k]) \in 1 .. 255
      BY <1>2, <3>1
    <3>3. tolower(at(a, k)) = tolower(at(b, k))
      BY <1>6, <3>1
    <3>4. tolower(a[k]) = 0
      BY <1>1, <3>2, <3>3, Zenon
    <3> QED BY <3>2, <3>4
  <2>3. k = m
    BY <1>0, <2>1, <2>2
  <2>4. ASSUME NEW i \in 1 .. k PROVE Lowered(a)[i] = Lowered(b)[i]
    <3>1. i \in 1 .. (k + 1) /\ i \in 1 .. m
      BY <1>0, <2>3
    <3>2. tolower(at(a, i)) = tolower(at(b, i)) /\ at(a, i) = a[i] /\ at(b, i) = b[i]
      <4>1. at(a, i) = a[i] /\ at(b, i) = b[i]
        BY <1>2, <1>3, <3>1
      <4>2. tolower(at(a, i)) = tolower(at(b, i))
        BY <1>6, <3>1
      <4> HIDE DEF at
      <4> QED BY <4>1, <4>2
    <3>3. tolower(a[i]) = tolower(b[i])
      <4> HIDE DEF at
      <4> QED BY <3>2
    <3> QED BY <1>4, <3>1, <3>3
  <2>5. Lowered(a) \in Seq(1 .. 255) /\ Lowered(b) \in Seq(1 .. 255)
    BY <1>4 DEF Text
  <2> QED BY <1>4, <2>3, <2>4, <2>5, SeqEqual
<1>7. istrncmp(a, b, n) = IF differ = {} \/ (\E i \in end : i < Least(differ)) THEN 0
                          ELSE at(a, Least(differ)) - at(b, Least(differ))
  BY DEF istrncmp
<1>8. ASSUME istrncmp(a, b, n) = 0 PROVE \A i \in 1 .. (k + 1) : same(i)
  <2>1. CASE differ = {}
    <3>1. \A i \in 1 .. (k + 1) : i \in 1 .. n
      BY <1>0
    <3> QED BY <2>1, <3>1
  <2>2. CASE differ # {}
    <3> DEFINE l == Least(differ)
    <3>1. l \in differ /\ \A j \in differ : l <= j
      <4>1. differ \subseteq Nat
        OBVIOUS
      <4> HIDE DEF differ
      <4> QED BY <2>2, <4>1, LeastElement
    <3> HIDE DEF l
    <3>2. l \in 1 .. n /\ l \in Int
      BY <3>1
    <3>3. ASSUME NEW i \in end, i < l PROVE \A j \in 1 .. (k + 1) : same(j)
      <4>1. ~(i <= k)
        <5> SUFFICES ASSUME i <= k PROVE FALSE
          OBVIOUS
        <5>1. i \in 1 .. k
          BY <1>0
        <5>2. at(a, i) \in 1 .. 255 /\ at(a, i) = 0
          BY <1>2, <5>1
        <5> HIDE DEF at
        <5> QED BY <5>2
      <4>2. i \in Int /\ i < l /\ ~(i <= k)
        BY <3>3, <4>1
      <4>3. \A j \in 1 .. (k + 1) : j \in 1 .. n /\ ~(l <= j)
        BY ONLY <1>0, <3>2, <4>2, n \in Nat, SMT
      <4>4. ASSUME NEW j \in 1 .. (k + 1) PROVE same(j)
        <5>1. j \in 1 .. n /\ j \notin differ
          <6> HIDE DEF differ
          <6> QED BY <3>1, <4>3
        <5> QED BY <5>1
      <4> QED BY <4>4
    <3>4. ASSUME at(a, l) - at(b, l) = 0 PROVE FALSE
      <4>1. at(a, l) \in Int /\ at(b, l) \in Int
        <5>1. at(a, l) \in Int
          <6>1. CASE l <= k
            <7>1. l \in 1 .. k
              BY <1>0, <3>2, <6>1
            <7>2. a[l] \in Nat
              BY <7>1, TextIs
            <7> QED BY <6>1, <7>2
          <6>2. CASE ~(l <= k)
            BY <6>2
          <6> QED BY <6>1, <6>2
        <5>2. at(b, l) \in Int
          <6>1. CASE l <= m
            <7>1. l \in 1 .. m
              BY <1>0, <3>2, <6>1
            <7>2. b[l] \in Nat
              BY <7>1, TextIs
            <7> QED BY <6>1, <7>2
          <6>2. CASE ~(l <= m)
            BY <6>2
          <6> QED BY <6>1, <6>2
        <5> QED BY <5>1, <5>2
      <4>2. at(a, l) = at(b, l)
        <5> HIDE DEF at
        <5> QED BY <3>4, <4>1
      <4>3. tolower(at(a, l)) # tolower(at(b, l))
        BY <3>1
      <4> HIDE DEF at
      <4> QED BY <4>2, <4>3, Zenon
    <3>5. (\E i \in end : i < l) \/ at(a, l) - at(b, l) = 0
      <4> HIDE DEF differ, end, at
      <4> QED BY <1>7, <1>8, <2>2 DEF l
    <3> QED BY <3>3, <3>4, <3>5
  <2> QED BY <2>1, <2>2
<1>9. ASSUME differ = {} PROVE istrncmp(a, b, n) = 0
  <2> HIDE DEF differ, end, at
  <2> QED BY <1>7, <1>9
<1> QED BY <1>5, <1>6, <1>8, <1>9

(* The part of a path in small letters is the part in small letters.       *)
LEMMA LoweredPart ==
  ASSUME NEW path \in Text, NEW i \in 1 .. (Len(path) + 1)
  PROVE  LET here == pathparser_get_path_part(path, i)
         IN  pathparser_get_path_part(Lowered(path), i) =
               [part |-> Lowered(here.part), next |-> here.next]
<1> DEFINE low == Lowered(path)
           W == Len(path)
<1>0. W \in Nat /\ low \in Text /\ Len(low) = W /\ \A k \in 1 .. W : low[k] = tolower(path[k])
  BY LoweredText, TextIs
<1>1. PICK e \in i .. (W + 1) :
        /\ \A k \in i .. (e - 1) : path[k] # SLASH
        /\ e <= W => path[e] = SLASH
        /\ pathparser_get_path_part(path, i) =
             [part |-> SubSeq(path, i, e - 1), next |-> IF e > W THEN e ELSE e + 1]
  BY PartEnd
<1>2. \A k \in 1 .. W : low[k] = SLASH <=> path[k] = SLASH
  BY <1>0, TextIs, LowerChar
<1>3. i \in 1 .. W \/ i = W + 1
  BY <1>0
<1>4. \A k \in i .. (e - 1) : k \in 1 .. W
  BY <1>0
<1>5. (\A k \in i .. (e - 1) : low[k] # SLASH) /\ (e <= W => low[e] = SLASH)
  <2>1. e <= W => e \in 1 .. W
    BY <1>0
  <2> QED BY <1>1, <1>2, <1>4, <2>1
<1> DEFINE p == SubSeq(path, i, e - 1)
           q == SubSeq(low, i, e - 1)
           next == IF e > W THEN e ELSE e + 1
<1> HIDE DEF low
<1>6. pathparser_get_path_part(low, i) = [part |-> q, next |-> next]
  <2>1. i \in 1 .. (Len(low) + 1) /\ e \in i .. (Len(low) + 1)
    BY <1>0
  <2>2. e <= Len(low) => low[e] = SLASH
    BY <1>0, <1>5
  <2>3. pathparser_get_path_part(low, i) =
          [part |-> q, next |-> IF e > Len(low) THEN e ELSE e + 1]
    BY <1>0, <1>5, <2>1, <2>2, PartIs
  <2> QED BY <1>0, <2>3
<1>7. /\ p \in Text /\ Len(p) = e - i /\ \A j \in 1 .. (e - i) : p[j] = path[i + j - 1]
  BY <1>1, PartText
<1>8. /\ q \in Text /\ Len(q) = e - i /\ \A j \in 1 .. (e - i) : q[j] = low[i + j - 1]
  <2>1. i \in 1 .. (Len(low) + 1) /\ e \in i .. (Len(low) + 1)
    BY <1>0
  <2> QED BY <1>0, <1>5, <2>1, PartText
<1> HIDE DEF p, q
<1>9. q = Lowered(p)
  <2>1. /\ Lowered(p) \in Text /\ Len(Lowered(p)) = e - i
        /\ \A j \in 1 .. (e - i) : Lowered(p)[j] = tolower(p[j])
    BY <1>7, LoweredText
  <2>2. ASSUME NEW j \in 1 .. (e - i) PROVE q[j] = Lowered(p)[j]
    <3>1. i + j - 1 \in 1 .. W
      BY <1>0
    <3> QED BY <1>0, <1>7, <1>8, <2>1, <3>1
  <2>3. q \in Seq(1 .. 255) /\ Lowered(p) \in Seq(1 .. 255) /\ Len(q) = Len(Lowered(p))
    BY <1>8, <2>1 DEF Text
  <2> QED BY <1>8, <2>2, <2>3, SeqEqual
<1>10. pathparser_get_path_part(path, i) = [part |-> p, next |-> next]
  BY <1>1 DEF p
<1> HIDE DEF next
<1> QED BY <1>6, <1>9, <1>10 DEF low

LoweredAll(parts) == [n \in DOMAIN parts |-> Lowered(parts[n])]

(* All parts in small letters.                                             *)
LEMMA LoweredParts ==
  ASSUME NEW parts \in Seq(Text)
  PROVE  /\ LoweredAll(parts) \in Seq(Text) /\ Len(LoweredAll(parts)) = Len(parts)
         /\ \A n \in 1 .. Len(parts) : LoweredAll(parts)[n] = Lowered(parts[n])
<1> DEFINE L == LoweredAll(parts)
           n == Len(parts)
<1>1. n \in Nat /\ DOMAIN parts = 1 .. n /\ \A i \in 1 .. n : parts[i] \in Text
  BY LenProperties, ElementOfSeq
<1>2. L = [i \in 1 .. n |-> Lowered(parts[i])] /\ \A i \in 1 .. n : Lowered(parts[i]) \in Text
  BY <1>1, LoweredText DEF LoweredAll
<1> HIDE DEF n
<1>3. L \in [1 .. n -> Text] /\ \A i \in 1 .. n : L[i] = Lowered(parts[i])
  BY <1>2
<1> HIDE DEF L
<1>4. L \in Seq(Text) /\ DOMAIN L = 1 .. n
  BY <1>1, <1>3, IsASeq
<1>5. Len(L) = n
  BY <1>1, <1>4, LenProperties
<1> QED BY <1>3, <1>4, <1>5 DEF L, n

(* A list in small letters is its first element and the rest in small      *)
(* letters.                                                                *)
LEMMA LoweredCons ==
  ASSUME NEW p \in Text, NEW parts \in Seq(Text)
  PROVE  LoweredAll(<<p>> \o parts) = <<Lowered(p)>> \o LoweredAll(parts)
<1> DEFINE s == <<p>> \o parts
           L == LoweredAll(s)
           R == LoweredAll(parts)
           x == Lowered(p)
           t == <<x>> \o R
           n == Len(parts)
<1>1. /\ s \in Seq(Text) /\ n \in Nat /\ Len(s) = n + 1 /\ s[1] = p
      /\ \A i \in 1 .. n : s[i + 1] = parts[i]
  BY Cons
<1>2. R \in Seq(Text) /\ Len(R) = n /\ \A i \in 1 .. n : R[i] = Lowered(parts[i])
  BY LoweredParts
<1>3. x \in Text
  BY LoweredText
<1> HIDE DEF s, R, x
<1>4. L \in Seq(Text) /\ Len(L) = Len(s) /\ \A i \in 1 .. Len(s) : L[i] = Lowered(s[i])
  BY <1>1, LoweredParts
<1>5. t \in Seq(Text) /\ Len(t) = Len(R) + 1 /\ t[1] = x /\ \A i \in 1 .. Len(R) : t[i + 1] = R[i]
  BY <1>2, <1>3, Cons
<1> HIDE DEF L, t, n
<1>6. ASSUME NEW i \in 1 .. Len(L) PROVE L[i] = t[i]
  <2>1. CASE i = 1
    BY <1>1, <1>4, <1>5, <2>1 DEF x
  <2>2. CASE i # 1
    <3> DEFINE j == i - 1
    <3>1. j \in 1 .. n /\ i = j + 1
      BY <1>1, <1>4, <2>2
    <3> HIDE DEF j
    <3>2. L[i] = Lowered(s[i]) /\ s[i] = parts[j] /\ t[i] = R[j] /\ R[j] = Lowered(parts[j])
      BY <1>1, <1>2, <1>4, <1>5, <3>1
    <3> QED BY <3>2
  <2> QED BY <2>1, <2>2
<1>7. L = t
  BY <1>1, <1>2, <1>4, <1>5, <1>6, SeqEqual
<1> QED BY <1>7 DEF L, t, s, R, x

(* The parser does not care about capitals.                                *)
LEMMA ParseLowered ==
  ASSUME NEW path \in Text
  PROVE  \A i \in 1 .. (Len(path) + 1) :
           pathparser_parse_path_part(Lowered(path), i) =
             LoweredAll(pathparser_parse_path_part(path, i))
<1> DEFINE low == Lowered(path)
           W == Len(path)
           Eq(i) == pathparser_parse_path_part(low, i) =
                      LoweredAll(pathparser_parse_path_part(path, i))
           P == {k \in Nat : \A i \in 1 .. (W + 1) : i + k >= W + 1 => Eq(i)}
<1>0. W \in Nat /\ low \in Text /\ Len(low) = W
  BY LoweredText, TextIs
<1>1. LoweredAll(<<>>) = <<>>
  <2>1. <<>> \in Seq(Text) /\ Len(<<>>) = 0
    OBVIOUS
  <2>2. LoweredAll(<<>>) \in Seq(Text) /\ Len(LoweredAll(<<>>)) = 0
    BY <2>1, LoweredParts
  <2> QED BY <2>2, EmptySeq
<1>2. ASSUME NEW i \in 1 .. (W + 1), \A j \in (i + 1) .. (W + 1) : Eq(j)
      PROVE  Eq(i)
  <2> DEFINE here == pathparser_get_path_part(path, i)
             p == here.part
             next == here.next
             rest == pathparser_parse_path_part(path, next)
             there == pathparser_get_path_part(low, i)
             lrest == pathparser_parse_path_part(low, next)
  <2>1. p \in Text /\ (p # <<>> => next \in (i + 1) .. (W + 1))
    BY PathPart
  <2>2. pathparser_parse_path_part(path, i) = IF p = <<>> THEN <<>> ELSE <<p>> \o rest
    BY PathParts
  <2>3. there = [part |-> Lowered(p), next |-> next]
    BY LoweredPart
  <2> HIDE DEF p, next
  <2>4. there.part = Lowered(p) /\ there.next = next
    BY <2>3
  <2> HIDE DEF low
  <2>5. pathparser_parse_path_part(low, i) =
          IF Lowered(p) = <<>> THEN <<>> ELSE <<Lowered(p)>> \o lrest
    <3>1. i \in 1 .. (Len(low) + 1)
      BY <1>0
    <3>2. pathparser_parse_path_part(low, i) =
            IF there.part = <<>> THEN <<>>
            ELSE <<there.part>> \o pathparser_parse_path_part(low, there.next)
      BY <1>0, <3>1, PathParts
    <3> HIDE DEF there
    <3> QED BY <2>4, <3>2
  <2>6. Lowered(p) = <<>> <=> p = <<>>
    BY <2>1, LoweredText
  <2>7. CASE p = <<>>
    BY <1>1, <2>2, <2>5, <2>6, <2>7
  <2>8. CASE p # <<>>
    <3>1. next \in (i + 1) .. (W + 1) /\ next \in 1 .. (W + 1)
      BY <1>0, <2>1, <2>8
    <3>2. rest \in Seq(Text)
      BY <3>1, PathParts
    <3>3. lrest = LoweredAll(rest)
      BY <1>2, <3>1
    <3> HIDE DEF rest, lrest
    <3>4. LoweredAll(<<p>> \o rest) = <<Lowered(p)>> \o LoweredAll(rest)
      BY <2>1, <3>2, LoweredCons
    <3>5. pathparser_parse_path_part(path, i) = <<p>> \o rest
      BY <2>2, <2>8
    <3>6. pathparser_parse_path_part(low, i) = <<Lowered(p)>> \o lrest
      BY <2>5, <2>6, <2>8
    <3> QED BY <3>3, <3>4, <3>5, <3>6, Zenon
  <2> QED BY <2>7, <2>8
<1> HIDE DEF Eq
<1>3. 0 \in P
  <2>1. ASSUME NEW i \in 1 .. (W + 1), i + 0 >= W + 1 PROVE Eq(i)
    <3>1. \A j \in (i + 1) .. (W + 1) : FALSE
      BY <1>0, <2>1
    <3> QED BY <1>2, <3>1
  <2> QED BY <2>1
<1>4. ASSUME NEW k \in Nat, k \in P PROVE k + 1 \in P
  <2>1. ASSUME NEW i \in 1 .. (W + 1), i + (k + 1) >= W + 1 PROVE Eq(i)
    <3>1. \A j \in (i + 1) .. (W + 1) : j \in 1 .. (W + 1) /\ j + k >= W + 1
      BY <1>0, <2>1
    <3>2. \A j \in (i + 1) .. (W + 1) : Eq(j)
      BY <1>4, <3>1
    <3> QED BY <1>2, <3>2
  <2> QED BY <2>1
<1>5. W + 1 \in P
  <2> HIDE DEF P
  <2>1. Nat \subseteq P
    BY <1>3, <1>4, NatInductionSet
  <2> QED BY <1>0, <2>1
<1>6. \A i \in 1 .. (W + 1) : i + (W + 1) >= W + 1
  BY <1>0
<1> QED BY <1>5, <1>6 DEF Eq, low

(* A path in small letters is the path of its parts in small letters, and  *)
(* of no others.                                                           *)
LEMMA LoweredPath ==
  ASSUME NEW path \in Text, NoDoubleSlash(path), Len(path) <= MaxPath,
         NEW drive_no \in 0 .. 9, NEW names \in Seq(Name), names # <<>>
  PROVE  LET root_path == pathparser_parse(path)
         IN  IsPathOf(Lowered(path), drive_no, names)
               <=> /\ root_path # NoPath /\ root_path.drive_no = drive_no
                   /\ names = LoweredAll(root_path.parts)
<1> DEFINE low == Lowered(path)
           W == Len(path)
           root_path == pathparser_parse(path)
           d == tonumericdigit(path[1])
           parts == pathparser_parse_path_part(path, 4)
<1>0. /\ W \in Nat /\ low \in Text /\ Len(low) = W /\ MaxPath \in Nat
      /\ \A k \in 1 .. W : low[k] = tolower(path[k]) /\ path[k] \in 1 .. 255
  BY LoweredText, TextIs, PathAssumption
<1>1. \A k \in 1 .. W : /\ (low[k] = SLASH <=> path[k] = SLASH)
                        /\ (low[k] = COLON <=> path[k] = COLON)
                        /\ (isdigit(low[k]) <=> isdigit(path[k]))
                        /\ (isdigit(path[k]) => low[k] = path[k])
  <2> HIDE DEF low
  <2>1. ASSUME NEW k \in 1 .. W
        PROVE  /\ (low[k] = SLASH <=> path[k] = SLASH) /\ (low[k] = COLON <=> path[k] = COLON)
               /\ (isdigit(low[k]) <=> isdigit(path[k])) /\ (isdigit(path[k]) => low[k] = path[k])
    <3>1. low[k] = tolower(path[k]) /\ path[k] \in 1 .. 255
      BY <1>0
    <3> DEFINE c == path[k]
    <3> HIDE DEF c
    <3>2. /\ (tolower(c) = SLASH <=> c = SLASH) /\ (tolower(c) = COLON <=> c = COLON)
          /\ (isdigit(tolower(c)) <=> isdigit(c)) /\ (isdigit(c) => tolower(c) = c)
      BY <3>1, LowerChar DEF c
    <3>3. low[k] = tolower(c)
      BY <3>1 DEF c
    <3>4. /\ (low[k] = SLASH <=> c = SLASH) /\ (low[k] = COLON <=> c = COLON)
          /\ (isdigit(low[k]) <=> isdigit(c)) /\ (isdigit(c) => low[k] = c)
      BY <3>2, <3>3, Zenon
    <3> QED BY <3>4 DEF c
  <2> QED BY <2>1
<1>2. NoDoubleSlash(low)
  <2>1. \A i \in 2 .. W : i \in 1 .. W /\ i - 1 \in 1 .. W
    BY <1>0
  <2>2. ASSUME NEW i \in 2 .. W PROVE ~(low[i - 1] = SLASH /\ low[i] = SLASH)
    BY <1>1, <2>1 DEF NoDoubleSlash
  <2> HIDE DEF low
  <2> QED BY <1>0, <2>2 DEF NoDoubleSlash
<1> HIDE DEF low
<1>3. IsPathOf(low, drive_no, names)
        <=> pathparser_parse(low) = [drive_no |-> drive_no, parts |-> names]
  BY <1>0, <1>2, PathParserParts
<1>4. pathparser_path_valid_format(low) <=> pathparser_path_valid_format(path)
  <2>1. strnlen(low, MaxPath) = strnlen(path, MaxPath)
    BY <1>0 DEF strnlen
  <2>2. CASE strnlen(path, MaxPath) >= 3
    <3>1. W >= 3
      BY <1>0, <2>2 DEF strnlen
    <3>2. 1 \in 1 .. W /\ 2 \in 1 .. W /\ 3 \in 1 .. W
      BY <1>0, <3>1
    <3> HIDE DEF W
    <3> QED BY <1>1, <2>1, <3>2 DEF pathparser_path_valid_format
  <2>3. CASE ~(strnlen(path, MaxPath) >= 3)
    BY <2>1, <2>3 DEF pathparser_path_valid_format
  <2> QED BY <2>2, <2>3
<1>5. ~(Len(path) > MaxPath) /\ ~(Len(low) > MaxPath)
  BY <1>0
<1>6. CASE ~pathparser_path_valid_format(path)
  <2>1. pathparser_parse(low) = NoPath /\ root_path = NoPath
    BY <1>4, <1>6 DEF pathparser_parse
  <2>2. NoPath # [drive_no |-> drive_no, parts |-> names]
    <3>1. NoPath.parts = <<>>
      BY DEF NoPath
    <3> QED BY <3>1
  <2> QED BY <1>3, <2>1, <2>2 DEF low
<1>7. CASE pathparser_path_valid_format(path)
  <2>1. W >= 3 /\ isdigit(path[1])
    <3>1. strnlen(path, MaxPath) >= 3 /\ isdigit(path[1])
      BY <1>7 DEF pathparser_path_valid_format
    <3> QED BY <1>0, <3>1 DEF strnlen
  <2>2. 4 \in 1 .. (W + 1) /\ 1 \in 1 .. W
    BY <1>0, <2>1
  <2>3. root_path = [drive_no |-> d, parts |-> parts]
    BY <1>5, <1>7 DEF pathparser_parse
  <2>4. pathparser_parse(low) = [drive_no |-> d, parts |-> LoweredAll(parts)]
    <3>1. low[1] = path[1]
      BY <1>1, <2>1, <2>2
    <3>2. pathparser_parse_path_part(low, 4) = LoweredAll(parts)
      BY <2>2, ParseLowered DEF low
    <3>3. pathparser_parse(low) =
            [drive_no |-> tonumericdigit(low[1]), parts |-> pathparser_parse_path_part(low, 4)]
      BY <1>4, <1>5, <1>7 DEF pathparser_parse
    <3> QED BY <3>1, <3>2, <3>3
  <2>5. d \in Nat
    BY <2>1 DEF isdigit, tonumericdigit
  <2>6. root_path # NoPath /\ root_path.drive_no = d /\ root_path.parts = parts
    <3> HIDE DEF root_path, d, parts
    <3>1. root_path.drive_no = d /\ root_path.parts = parts
      BY <2>3
    <3>2. NoPath.drive_no = -1
      BY DEF NoPath
    <3> QED BY <2>5, <3>1, <3>2
  <2> HIDE DEF d, parts, root_path
  <2>7. pathparser_parse(low) = [drive_no |-> drive_no, parts |-> names]
          <=> d = drive_no /\ LoweredAll(parts) = names
    <3> DEFINE L == LoweredAll(parts)
    <3> HIDE DEF L
    <3>1. pathparser_parse(low) = [drive_no |-> d, parts |-> L]
      BY <2>4 DEF L
    <3>2. [drive_no |-> d, parts |-> L] = [drive_no |-> drive_no, parts |-> names]
            <=> d = drive_no /\ L = names
      OBVIOUS
    <3> QED BY <3>1, <3>2 DEF L
  <2>8. IsPathOf(low, drive_no, names)
          <=> /\ root_path # NoPath /\ root_path.drive_no = drive_no
              /\ names = LoweredAll(root_path.parts)
    BY <1>3, <2>6, <2>7
  <2> QED BY <2>8 DEF low, root_path
<1> QED BY <1>6, <1>7

(* There are at least as many slashes as parts.                            *)
LEMMA PartsDepth ==
  ASSUME NEW path \in Text, NoDoubleSlash(path), pathparser_parse(path) # NoPath
  PROVE  LET parts == pathparser_parse(path).parts
         IN  parts \in Seq(Name) /\ Len(parts) <= Depth(path) /\ Depth(path) \in Nat
<1> DEFINE parts == pathparser_parse_path_part(path, 4)
           d == tonumericdigit(path[1])
           N == Len(parts)
           W == Len(path)
           slashes == {i \in DOMAIN path : path[i] = SLASH}
<1>0. W \in Nat /\ MaxPath \in Nat /\ DOMAIN path = 1 .. W
  BY TextIs, PathAssumption
<1>1. ~(W > MaxPath \/ ~pathparser_path_valid_format(path))
  BY DEF pathparser_parse
<1>2. /\ strnlen(path, MaxPath) >= 3 /\ isdigit(path[1])
      /\ path[2] = COLON /\ path[3] = SLASH
  BY <1>1 DEF pathparser_path_valid_format
<1>3. 3 <= W /\ d \in 0 .. 9 /\ path[1] = d + 48
  BY <1>0, <1>2 DEF strnlen, isdigit, tonumericdigit
<1>4. parts \in Seq(Text) /\ N \in Nat
  <2>1. 4 \in 1 .. (W + 1)
    BY <1>0, <1>3
  <2>2. parts \in Seq(Text)
    BY <2>1, PathParts
  <2> QED BY <2>2, LenProperties
<1>5. pathparser_parse(path).parts = parts
  BY <1>1 DEF pathparser_parse
<1> HIDE DEF d
<1>6. PICK text : Texts(text, d, parts)
  <2> HIDE DEF parts
  <2> QED BY <1>3, <1>4, JoinTexts
<1>7. parts \in Seq(Name) /\ path \in {text[N], text[N] \o <<SLASH>>}
  BY <1>2, <1>3, <1>6, ParsedJoins
<1> HIDE DEF parts
<1> DEFINE q(n) == Len(text[n - 1]) + 1
           S(n) == {i \in slashes : i <= q(n)}
<1>8. ASSUME NEW n \in 1 .. N
      PROVE  /\ q(n) \in slashes /\ q(n) \in Nat /\ q(n + 1) > q(n) /\ q(n + 1) \in Nat
  <2>1. PartAt(path, parts, text, n)
    BY <1>3, <1>6, <1>7, JoinedPart
  <2> DEFINE a == Len(text[n - 1])
             c == Len(text[n])
             b == a + 2
             k == Len(parts[n])
             e == b + k
  <2>2. b \in 4 .. (W + 1) /\ e \in b .. (W + 1) /\ path[b - 1] = SLASH /\ c + 2 = e + 1
    BY <2>1 DEF PartAt
  <2>3. a \in Nat /\ c \in Nat
    <3>1. n - 1 \in 0 .. N /\ n \in 0 .. N
      BY <1>4
    <3> QED BY <1>3, <1>4, <1>6, <3>1, TextPrefix
  <2>4. k \in Nat
    BY <1>4, ElementOfSeq, TextIs
  <2>5. (n + 1) - 1 = n /\ n - 1 + 1 = n
    BY <1>4
  <2>6. q(n) = a + 1 /\ q(n + 1) = c + 1
    BY <2>5
  <2> HIDE DEF a, c, k
  <2>7. a + 1 = b - 1 /\ a + 1 \in 1 .. W /\ c + 1 > a + 1
    BY <1>0, <2>2, <2>3, <2>4
  <2>8. a + 1 \in slashes
    BY <1>0, <2>2, <2>7
  <2> HIDE DEF q
  <2> QED BY <2>3, <2>6, <2>7, <2>8
<1>9. IsFiniteSet(slashes) /\ Depth(path) = Cardinality(slashes) /\ Depth(path) \in Nat
  <2>1. slashes \subseteq 1 .. W
    BY <1>0
  <2>2. Depth(path) = Cardinality(slashes)
    BY DEF Depth
  <2> HIDE DEF slashes
  <2>3. IsFiniteSet(1 .. W)
    BY <1>0, FS_Interval
  <2>4. IsFiniteSet(slashes)
    BY <2>1, <2>3, FS_Subset
  <2> QED BY <2>2, <2>4, FS_CardinalityType
<1> HIDE DEF q, slashes
<1> DEFINE Many(n) == Cardinality(S(n)) \in Nat /\ Cardinality(S(n)) >= n
           P == {n \in Nat : n + 1 <= N => Many(n + 1)}
<1>10. ASSUME NEW n PROVE IsFiniteSet(S(n)) /\ Cardinality(S(n)) \in Nat /\ S(n) \subseteq slashes
  <2>1. S(n) \subseteq slashes
    OBVIOUS
  <2> HIDE DEF S
  <2> QED BY <1>9, <2>1, FS_Subset, FS_CardinalityType
<1>11. ASSUME NEW n \in 1 .. N, NEW T, T \subseteq S(n), q(n) \notin T
       PROVE  Cardinality(T) \in Nat /\ Cardinality(S(n)) >= Cardinality(T) + 1
  <2>1. IsFiniteSet(T) /\ Cardinality(T) \in Nat
    <3> HIDE DEF S
    <3> QED BY <1>10, <1>11, FS_Subset, FS_CardinalityType
  <2>2. q(n) \in S(n)
    BY <1>8
  <2>3. T \cup {q(n)} \subseteq S(n)
    <3> HIDE DEF S
    <3> QED BY <1>11, <2>2
  <2>4. Cardinality(T \cup {q(n)}) = Cardinality(T) + 1
    BY <1>11, <2>1, FS_AddElement
  <2>5. Cardinality(T \cup {q(n)}) <= Cardinality(S(n))
    <3> HIDE DEF S
    <3> QED BY <1>10, <2>3, FS_Subset
  <2> HIDE DEF S
  <2> QED BY <1>10, <2>1, <2>4, <2>5
<1>12. 0 \in P
  <2> SUFFICES ASSUME 1 <= N PROVE Many(1)
    OBVIOUS
  <2>1. 1 \in 1 .. N
    BY <1>4
  <2>2. Cardinality({}) = 0
    BY FS_EmptySet
  <2>3. {} \subseteq S(1) /\ q(1) \notin {}
    OBVIOUS
  <2> HIDE DEF S
  <2>4. Cardinality(S(1)) >= 0 + 1
    BY <1>11, <2>1, <2>2, <2>3
  <2> QED BY <1>10, <2>4
<1>13. ASSUME NEW n \in Nat, n \in P PROVE n + 1 \in P
  <2> SUFFICES ASSUME (n + 1) + 1 <= N PROVE Many((n + 1) + 1)
    OBVIOUS
  <2> DEFINE m == n + 1
  <2>1. m \in 1 .. N /\ m + 1 \in 1 .. N /\ m <= N
    BY <1>4
  <2>2. Many(m)
    BY <1>13, <2>1
  <2> HIDE DEF m
  <2>3. S(m) \subseteq S(m + 1) /\ q(m + 1) \notin S(m)
    <3>1. q(m) \in Nat /\ q(m + 1) \in Nat /\ q(m + 1) > q(m)
      BY <1>8, <2>1
    <3>2. \A i \in slashes : i \in Int
      BY <1>0 DEF slashes
    <3> QED BY <3>1, <3>2
  <2> DEFINE x == Cardinality(S(m))
             y == Cardinality(S(m + 1))
  <2>4. x \in Nat /\ y >= x + 1 /\ y \in Nat /\ x >= m
    <3> HIDE DEF S
    <3> QED BY <1>10, <1>11, <2>1, <2>2, <2>3
  <2> HIDE DEF x, y
  <2>5. y >= m + 1
    BY <2>1, <2>4
  <2> QED BY <2>4, <2>5 DEF y, m
<1>14. N <= Depth(path)
  <2>1. CASE N = 0
    BY <1>9, <2>1
  <2>2. CASE N # 0
    <3>1. N - 1 \in Nat /\ (N - 1) + 1 = N
      BY <1>4, <2>2
    <3>2. N - 1 \in P
      <4> HIDE DEF P
      <4>1. Nat \subseteq P
        BY <1>12, <1>13, NatInductionSet
      <4> QED BY <3>1, <4>1
    <3>3. Many(N)
      <4> HIDE DEF Many
      <4> QED BY <1>4, <3>1, <3>2
    <3>4. Cardinality(S(N)) <= Cardinality(slashes)
      <4> HIDE DEF S
      <4> QED BY <1>9, <1>10, FS_Subset
    <3>5. Cardinality(S(N)) \in Nat /\ Cardinality(S(N)) >= N
      BY <3>3
    <3> DEFINE x == Cardinality(S(N))
               y == Cardinality(slashes)
    <3>6. x \in Nat /\ x >= N /\ x <= y /\ y \in Nat
      BY <1>9, <3>4, <3>5
    <3> HIDE DEF x, y
    <3>7. N <= y
      BY <1>4, <3>6
    <3> QED BY <1>9, <3>7 DEF y
  <2> QED BY <2>1, <2>2
<1> QED BY <1>5, <1>7, <1>9, <1>14

-----------------------------------------------------------------------------
(* The chains of items that the reference for names goes through.          *)
Longer(chains) ==
  UNION {{Append(chain, item) : item \in Entries(Inside(chain))} :
           chain \in {c \in chains : c = <<>> \/ IsDirectory(c[Len(c)])}}

(* The directory that a chain ends in is one of the volume.                *)
LEMMA InsideChain ==
  ASSUME NEW chain \in Seq(OnDisk), chain = <<>> \/ IsDirectory(chain[Len(chain)])
  PROVE  /\ Inside(chain) \in Directories /\ Entries(Inside(chain)) \subseteq OnDisk
         /\ \A item \in Entries(Inside(chain)) :
              /\ Append(chain, item) \in Seq(OnDisk) /\ Len(Append(chain, item)) = Len(chain) + 1
              /\ Append(chain, item)[Len(chain) + 1] = item
              /\ \A m \in 1 .. Len(chain) : Append(chain, item)[m] = chain[m]
<1>0. Len(chain) \in Nat
  BY LenProperties
<1>1. Root \in Directories /\ \A c \in DOMAIN Items : Items[c] \in Directories
  BY DEF Directories
<1>2. Inside(chain) \in Directories
  <2>1. CASE chain = <<>> \/ chain[Len(chain)].first = 0
    BY <1>1, <2>1 DEF Inside
  <2>2. CASE ~(chain = <<>> \/ chain[Len(chain)].first = 0)
    <3>1. Len(chain) \in 1 .. Len(chain)
      BY <1>0, <2>2, EmptySeq
    <3>2. chain[Len(chain)] \in OnDisk
      BY <3>1, ElementOfSeq
    <3>3. chain[Len(chain)].first \in DOMAIN Items
      BY <2>2, <3>2, DirectoriesAssumption
    <3> QED BY <1>1, <2>2, <3>3 DEF Inside
  <2> QED BY <2>1, <2>2
<1>3. Entries(Inside(chain)) \subseteq OnDisk
  BY <1>2 DEF Entries, OnDisk
<1>4. ASSUME NEW item \in OnDisk
      PROVE  /\ Append(chain, item) \in Seq(OnDisk) /\ Len(Append(chain, item)) = Len(chain) + 1
             /\ Append(chain, item)[Len(chain) + 1] = item
             /\ \A m \in 1 .. Len(chain) : Append(chain, item)[m] = chain[m]
  BY AppendProperties
<1> QED BY <1>2, <1>3, <1>4

ChainsAre(chains, depth) ==
  /\ chains[0] = {<<>>}
  /\ \A n \in 1 .. depth : chains[n] = Longer(chains[n - 1])
  /\ \A n \in 0 .. depth : \A c \in chains[n] : c \in Seq(OnDisk) /\ Len(c) = n

(* Every chain but the empty one is a shorter one and an item in the       *)
(* directory that it ends in.                                              *)
LEMMA ChainSteps ==
  ASSUME NEW depth \in Nat
  PROVE  ChainsAre(Chains(depth), depth)
<1> DEFINE S == SUBSET Seq(OnDisk)
           base == {<<>>}
           step == [n \in Nat |-> [X \in S |-> Longer(X)]]
           Is(f) == f = [n \in 0 .. depth |->
                           IF n = 0 THEN {<<>>}
                           ELSE UNION {{Append(chain, item) : item \in Entries(Inside(chain))} :
                                  chain \in {c \in f[n - 1] : c = <<>> \/ IsDirectory(c[Len(c)])}}]
           chains == CHOOSE f : Is(f)
<1>0. base \in S
  OBVIOUS
<1>1. ASSUME NEW X \in S PROVE Longer(X) \in S
  <2>1. ASSUME NEW chain \in X, chain = <<>> \/ IsDirectory(chain[Len(chain)]),
               NEW item \in Entries(Inside(chain))
        PROVE  Append(chain, item) \in Seq(OnDisk)
    <3>1. chain \in Seq(OnDisk)
      OBVIOUS
    <3> QED BY <2>1, <3>1, InsideChain
  <2> QED BY <2>1 DEF Longer
<1>2. step \in [Nat -> [S -> S]]
  <2> HIDE DEF S
  <2> QED BY <1>1
<1>3. PICK g : Iterates(g, S, base, step, depth)
  <2> HIDE DEF S, base, step
  <2> QED BY <1>0, <1>2, Recursion
<1> HIDE DEF S
<1>4. /\ g \in [0 .. depth -> S] /\ g[0] = base
      /\ \A n \in 1 .. depth : g[n] = Longer(g[n - 1])
  <2> HIDE DEF base
  <2>1. /\ g \in [0 .. depth -> S] /\ g[0] = base
        /\ \A n \in 1 .. depth : g[n] = step[n][g[n - 1]]
    BY <1>3 DEF Iterates
  <2>2. ASSUME NEW n \in 1 .. depth PROVE n \in Nat /\ g[n - 1] \in S
    BY <2>1
  <2> QED BY <2>1, <2>2
<1>5. Is(g)
  <2>1. g = [n \in 0 .. depth |-> g[n]]
    BY <1>4
  <2>2. \A n \in 0 .. depth : g[n] = IF n = 0 THEN {<<>>} ELSE Longer(g[n - 1])
    <3>1. \A n \in 0 .. depth : n = 0 \/ n \in 1 .. depth
      OBVIOUS
    <3>2. \A n \in 1 .. depth : n # 0
      OBVIOUS
    <3> QED BY <1>4, <3>1, <3>2
  <2>3. g = [n \in 0 .. depth |-> IF n = 0 THEN {<<>>} ELSE Longer(g[n - 1])]
    BY <2>1, <2>2
  <2> QED BY <2>3, Zenon DEF Longer
<1>6. Is(chains)
  <2> HIDE DEF Is
  <2> QED BY <1>5
<1>7. Chains(depth) = chains
  BY DEF Chains
<1> HIDE DEF chains
<1>8. chains[0] = {<<>>} /\ \A n \in 1 .. depth : chains[n] = Longer(chains[n - 1])
  <2>1. chains = [n \in 0 .. depth |-> IF n = 0 THEN {<<>>} ELSE Longer(chains[n - 1])]
    BY <1>6, Zenon DEF Longer
  <2>2. 0 \in 0 .. depth /\ \A n \in 1 .. depth : n # 0 /\ n \in 0 .. depth
    OBVIOUS
  <2> HIDE DEF Is
  <2> QED BY <2>1, <2>2
<1> HIDE DEF Is
<1> DEFINE P == {n \in Nat : n <= depth => \A c \in chains[n] : c \in Seq(OnDisk) /\ Len(c) = n}
<1>9. 0 \in P
  <2>1. <<>> \in Seq(OnDisk) /\ Len(<<>>) = 0
    OBVIOUS
  <2> QED BY <1>8, <2>1
<1>10. ASSUME NEW n \in Nat, n \in P PROVE n + 1 \in P
  <2> SUFFICES ASSUME n + 1 <= depth, NEW c \in chains[n + 1]
               PROVE  c \in Seq(OnDisk) /\ Len(c) = n + 1
    OBVIOUS
  <2>1. n + 1 \in 1 .. depth /\ (n + 1) - 1 = n /\ n <= depth
    OBVIOUS
  <2>2. c \in Longer(chains[n])
    BY <1>8, <2>1
  <2>3. PICK chain \in chains[n] : /\ chain = <<>> \/ IsDirectory(chain[Len(chain)])
                                   /\ \E item \in Entries(Inside(chain)) : c = Append(chain, item)
    BY <2>2 DEF Longer
  <2>4. chain \in Seq(OnDisk) /\ Len(chain) = n
    BY <1>10, <2>1
  <2> QED BY <2>3, <2>4, InsideChain
<1>11. ASSUME NEW n \in 0 .. depth, NEW c \in chains[n] PROVE c \in Seq(OnDisk) /\ Len(c) = n
  <2>1. n \in P
    <3> HIDE DEF P
    <3>1. Nat \subseteq P
      BY <1>9, <1>10, NatInductionSet
    <3> QED BY <3>1
  <2> QED BY <2>1
<1> QED BY <1>7, <1>8, <1>11 DEF ChainsAre

(* The volumes and the paths for which the search is shown to be right:    *)
(* every directory can be read, nothing was deleted, the names have no     *)
(* blanks in them, no two of a directory are the same; no part of the path *)
(* is the name of a label or of a piece of a long name, and the path does  *)
(* not go on from the root by way of the item "..".                        *)
PlainVolume ==
  /\ Readable /\ NullIsFile
  /\ \A item \in OnDisk :
       LET name == fat16_get_full_relative_filename(item)
       IN  /\ ~Deleted(item) /\ name \in Name /\ Len(name) < MaxPath
           /\ Shown(item) = Lowered(name)
  /\ \A items \in Directories : \A i, j \in DOMAIN items :
       Shown(items[i]) = Shown(items[j]) => i = j

NoLabel(name) ==
  \A item \in OnDisk : Shown(item) = Lowered(name) => "VOLUME_LABEL" \notin item.attribute

PlainPath(path) ==
  LET parts == pathparser_parse(path).parts
      depth == Depth(path)
  IN  /\ \A n \in DOMAIN parts : NoLabel(parts[n])
      /\ \A n \in 1 .. depth : \A chain \in Chains(depth)[n] :
           (/\ n < Len(parts) /\ \A m \in 1 .. n : Shown(chain[m]) = Lowered(parts[m])
            /\ IsDirectory(chain[n]))
           => chain[n].first # 0

(* The entries of a directory that have a name.                            *)
Called(items, name) == {item \in Entries(items) : Shown(item) = Lowered(name)}

(* fat16_find_item_in_directory finds the entry that has the name.         *)
LEMMA Lookup ==
  ASSUME PlainVolume, NEW items \in Directories, NEW name \in Text, NoLabel(name)
  PROVE  LET found == fat16_find_item_in_directory(items, name)
         IN  Called(items, name) = IF found = NULL THEN {} ELSE {found}
<1> DEFINE kept == {i \in DOMAIN items : ~Deleted(items[i])}
           total == fat16_get_total_items_for_directory(items)
           found == {i \in 1 .. total :
                       istrncmp(fat16_get_full_relative_filename(items[i]), name, MaxPath) = 0}
           l == CHOOSE i \in found : \A j \in found : j <= i
           result == fat16_find_item_in_directory(items, name)
           n == Len(items)
<1>1. items \in Seq(OnDisk)
  BY DirectoriesAssumption
<1>2. n \in Nat /\ DOMAIN items = 1 .. n /\ \A i \in 1 .. n : items[i] \in OnDisk
  BY <1>1, LenProperties, ElementOfSeq
<1> HIDE DEF n
<1>3. \A i \in 1 .. n : /\ ~Deleted(items[i])
                        /\ \A j \in 1 .. n : Shown(items[i]) = Shown(items[j]) => i = j
  BY <1>2 DEF PlainVolume
<1>4. total = n
  <2>1. kept = 1 .. n
    BY <1>2, <1>3
  <2>2. total = Cardinality(kept)
    BY DEF fat16_get_total_items_for_directory
  <2>3. Cardinality(1 .. n) = IF 1 > n THEN 0 ELSE n - 1 + 1
    <3>1. 1 \in Int /\ n \in Int
      BY <1>2
    <3> QED BY <3>1, FS_Interval
  <2> HIDE DEF kept, total
  <2> QED BY <1>2, <2>1, <2>2, <2>3
<1>5. ASSUME NEW i \in 1 .. n
      PROVE  istrncmp(fat16_get_full_relative_filename(items[i]), name, MaxPath) = 0
               <=> Shown(items[i]) = Lowered(name)
  <2> DEFINE full == fat16_get_full_relative_filename(items[i])
  <2>1. full \in Name /\ Len(full) < MaxPath /\ Shown(items[i]) = Lowered(full)
    BY <1>2 DEF PlainVolume
  <2> HIDE DEF full
  <2>2. full \in Text /\ MaxPath \in Nat
    BY <2>1, PathAssumption DEF Name
  <2>3. istrncmp(full, name, MaxPath) = 0 <=> Lowered(full) = Lowered(name)
    BY <2>1, <2>2, SameName
  <2> QED BY <2>1, <2>3 DEF full
<1>6. found = {i \in 1 .. n : Shown(items[i]) = Lowered(name)}
  <2> HIDE DEF total
  <2> QED BY <1>4, <1>5
<1>7. result = IF found = {} THEN NULL ELSE fat16_new_fat_item_for_directory_item(items[l])
  BY Zenon DEF fat16_find_item_in_directory
<1> HIDE DEF total, found, result
<1>8. CASE found = {}
  <2>1. \A i \in 1 .. n : Shown(items[i]) # Lowered(name)
    BY <1>6, <1>8
  <2>2. Called(items, name) = {}
    BY <1>2, <2>1 DEF Called, Entries
  <2>3. result = NULL
    BY <1>7, <1>8
  <2> QED BY <2>2, <2>3 DEF result
<1>9. CASE found # {}
  <2>1. l \in found
    <3>1. found \in SUBSET (1 .. n)
      BY <1>6
    <3>2. \E i \in found : \A j \in found : j <= i
      BY <1>2, <1>9, <3>1, Greatest
    <3> QED BY <3>2
  <2> HIDE DEF l
  <2>2. l \in 1 .. n /\ Shown(items[l]) = Lowered(name) /\ items[l] \in OnDisk
    BY <1>2, <1>6, <2>1
  <2>3. result = items[l]
    <3>1. result = fat16_new_fat_item_for_directory_item(items[l])
      BY <1>7, <1>9
    <3> QED BY <2>2, <3>1 DEF fat16_new_fat_item_for_directory_item, PlainVolume, Readable
  <2>4. result # NULL
    BY <2>2, <2>3, DirectoriesAssumption
  <2>5. items[l] \in Called(items, name)
    BY <1>2, <1>3, <2>2 DEF Called, Entries, NoLabel
  <2>6. ASSUME NEW item \in Called(items, name) PROVE item = items[l]
    <3>1. PICK i \in 1 .. n : item = items[i]
      BY <1>2 DEF Called, Entries
    <3>2. Shown(items[i]) = Shown(items[l])
      BY <2>2, <3>1 DEF Called
    <3> QED BY <1>3, <2>2, <3>1, <3>2
  <2>7. Called(items, name) = {items[l]}
    BY <2>5, <2>6
  <2> QED BY <2>3, <2>4, <2>7 DEF result
<1> QED BY <1>8, <1>9

(* The chains of n items that have the names of the first n parts.         *)
Followed(chains, parts, n) ==
  {c \in chains[n] : \A m \in 1 .. n : Shown(c[m]) = Lowered(parts[m])}

Further(chains, name) ==
  UNION {{Append(c, item) : item \in Called(Inside(c), name)} :
           c \in {chain \in chains : chain = <<>> \/ IsDirectory(chain[Len(chain)])}}

(* They go on with the items that have the name of the next part.          *)
LEMMA FollowNext ==
  ASSUME NEW depth \in Nat, NEW chains, ChainsAre(chains, depth), NEW parts,
         NEW n \in 0 .. (depth - 1)
  PROVE  Followed(chains, parts, n + 1) = Further(Followed(chains, parts, n), parts[n + 1])
<1> DEFINE F == Followed(chains, parts, n)
           G == Followed(chains, parts, n + 1)
           U == Further(F, parts[n + 1])
<1>0. /\ n + 1 \in 1 .. depth /\ n \in 0 .. depth /\ (n + 1) - 1 = n /\ n + 1 \in 1 .. (n + 1)
      /\ \A m \in 1 .. n : m \in 1 .. (n + 1)
      /\ \A m \in 1 .. (n + 1) : m \in 1 .. n \/ m = n + 1
  OBVIOUS
<1>1. chains[n + 1] = Longer(chains[n]) /\ \A c \in chains[n] : c \in Seq(OnDisk) /\ Len(c) = n
  BY <1>0 DEF ChainsAre
<1>2. ASSUME NEW g \in G PROVE g \in U
  <2>1. g \in Longer(chains[n]) /\ \A m \in 1 .. (n + 1) : Shown(g[m]) = Lowered(parts[m])
    BY <1>1 DEF Followed
  <2>2. PICK c \in chains[n] : /\ c = <<>> \/ IsDirectory(c[Len(c)])
                               /\ \E item \in Entries(Inside(c)) : g = Append(c, item)
    BY <2>1 DEF Longer
  <2>3. PICK item \in Entries(Inside(c)) : g = Append(c, item)
    BY <2>2
  <2>4. g[n + 1] = item /\ \A m \in 1 .. n : g[m] = c[m]
    BY <1>1, <2>2, <2>3, InsideChain
  <2>5. item \in Called(Inside(c), parts[n + 1])
    BY <1>0, <2>1, <2>4 DEF Called
  <2>6. c \in F
    BY <1>0, <2>1, <2>4 DEF Followed
  <2> HIDE DEF F
  <2> QED BY <2>2, <2>3, <2>5, <2>6 DEF Further
<1>3. ASSUME NEW c \in F, c = <<>> \/ IsDirectory(c[Len(c)]),
             NEW item \in Called(Inside(c), parts[n + 1])
      PROVE  Append(c, item) \in G
  <2>1. /\ c \in chains[n] /\ c \in Seq(OnDisk) /\ Len(c) = n
        /\ \A m \in 1 .. n : Shown(c[m]) = Lowered(parts[m])
    BY <1>1 DEF Followed
  <2>2. item \in Entries(Inside(c)) /\ Shown(item) = Lowered(parts[n + 1])
    BY DEF Called
  <2> DEFINE g == Append(c, item)
  <2>3. g[n + 1] = item /\ \A m \in 1 .. n : g[m] = c[m]
    BY <1>3, <2>1, <2>2, InsideChain
  <2>4. g \in chains[n + 1]
    BY <1>1, <1>3, <2>1, <2>2 DEF Longer
  <2> HIDE DEF g
  <2>5. \A m \in 1 .. (n + 1) : Shown(g[m]) = Lowered(parts[m])
    BY <1>0, <2>1, <2>2, <2>3
  <2> QED BY <2>4, <2>5 DEF Followed, g
<1>4. ASSUME NEW g \in U PROVE g \in G
  <2> HIDE DEF F, G
  <2>1. PICK c \in F : /\ c = <<>> \/ IsDirectory(c[Len(c)])
                       /\ \E item \in Called(Inside(c), parts[n + 1]) : g = Append(c, item)
    BY DEF Further
  <2> QED BY <1>3, <2>1
<1> HIDE DEF F, G, U
<1>5. G = U
  BY <1>2, <1>4
<1> QED BY <1>5 DEF F, G, U

(* What the search has found after the first n parts is what they name.    *)
Agree(chains, current_item, parts, n) ==
  \/ Followed(chains, parts, n) = {} /\ current_item[n] = {NULL}
  \/ \E c \in Seq(OnDisk) :
       /\ Len(c) = n /\ Followed(chains, parts, n) = {c}
       /\ current_item[n] = {c[n]} /\ current_item[1] # {NULL}

(* A directory in which the next part is looked up.                        *)
LEMMA FollowOne ==
  ASSUME NEW depth \in Nat, NEW chains, ChainsAre(chains, depth), NEW parts,
         NEW n \in 0 .. (depth - 1), NEW c \in Seq(OnDisk), Len(c) = n,
         Followed(chains, parts, n) = {c}, c = <<>> \/ IsDirectory(c[Len(c)]), NEW found,
         Called(Inside(c), parts[n + 1]) = IF found = NULL THEN {} ELSE {found},
         NEW current_item, current_item[n + 1] = {found},
         found # NULL => current_item[1] # {NULL}
  PROVE  Agree(chains, current_item, parts, n + 1)
<1>1. Followed(chains, parts, n + 1) =
        {Append(c, item) : item \in Called(Inside(c), parts[n + 1])}
  <2>1. Followed(chains, parts, n + 1) = Further({c}, parts[n + 1])
    <3>1. Followed(chains, parts, n + 1) = Further(Followed(chains, parts, n), parts[n + 1])
      BY ONLY depth \in Nat, ChainsAre(chains, depth), n \in 0 .. (depth - 1), FollowNext, Zenon
    <3> QED BY <3>1
  <2>2. {chain \in {c} : chain = <<>> \/ IsDirectory(chain[Len(chain)])} = {c}
    OBVIOUS
  <2> QED BY <2>1, <2>2 DEF Further
<1>2. CASE found = NULL
  BY <1>1, <1>2 DEF Agree
<1>3. CASE found # NULL
  <2> DEFINE g == Append(c, found)
  <2>1. Followed(chains, parts, n + 1) = {g}
    BY <1>1, <1>3
  <2>2. found \in Entries(Inside(c))
    BY <1>3 DEF Called
  <2>3. g \in Seq(OnDisk) /\ Len(g) = n + 1 /\ g[n + 1] = found
    BY <2>2, InsideChain
  <2> HIDE DEF g
  <2> QED BY <1>3, <2>1, <2>3 DEF Agree
<1> QED BY <1>2, <1>3

(* The search agrees with the names after every part.                      *)
LEMMA SearchAgrees ==
  ASSUME PlainVolume, NEW depth \in Nat, NEW chains, ChainsAre(chains, depth),
         NEW parts \in Seq(Text), parts # <<>>, Len(parts) <= depth,
         \A n \in 1 .. Len(parts) : NoLabel(parts[n]),
         \A n \in 1 .. (Len(parts) - 1) : \A c \in Followed(chains, parts, n) :
           IsDirectory(c[n]) => c[n].first # 0,
         NEW current_item, Searching(current_item, parts)
  PROVE  \A n \in 1 .. Len(parts) : Agree(chains, current_item, parts, n)
<1> DEFINE N == Len(parts)
           P == {k \in Nat : k + 1 <= N => Agree(chains, current_item, parts, k + 1)}
<1>0. N \in Nat /\ N >= 1 /\ \A n \in 1 .. N : parts[n] \in Text
  <2>1. N \in Nat \ {0}
    BY EmptySeq
  <2> QED BY <2>1, ElementOfSeq
<1>1. 0 \in P
  <2> DEFINE found == fat16_find_item_in_directory(Root, parts[1])
             c == <<>>
  <2>1. 1 \in 1 .. N /\ 0 \in 0 .. (depth - 1) /\ 0 + 1 = 1 /\ Root \in Directories
    BY <1>0 DEF Directories
  <2>2. Called(Root, parts[1]) = IF found = NULL THEN {} ELSE {found}
    BY <1>0, <2>1, Lookup
  <2>3. current_item[1] = {found}
    BY DEF Searching
  <2>4. c \in Seq(OnDisk) /\ Len(c) = 0 /\ Inside(c) = Root
    BY DEF Inside
  <2>5. Followed(chains, parts, 0) = {c}
    <3>1. chains[0] = {c}
      BY DEF ChainsAre
    <3>2. \A m \in 1 .. 0 : FALSE
      OBVIOUS
    <3> QED BY <3>1, <3>2 DEF Followed
  <2>6. found # NULL => current_item[1] # {NULL}
    BY <2>3
  <2>7. c = <<>>
    OBVIOUS
  <2>8. Called(Inside(c), parts[0 + 1]) = IF found = NULL THEN {} ELSE {found}
    <3> HIDE DEF found, c
    <3> QED BY <2>1, <2>2, <2>4
  <2>9. current_item[0 + 1] = {found}
    <3> HIDE DEF found
    <3> QED BY <2>1, <2>3
  <2> HIDE DEF found, c
  <2>10. Agree(chains, current_item, parts, 0 + 1)
    BY <2>1, <2>4, <2>5, <2>6, <2>7, <2>8, <2>9, FollowOne
  <2> QED BY <2>10
<1>2. ASSUME NEW n \in 0 .. (depth - 1)
      PROVE  Followed(chains, parts, n + 1) = Further(Followed(chains, parts, n), parts[n + 1])
  BY ONLY depth \in Nat, ChainsAre(chains, depth), n \in 0 .. (depth - 1), FollowNext, Zenon
<1>3. ASSUME NEW k \in Nat, k \in P PROVE k + 1 \in P
  <2> SUFFICES ASSUME (k + 1) + 1 <= N PROVE Agree(chains, current_item, parts, (k + 1) + 1)
    OBVIOUS
  <2> DEFINE n == k + 1
  <2>1. /\ n \in 1 .. (N - 1) /\ n \in 1 .. N /\ n + 1 \in 1 .. N /\ n + 1 \in 2 .. N
        /\ n \in 0 .. (depth - 1) /\ (n + 1) - 1 = n /\ n <= N
    BY <1>0
  <2>2. Agree(chains, current_item, parts, n)
    BY <1>3, <2>1
  <2> HIDE DEF n
  <2>3. Followed(chains, parts, n + 1) = Further(Followed(chains, parts, n), parts[n + 1])
    BY <1>2, <2>1
  <2>4. current_item[n + 1] =
          IF current_item[1] = {NULL} THEN {NULL}
          ELSE UNION {Step(item, parts[n + 1]) : item \in current_item[n]}
    BY <2>1 DEF Searching
  <2>5. CASE Followed(chains, parts, n) = {} /\ current_item[n] = {NULL}
    <3>1. Followed(chains, parts, n + 1) = {}
      BY <2>5, <2>3 DEF Further
    <3>2. Step(NULL, parts[n + 1]) = {NULL}
      BY FileTableAssumption DEF Step, PlainVolume
    <3>3. current_item[n + 1] = {NULL}
      BY <2>4, <2>5, <3>2
    <3> QED BY <3>1, <3>3 DEF Agree, n
  <2>6. ASSUME NEW c \in Seq(OnDisk), Len(c) = n, Followed(chains, parts, n) = {c},
               current_item[n] = {c[n]}, current_item[1] # {NULL}
        PROVE  Agree(chains, current_item, parts, n + 1)
    <3>1. c[n] \in OnDisk /\ c[n] # NULL /\ c[n] # WILD
      <4>1. c[n] \in OnDisk
        BY <2>1, <2>6, ElementOfSeq
      <4> QED BY <4>1, DirectoriesAssumption
    <3>2. current_item[n + 1] = Step(c[n], parts[n + 1])
      BY <2>4, <2>6
    <3>3. c # <<>> /\ Len(c) = n
      <4>1. n # 0
        BY <2>1
      <4> QED BY <2>6, <4>1
    <3>4. CASE ~IsDirectory(c[n])
      <4>1. Followed(chains, parts, n + 1) = Further({c}, parts[n + 1])
        BY <2>6, <2>3
      <4>2. Followed(chains, parts, n + 1) = {}
        BY <3>3, <3>4, <4>1 DEF Further
      <4>3. current_item[n + 1] = {NULL}
        BY <3>1, <3>2, <3>4 DEF Step
      <4> QED BY <4>2, <4>3 DEF Agree
    <3>5. CASE IsDirectory(c[n])
      <4> DEFINE items == Items[c[n].first]
                 found == fat16_find_item_in_directory(items, parts[n + 1])
      <4>1. Inside(c) = items
        <5>1. c[n].first # 0
          BY <2>1, <2>6, <3>5
        <5> QED BY <3>3, <5>1 DEF Inside
      <4>2. items \in Directories
        BY <3>1, <3>5, DirectoriesAssumption DEF Directories
      <4>3. current_item[n + 1] = {found}
        BY <3>1, <3>2, <3>5 DEF Step
      <4> HIDE DEF items
      <4>4. Called(items, parts[n + 1]) = IF found = NULL THEN {} ELSE {found}
        BY <1>0, <2>1, <4>2, Lookup
      <4> HIDE DEF found
      <4>5. Called(Inside(c), parts[n + 1]) = IF found = NULL THEN {} ELSE {found}
        BY <4>1, <4>4
      <4>6. c = <<>> \/ IsDirectory(c[Len(c)])
        BY <3>3, <3>5
      <4>7. found # NULL => current_item[1] # {NULL}
        BY <2>6
      <4> QED BY <2>1, <2>6, <4>3, <4>5, <4>6, <4>7, FollowOne
    <3> QED BY <3>4, <3>5
  <2>7. Agree(chains, current_item, parts, n + 1)
    <3>1. CASE Followed(chains, parts, n) = {} /\ current_item[n] = {NULL}
      BY <2>5, <3>1 DEF n
    <3>2. CASE ~(Followed(chains, parts, n) = {} /\ current_item[n] = {NULL})
      <4>1. PICK c \in Seq(OnDisk) : /\ Len(c) = n /\ Followed(chains, parts, n) = {c}
                                     /\ current_item[n] = {c[n]} /\ current_item[1] # {NULL}
        BY <2>2, <3>2 DEF Agree
      <4> QED BY <2>6, <4>1
    <3> QED BY <3>1, <3>2
  <2> QED BY <2>7 DEF n
<1>4. ASSUME NEW n \in 1 .. N PROVE Agree(chains, current_item, parts, n)
  <2>1. Nat \subseteq P
    <3> HIDE DEF P
    <3> QED BY <1>1, <1>3, NatInductionSet
  <2>2. n - 1 \in Nat /\ (n - 1) + 1 = n
    BY <1>0
  <2>3. n - 1 \in P
    <3> HIDE DEF P
    <3> QED BY <2>1, <2>2
  <2>4. Agree(chains, current_item, parts, (n - 1) + 1)
    BY <1>0, <2>2, <2>3
  <2> QED BY <2>2, <2>4
<1> QED BY <1>4

(* There are finitely many slashes.                                        *)
LEMMA DepthNat ==
  ASSUME NEW path \in Text
  PROVE  Depth(path) \in Nat
<1> DEFINE slashes == {i \in DOMAIN path : path[i] = SLASH}
<1>1. slashes \subseteq 1 .. Len(path) /\ Len(path) \in Nat /\ Depth(path) = Cardinality(slashes)
  BY TextIs DEF Depth
<1> HIDE DEF slashes
<1>2. IsFiniteSet(1 .. Len(path))
  BY <1>1, FS_Interval
<1>3. IsFiniteSet(slashes)
  BY <1>1, <1>2, FS_Subset
<1> QED BY <1>1, <1>3, FS_CardinalityType

(* The names of a chain of items are names.                                *)
LEMMA ShownChain ==
  ASSUME PlainVolume, NEW c \in Seq(OnDisk)
  PROVE  /\ ShownNames(c) \in Seq(Name) /\ Len(ShownNames(c)) = Len(c)
         /\ \A m \in 1 .. Len(c) : ShownNames(c)[m] = Shown(c[m])
<1> DEFINE L == ShownNames(c)
           n == Len(c)
<1>1. n \in Nat /\ DOMAIN c = 1 .. n /\ \A i \in 1 .. n : c[i] \in OnDisk
  BY LenProperties, ElementOfSeq
<1>2. ASSUME NEW item \in OnDisk PROVE Shown(item) \in Name
  <2> DEFINE name == fat16_get_full_relative_filename(item)
  <2>1. name \in Name /\ Shown(item) = Lowered(name)
    BY DEF PlainVolume
  <2> HIDE DEF name
  <2>2. name \in Text
    BY <2>1 DEF Name
  <2> QED BY <2>1, <2>2, LoweredText
<1>3. L = [i \in 1 .. n |-> Shown(c[i])] /\ \A i \in 1 .. n : Shown(c[i]) \in Name
  BY <1>1, <1>2 DEF ShownNames
<1> HIDE DEF n
<1>4. L \in [1 .. n -> Name] /\ \A i \in 1 .. n : L[i] = Shown(c[i])
  BY <1>3
<1> HIDE DEF L
<1>5. L \in Seq(Name) /\ DOMAIN L = 1 .. n
  BY <1>1, <1>4, IsASeq
<1>6. Len(L) = n
  BY <1>1, <1>5, LenProperties
<1> QED BY <1>4, <1>5, <1>6 DEF L, n

(* A chain has the names of the parts of a path exactly if the path, in    *)
(* small letters, is the path of those names.                              *)
LEMMA ChainNames ==
  ASSUME PlainVolume, NEW path \in Text, NoDoubleSlash(path), Len(path) <= MaxPath,
         NEW c \in Seq(OnDisk), c # <<>>
  PROVE  LET root_path == pathparser_parse(path)
         IN  IsPathOf(Lowered(path), 0, ShownNames(c))
               <=> /\ root_path # NoPath /\ root_path.drive_no = 0
                   /\ Len(c) = Len(root_path.parts)
                   /\ \A m \in 1 .. Len(c) : Shown(c[m]) = Lowered(root_path.parts[m])
<1> DEFINE root_path == pathparser_parse(path)
           parts == root_path.parts
           names == ShownNames(c)
<1>1. /\ names \in Seq(Name) /\ Len(names) = Len(c) /\ Len(c) \in Nat
      /\ \A m \in 1 .. Len(c) : names[m] = Shown(c[m])
  BY ShownChain, LenProperties
<1> HIDE DEF names
<1>2. names # <<>>
  <2>1. Len(c) # 0
    BY EmptySeq
  <2> QED BY <1>1, <2>1
<1>3. IsPathOf(Lowered(path), 0, names)
        <=> root_path # NoPath /\ root_path.drive_no = 0 /\ names = LoweredAll(parts)
  <2>1. 0 \in 0 .. 9
    OBVIOUS
  <2> QED BY <1>1, <1>2, <2>1, LoweredPath
<1> HIDE DEF root_path
<1>4. CASE root_path = NoPath
  BY <1>3, <1>4 DEF names, root_path
<1>5. CASE root_path # NoPath
  <2>1. parts \in Seq(Name)
    BY <1>5, PartsDepth DEF root_path
  <2> HIDE DEF parts
  <2>2. parts \in Seq(Text) /\ Name \subseteq Text
    <3>1. Name \subseteq Text
      BY DEF Name
    <3> QED BY <2>1, <3>1, SeqMonotonic
  <2> DEFINE L == LoweredAll(parts)
  <2>3. /\ L \in Seq(Text) /\ Len(L) = Len(parts)
        /\ \A m \in 1 .. Len(parts) : L[m] = Lowered(parts[m])
    BY <2>2, LoweredParts
  <2> HIDE DEF L
  <2>4. names \in Seq(Text)
    BY <1>1, <2>2, SeqMonotonic
  <2>5. names = L <=> Len(c) = Len(parts) /\ \A m \in 1 .. Len(c) : Shown(c[m]) = Lowered(parts[m])
    <3>1. ASSUME names = L
          PROVE  Len(c) = Len(parts) /\ \A m \in 1 .. Len(c) : Shown(c[m]) = Lowered(parts[m])
      BY <1>1, <2>3, <3>1
    <3>2. ASSUME Len(c) = Len(parts), \A m \in 1 .. Len(c) : Shown(c[m]) = Lowered(parts[m])
          PROVE  names = L
      <4>1. Len(names) = Len(L) /\ \A m \in 1 .. Len(names) : names[m] = L[m]
        BY <1>1, <2>3, <3>2
      <4> QED BY <2>3, <2>4, <4>1, SeqEqual
    <3> QED BY <3>1, <3>2
  <2> QED BY <1>3, <1>5, <2>5 DEF names, root_path, parts, L
<1> QED BY <1>4, <1>5

(* A path names what the search for its parts finds, and nothing if there  *)
(* is no search.                                                           *)
LEMMA NamedIsFound ==
  ASSUME PlainVolume, NEW path \in Text, NoDoubleSlash(path), Len(path) <= MaxPath,
         PlainPath(path)
  PROVE  LET root_path == pathparser_parse(path)
         IN  IF root_path # NoPath /\ root_path.parts # <<>> /\ root_path.drive_no = 0
               THEN \E x : /\ fat16_get_directory_entry(root_path.parts) = {x}
                           /\ Named(path) = {x} \ {NULL}
               ELSE Named(path) = {}
<1> DEFINE root_path == pathparser_parse(path)
           parts == root_path.parts
           N == Len(parts)
           D == Depth(path)
           chains == Chains(D)
           Fits(c) == IsPathOf(Lowered(path), 0, ShownNames(c))
<1>0. D \in Nat
  BY DepthNat
<1>1. ChainsAre(chains, D)
  <2> HIDE DEF D
  <2> QED BY <1>0, ChainSteps
<1>2. Named(path) = {c[Len(c)] : c \in {g \in UNION {chains[n] : n \in 1 .. D} : Fits(g)}}
  BY DEF Named
<1> HIDE DEF chains, D, Fits
<1>3. ASSUME NEW n \in 1 .. D, NEW c \in chains[n]
      PROVE  /\ c \in Seq(OnDisk) /\ Len(c) = n
             /\ Fits(c) <=> /\ root_path # NoPath /\ root_path.drive_no = 0 /\ n = N
                           /\ \A m \in 1 .. n : Shown(c[m]) = Lowered(parts[m])
  <2>1. c \in Seq(OnDisk) /\ Len(c) = n
    <3>1. n \in 0 .. D
      BY <1>0
    <3> QED BY <1>1, <3>1 DEF ChainsAre
  <2>2. c # <<>>
    <3>1. n # 0
      BY <1>0
    <3> QED BY <2>1, <3>1
  <2>3. Fits(c) <=> /\ root_path # NoPath /\ root_path.drive_no = 0 /\ Len(c) = N
                    /\ \A m \in 1 .. Len(c) : Shown(c[m]) = Lowered(parts[m])
    BY <2>1, <2>2, ChainNames DEF Fits
  <2> HIDE DEF root_path, N, parts
  <2> QED BY <2>1, <2>3
<1>4. CASE ~(root_path # NoPath /\ parts # <<>> /\ root_path.drive_no = 0)
  <2>1. ASSUME NEW n \in 1 .. D, NEW c \in chains[n], Fits(c) PROVE FALSE
    <3>1. root_path # NoPath /\ root_path.drive_no = 0 /\ n = N
      BY <1>3, <2>1
    <3>2. parts = <<>>
      BY <1>4, <3>1
    <3>3. N = 0 /\ n # 0
      BY <1>0, <3>2
    <3> QED BY <3>1, <3>3
  <2>2. Named(path) = {}
    BY <1>2, <2>1
  <2> QED BY <1>4, <2>2
<1>5. CASE root_path # NoPath /\ parts # <<>> /\ root_path.drive_no = 0
  <2>1. parts \in Seq(Name) /\ N <= D
    BY <1>5, PartsDepth DEF D
  <2>2. parts \in Seq(Text) /\ DOMAIN parts = 1 .. N /\ N \in 1 .. D
    <3>1. Name \subseteq Text
      BY DEF Name
    <3>2. parts \in Seq(Text)
      BY <2>1, <3>1, SeqMonotonic
    <3>3. N \in Nat \ {0} /\ DOMAIN parts = 1 .. N
      BY <1>5, <3>2, EmptySeq, LenProperties
    <3> QED BY <1>0, <2>1, <3>2, <3>3
  <2>3. \A n \in 1 .. N : NoLabel(parts[n])
    BY <2>2 DEF PlainPath
  <2>4. ASSUME NEW n \in 1 .. (N - 1), NEW c \in Followed(chains, parts, n), IsDirectory(c[n])
        PROVE  c[n].first # 0
    <3>1. n \in 1 .. D /\ n < N
      BY <1>0, <2>2
    <3>2. c \in chains[n] /\ \A m \in 1 .. n : Shown(c[m]) = Lowered(parts[m])
      BY DEF Followed
    <3> QED BY <2>4, <3>1, <3>2 DEF PlainPath, chains, D
  <2> DEFINE F == Followed(chains, parts, N)
  <2>5. Named(path) = {c[N] : c \in F}
    <3>1. ASSUME NEW x \in Named(path) PROVE x \in {c[N] : c \in F}
      <4>0. PICK n \in 1 .. D : \E c \in chains[n] : Fits(c) /\ x = c[Len(c)]
        BY <1>2
      <4>1. PICK c \in chains[n] : Fits(c) /\ x = c[Len(c)]
        BY <4>0
      <4>2. /\ Len(c) = n /\ n = N
            /\ \A m \in 1 .. n : Shown(c[m]) = Lowered(parts[m])
        BY <1>3, <4>1
      <4>3. c \in F /\ x = c[N]
        BY <4>1, <4>2 DEF Followed
      <4> HIDE DEF F
      <4> QED BY <4>3
    <3>2. ASSUME NEW c \in F PROVE c[N] \in Named(path)
      <4>1. c \in chains[N] /\ \A m \in 1 .. N : Shown(c[m]) = Lowered(parts[m])
        BY DEF Followed
      <4>2. Fits(c) /\ Len(c) = N
        BY <1>3, <1>5, <2>2, <4>1
      <4>3. c \in {g \in UNION {chains[n] : n \in 1 .. D} : Fits(g)}
        BY <2>2, <4>1, <4>2
      <4> QED BY <1>2, <4>2, <4>3
    <3> HIDE DEF F
    <3> QED BY <3>1, <3>2
  <2>6. PICK current_item : /\ Searching(current_item, parts)
                            /\ fat16_get_directory_entry(parts) = current_item[N]
    BY <1>5, <2>2, SearchSteps
  <2> HIDE DEF parts, root_path
  <2>7. \A n \in 1 .. N : Agree(chains, current_item, parts, n)
    <3>1. /\ \A n \in 1 .. Len(parts) : NoLabel(parts[n])
          /\ \A n \in 1 .. (Len(parts) - 1) : \A c \in Followed(chains, parts, n) :
               IsDirectory(c[n]) => c[n].first # 0
      BY <2>3, <2>4
    <3> QED BY <1>0, <1>1, <1>5, <2>1, <2>2, <2>6, <3>1, SearchAgrees
  <2>8. Agree(chains, current_item, parts, N)
    <3>1. N \in 1 .. N
      BY <1>0, <2>2
    <3> QED BY <2>7, <3>1
  <2>9. \E x : /\ fat16_get_directory_entry(parts) = {x} /\ Named(path) = {x} \ {NULL}
    <3>1. CASE F = {} /\ current_item[N] = {NULL}
      <4>1. Named(path) = {NULL} \ {NULL}
        BY <2>5, <3>1
      <4> QED BY <2>6, <3>1, <4>1
    <3>2. ASSUME NEW c \in Seq(OnDisk), Len(c) = N, F = {c}, current_item[N] = {c[N]}
          PROVE  \E x : /\ fat16_get_directory_entry(parts) = {x} /\ Named(path) = {x} \ {NULL}
      <4>1. c[N] # NULL
        <5>1. N \in 1 .. Len(c)
          BY <1>0, <2>2, <3>2
        <5>2. c[N] \in OnDisk
          BY <5>1, ElementOfSeq
        <5> QED BY <5>2, DirectoriesAssumption
      <4>2. Named(path) = {c[N]} \ {NULL}
        <5>1. Named(path) = {c[N]}
          BY <2>5, <3>2
        <5> QED BY <4>1, <5>1
      <4> QED BY <2>6, <3>2, <4>2
    <3>3. CASE ~(F = {} /\ current_item[N] = {NULL})
      <4>1. PICK c \in Seq(OnDisk) : Len(c) = N /\ F = {c} /\ current_item[N] = {c[N]}
        BY <2>8, <3>3 DEF Agree
      <4> QED BY <3>2, <4>1
    <3> QED BY <3>1, <3>3
  <2> QED BY <1>5, <2>9 DEF parts, root_path
<1> QED BY <1>4, <1>5

(* fopen gets as far as an item exactly if the path names one, can be      *)
(* parsed and there is memory.                                             *)
Reaches(path, mode) ==
  /\ Target[path] # {} /\ Len(path) <= MaxPath /\ mode = "r"
  /\ filesystem = "fat16" /\ Unallocated # {}

(* The items fopen may end up with are the one that the path names.        *)
LEMMA ResultIsTarget ==
  ASSUME PlainVolume, NEW path \in Paths, PlainPath(path), NoDoubleSlash(path), NEW mode
  PROVE  IF Reaches(path, mode)
           THEN \E x : x # NULL /\ Target[path] = {x} /\ Results(path, mode) = {x}
           ELSE Results(path, mode) = {NULL}
<1> DEFINE root_path == pathparser_parse(path)
           parts == root_path.parts
           Found == root_path # NoPath /\ parts # <<>> /\ root_path.drive_no = 0
<1>0. path \in Text /\ Len(path) \in Nat /\ MaxPath \in Nat /\ Target[path] = Named(path)
  <2>1. path \in Text
    BY FileTableAssumption DEF Text
  <2> QED BY <2>1, TextIs, PathAssumption DEF Target
<1>1. Searches(path, mode) <=> /\ Found /\ mode = "r" /\ filesystem = "fat16" /\ Unallocated # {}
  BY DEF Searches, disk_get, file_get_mode_by_string
<1>2. CASE Len(path) > MaxPath
  <2>1. root_path = NoPath /\ ~(Len(path) <= MaxPath)
    BY <1>0, <1>2 DEF pathparser_parse
  <2> QED BY <1>1, <2>1 DEF Results, Reaches
<1>3. CASE ~(Len(path) > MaxPath)
  <2>1. Len(path) <= MaxPath
    BY <1>0, <1>3
  <2>2. IF Found THEN \E x : /\ fat16_get_directory_entry(parts) = {x}
                             /\ Named(path) = {x} \ {NULL}
                 ELSE Named(path) = {}
    BY <1>0, <2>1, NamedIsFound
  <2>3. CASE ~Found
    <3>1. Target[path] = {}
      BY <1>0, <2>2, <2>3
    <3> HIDE DEF Found
    <3> QED BY <1>1, <2>3, <3>1 DEF Results, Reaches
  <2>4. CASE Found
    <3>1. PICK x : fat16_get_directory_entry(parts) = {x} /\ Named(path) = {x} \ {NULL}
      BY <2>2, <2>4
    <3>2. Entry[path] = {x}
      BY <2>4, <3>1 DEF Entry
    <3> HIDE DEF Found
    <3>3. CASE x = NULL
      BY <1>0, <3>1, <3>2, <3>3 DEF Results, Reaches
    <3>4. CASE x # NULL
      <4>1. Target[path] = {x}
        BY <1>0, <3>1, <3>4
      <4>2. Searches(path, mode) <=> Reaches(path, mode)
        BY <1>1, <2>1, <2>4, <4>1 DEF Reaches
      <4> QED BY <3>2, <3>4, <4>1, <4>2 DEF Results
    <3> QED BY <3>3, <3>4
  <2> QED BY <2>3, <2>4
<1> QED BY <1>2, <1>3

(* If a slot is empty, file_new_descriptor takes one.                      *)
LEMMA EmptySlot ==
  ASSUME NEW s \in Slots, file_descriptors[s] = NULL
  PROVE  \E fd \in Slots : file_new_descriptor(fd)
<1> DEFINE T == {fd \in Slots : file_descriptors[fd] = NULL}
<1>0. MaxDescriptors \in Nat
  BY FileTableAssumption
<1>1. T \subseteq Nat /\ T # {}
  BY <1>0 DEF Slots
<1>2. PICK fd \in T : \A y \in T : fd <= y
  <2> HIDE DEF T
  <2> QED BY <1>1, NatMinimum
<1>3. \A i \in 1 .. (fd - 1) : i \in Slots /\ ~(fd <= i)
  BY <1>0 DEF Slots
<1> QED BY <1>2, <1>3 DEF file_new_descriptor

(* What fopen does, to a path that leads somewhere and to any other.       *)
OpenedRight(path) ==
  IF /\ Reaches(path, last'.mode)
     /\ \E fd \in Slots : file_descriptors[fd] = NULL
    THEN /\ last'.res # 0 /\ file_descriptors[last'.res] = NULL
         /\ \E item \in Target[path] :
              fat_desc'[file_descriptors'[last'.res]] = [item |-> item, pos |-> 0]
    ELSE last'.res = 0 /\ file_descriptors' = file_descriptors

(* fopen that gets as far as an item opens it.                             *)
LEMMA OpensTarget ==
  ASSUME TypeOK, PlainVolume, NEW path \in Paths, PlainPath(path), NoDoubleSlash(path),
         NEW mode, fopen(path, mode)
  PROVE  OpenedRight(path)
<1>0. /\ file_descriptors \in [Slots -> Privates \cup {NULL}]
      /\ fat_desc \in [Privates -> Descriptor] /\ 0 \notin Slots
  BY TypeFacts DEF Slots
<1>1. PICK item \in Results(path, mode) \ {NULL}, d \in Unallocated :
        /\ fat_desc' = [fat_desc EXCEPT ![d].item = item]
        /\ IF \E fd \in Slots : file_new_descriptor(fd)
             THEN \E fd \in Slots :
                    /\ file_new_descriptor(fd)
                    /\ file_descriptors' = [file_descriptors EXCEPT ![fd] = d]
                    /\ last' = Opened(path, mode, fd)
             ELSE /\ last' = Opened(path, mode, 0)
                  /\ UNCHANGED file_descriptors
  BY DEF fopen
<1>2. d \in Privates /\ fat_desc[d] = [item |-> NULL, pos |-> 0]
  BY DEF Unallocated, Unused
<1>3. fat_desc'[d] = [item |-> item, pos |-> 0]
  <2>1. [fat_desc[d] EXCEPT !.item = item] = [item |-> item, pos |-> 0]
    BY <1>2
  <2> QED BY <1>0, <1>1, <1>2, <2>1
<1>4. Reaches(path, mode) /\ item \in Target[path]
  BY <1>1, ResultIsTarget
<1>5. CASE \E fd \in Slots : file_new_descriptor(fd)
  <2>1. PICK fd \in Slots : /\ file_new_descriptor(fd)
                            /\ file_descriptors' = [file_descriptors EXCEPT ![fd] = d]
                            /\ last' = Opened(path, mode, fd)
    BY <1>1, <1>5
  <2>2. last'.res = fd /\ last'.mode = mode
    BY <2>1 DEF Opened
  <2>3. file_descriptors[fd] = NULL /\ file_descriptors'[fd] = d /\ fd # 0
    BY <1>0, <2>1 DEF file_new_descriptor
  <2> QED BY <1>3, <1>4, <2>2, <2>3 DEF OpenedRight
<1>6. CASE ~(\E fd \in Slots : file_new_descriptor(fd))
  <2>1. last'.res = 0 /\ file_descriptors' = file_descriptors
    BY <1>1, <1>6 DEF Opened
  <2>2. ~(\E fd \in Slots : file_descriptors[fd] = NULL)
    BY <1>6, EmptySlot
  <2> QED BY <2>1, <2>2 DEF OpenedRight
<1> QED BY <1>5, <1>6

(* fopen returns 0 only if there is nothing to open.                       *)
LEMMA FailsWithout ==
  ASSUME PlainVolume, NEW path \in Paths, PlainPath(path), NoDoubleSlash(path), NEW mode,
         fopen_fails(path, mode)
  PROVE  OpenedRight(path)
<1>1. /\ NULL \in Results(path, mode) /\ last' = Opened(path, mode, 0)
      /\ file_descriptors' = file_descriptors
  BY DEF fopen_fails
<1>2. last'.res = 0 /\ last'.mode = mode
  BY <1>1 DEF Opened
<1>3. ~Reaches(path, mode)
  BY <1>1, ResultIsTarget
<1> QED BY <1>1, <1>2, <1>3 DEF OpenedRight

(* fopen opens exactly what its path names, on every plain volume, for     *)
(* every set of plain paths, and with every number of descriptors: neither *)
(* capitals, nor a slash at the end, nor what is open already matters, and *)
(* what is not there is not opened.                                        *)
THEOREM FileTableOpens ==
  ASSUME PlainVolume, \A path \in Paths : PlainPath(path)
  PROVE  Spec => OpensWhatPathNames
<1> DEFINE Right == \A path \in Paths :
       last'.op = "fopen" /\ last'.path = path
         /\ (\A i \in 2 .. Len(path) : ~(path[i - 1] = SLASH /\ path[i] = SLASH))
       => IF /\ Target[path] # {} /\ Len(path) <= MaxPath /\ last'.mode = "r"
             /\ filesystem = "fat16" /\ Unallocated # {}
             /\ \E fd \in Slots : file_descriptors[fd] = NULL
            THEN /\ last'.res # 0 /\ file_descriptors[last'.res] = NULL
                 /\ \E item \in Target[path] :
                      fat_desc'[file_descriptors'[last'.res]] = [item |-> item, pos |-> 0]
            ELSE last'.res = 0 /\ file_descriptors' = file_descriptors
<1>1. TypeOK /\ [Next]_vars => [Right]_vars
  <2> SUFFICES ASSUME TypeOK, Next PROVE Right
    OBVIOUS
  <2> SUFFICES ASSUME NEW path \in Paths, last'.op = "fopen", last'.path = path,
                      NoDoubleSlash(path)
               PROVE  OpenedRight(path)
    BY DEF NoDoubleSlash, OpenedRight, Reaches
  <2>1. ASSUME NEW p \in Paths, NEW mode \in Modes, fopen(p, mode)
        PROVE  OpenedRight(path)
    <3>1. p = path
      BY <2>1 DEF fopen, Opened
    <3> QED BY <2>1, <3>1, OpensTarget
  <2>2. ASSUME NEW p \in Paths, NEW mode \in Modes, fopen_fails(p, mode)
        PROVE  OpenedRight(path)
    <3>1. p = path
      BY <2>2 DEF fopen_fails, Opened
    <3> QED BY <2>2, <3>1, FailsWithout
  <2>3. ASSUME NEW signature \in Signatures, disk_search_and_init(signature) PROVE FALSE
    BY <2>3 DEF disk_search_and_init, Call
  <2>4. ASSUME NEW fd \in Slots, fclose(fd) \/ fstat(fd) PROVE FALSE
    BY <2>4 DEF fclose, fstat, Call
  <2>5. ASSUME NEW fd \in 0 .. (MaxDescriptors + 1), BadDescriptor(fd) PROVE FALSE
    BY <2>5 DEF BadDescriptor, Call
  <2>6. ASSUME NEW fd \in Slots, NEW offset \in Offsets, NEW whence \in Whence,
               fseek(fd, offset, whence)
        PROVE  FALSE
    BY <2>6 DEF fseek, Call
  <2>7. ASSUME NEW fd \in Slots, NEW size \in Sizes, NEW nmemb \in Members,
               fread(fd, size, nmemb)
        PROVE  FALSE
    BY <2>7 DEF fread
  <2> QED BY <2>1, <2>2, <2>3, <2>4, <2>5, <2>6, <2>7 DEF Next
<1> QED BY <1>1, FileTableTypeCorrect, PTL DEF Spec, OpensWhatPathNames
=============================================================================
