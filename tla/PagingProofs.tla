---------------------------- MODULE PagingProofs ----------------------------
(***************************************************************************)
(* Theorems about ElfLoader and Paging: two levels of tables are a flat    *)
(* map of pages, and the pages of a program lead to its file.              *)
(***************************************************************************)
EXTENDS ElfLoader, Foundations, SequenceTheorems

-----------------------------------------------------------------------------
(* Arithmetic of pages.                                                    *)

(* A larger number has a larger multiple.                                  *)
LEMMA MultipleOrder ==
  ASSUME NEW w \in Nat \ {0}, NEW a \in Int, NEW b \in Int
  PROVE  /\ a * w \in Int
         /\ a < b <=> a * w < b * w
         /\ a <= b <=> a * w <= b * w
         /\ a = b <=> a * w = b * w
<1> DEFINE Below(x, y) == x < y => x * w < y * w
<1>1. \A x, y \in Int : x * w \in Int /\ y * w \in Int /\ (y - x) * w = y * w - x * w
  OBVIOUS
<1>2. ASSUME NEW x \in Int, NEW y \in Int PROVE Below(x, y)
  <2> SUFFICES ASSUME x < y PROVE x * w < y * w
    OBVIOUS
  <2>1. (y - x) - 1 \in Nat /\ w \in Nat
    OBVIOUS
  <2>2. ((y - x) - 1) * w \in Nat
    BY <2>1, ProductNat
  <2>3. ((y - x) - 1) * w = (y - x) * w - w
    OBVIOUS
  <2> QED BY <1>1, <2>2, <2>3
<1>3. a < b \/ a = b \/ b < a
  OBVIOUS
<1> QED BY <1>1, <1>2, <1>3

(* A number between q * w and (q + 1) * w has q as its quotient.           *)
LEMMA DivUnique ==
  ASSUME NEW w \in Nat \ {0}, NEW a \in Int, NEW q \in Int, NEW r \in Int,
         a = q * w + r, 0 <= r, r < w
  PROVE  a \div w = q /\ a % w = r
<1> DEFINE d == a \div w
           m == a % w
<1>1. d \in Int /\ m \in Int /\ a = d * w + m
  BY DivMod
<1>2. m = r
  BY ModUnique
<1> HIDE DEF d, m
<1>3. d * w = q * w
  BY <1>1, <1>2
<1>4. d = q
  BY <1>1, <1>3, MultipleOrder
<1> QED BY <1>2, <1>4 DEF d, m

Count == Entries * Entries
PageSet == 0 .. (Count - 1)
View(D, x) == D[x \div Entries][x % Entries]
Tables == [Indexes -> [Indexes -> Addresses]]

(* The constants, as the other proofs use them.                            *)
LEMMA PageConstants ==
  /\ PageSize \in Nat \ {0} /\ Entries \in Nat \ {0} /\ Count \in Nat \ {0}
  /\ Space = Count * PageSize /\ Space \in Nat \ {0} /\ Entries * PageSize \in Nat \ {0}
<1>1. PageSize \in Nat \ {0} /\ Entries \in Nat \ {0}
  BY PagingAssumption
<1>2. Space = Count * PageSize
  BY <1>1 DEF Space, Count
<1>3. \A a, b \in Nat \ {0} : a * b \in Nat \ {0}
  <2> SUFFICES ASSUME NEW a \in Nat \ {0}, NEW b \in Nat \ {0} PROVE a * b \in Nat \ {0}
    OBVIOUS
  <2>1. 0 * b < a * b
    BY MultipleOrder
  <2> QED BY <2>1, ProductNat
<1>4. Count \in Nat \ {0} /\ Entries * PageSize \in Nat \ {0}
  BY <1>1, <1>3 DEF Count
<1> HIDE DEF Count
<1>5. Space \in Nat \ {0}
  BY <1>1, <1>2, <1>3, <1>4
<1> QED BY <1>1, <1>2, <1>4, <1>5

(* A page has an address, which leads to its place in the tables.          *)
LEMMA PageAddress ==
  ASSUME NEW x \in PageSet
  PROVE  /\ x * PageSize \in Addresses /\ paging_is_aligned(x * PageSize)
         /\ \A r \in 0 .. (PageSize - 1) : x * PageSize + r \in Addresses
         /\ paging_get_indexes(x * PageSize) = <<x \div Entries, x % Entries>>
         /\ x \div Entries \in Indexes /\ x % Entries \in Indexes
         /\ x = (x \div Entries) * Entries + (x % Entries)
<1> DEFINE q == x \div Entries
           r == x % Entries
           w == Entries * PageSize
           a == x * PageSize
<1>0. /\ PageSize \in Nat \ {0} /\ Entries \in Nat \ {0} /\ Count \in Nat \ {0}
      /\ Space = Count * PageSize /\ Space \in Nat \ {0} /\ w \in Nat \ {0}
  BY PageConstants
<1>1. x \in Int /\ 0 <= x /\ x < Count /\ x + 1 <= Count
  BY <1>0 DEF PageSet
<1>2. q \in Int /\ r \in Int /\ x = q * Entries + r /\ 0 <= r /\ r < Entries
  BY <1>0, <1>1, DivMod
<1>3. q \in Indexes /\ r \in Indexes
  <2> HIDE DEF q, r
  <2>1. (0 - 1) * Entries = 0 - Entries /\ Count = Entries * Entries
    BY <1>0 DEF Count
  <2>2. q * Entries \in Int /\ q * Entries > 0 - Entries /\ q * Entries < Count
    BY <1>0, <1>1, <1>2
  <2>3. 0 - 1 < q /\ q < Entries
    BY <1>0, <1>2, <2>1, <2>2, MultipleOrder
  <2> QED BY <1>0, <1>2, <2>3 DEF Indexes
<1>4. 0 <= a /\ a + PageSize <= Space /\ a \in Int
  <2>1. 0 * PageSize <= x * PageSize /\ (x + 1) * PageSize <= Count * PageSize
    BY <1>0, <1>1, MultipleOrder
  <2> QED BY <1>0, <1>1, <2>1
<1>5. a % PageSize = 0
  BY <1>0, <1>1, <1>4, ModUnique
<1>6. a \div w = q /\ a % w = r * PageSize
  <2> HIDE DEF q, r
  <2>1. a = q * w + r * PageSize
    BY <1>0, <1>2
  <2>2. 0 * PageSize <= r * PageSize /\ r * PageSize < Entries * PageSize /\ r * PageSize \in Int
    BY <1>0, <1>2, MultipleOrder
  <2>3. 0 <= r * PageSize /\ r * PageSize < w
    BY <1>0, <2>2
  <2> HIDE DEF a, w
  <2> QED BY <1>0, <1>2, <1>4, <2>1, <2>2, <2>3, DivUnique
<1>7. (r * PageSize) \div PageSize = r
  <2> HIDE DEF r
  <2> QED BY <1>0, <1>2, DivUnique
<1>8. paging_get_indexes(a) = <<q, r>>
  BY <1>6, <1>7 DEF paging_get_indexes
<1>9. \A k \in 0 .. (PageSize - 1) : a + k \in Addresses
  <2> HIDE DEF a
  <2> QED BY <1>0, <1>4 DEF Addresses
<1>10. a \in Addresses
  <2> HIDE DEF a
  <2> QED BY <1>0, <1>4 DEF Addresses
<1> QED BY <1>2, <1>3, <1>5, <1>8, <1>9, <1>10 DEF paging_is_aligned

(* Every aligned address is that of a page.                                *)
LEMMA AlignedPage ==
  ASSUME NEW a \in Addresses
  PROVE  /\ a \div PageSize \in PageSet /\ a % PageSize \in 0 .. (PageSize - 1)
         /\ a = (a \div PageSize) * PageSize + (a % PageSize)
<1> DEFINE q == a \div PageSize
           r == a % PageSize
<1>0. /\ PageSize \in Nat \ {0} /\ Count \in Nat \ {0}
      /\ Space = Count * PageSize /\ Space \in Nat \ {0}
  BY PageConstants
<1>1. a \in Int /\ 0 <= a /\ a < Space
  BY <1>0 DEF Addresses
<1>2. q \in Int /\ r \in Int /\ a = q * PageSize + r /\ 0 <= r /\ r < PageSize
  BY <1>0, <1>1, DivMod
<1> HIDE DEF q, r
<1>3. (0 - 1) * PageSize = 0 - PageSize
  BY <1>0
<1>4. (0 - 1) * PageSize < q * PageSize /\ q * PageSize < Count * PageSize
  BY <1>0, <1>1, <1>2, <1>3, MultipleOrder
<1>5. 0 - 1 < q /\ q < Count
  BY <1>0, <1>2, <1>4, MultipleOrder
<1>6. q \in PageSet /\ r \in 0 .. (PageSize - 1)
  BY <1>0, <1>2, <1>5 DEF PageSet
<1> QED BY <1>2, <1>6 DEF q, r

-----------------------------------------------------------------------------
(* paging_set changes the entry of one page.                               *)
LEMMA SetPage ==
  ASSUME NEW D \in Tables, NEW x \in PageSet, NEW val \in Addresses
  PROVE  /\ paging_set(D, x * PageSize, val) \in Tables
         /\ \A y \in PageSet : View(paging_set(D, x * PageSize, val), y)
                                 = IF y = x THEN val ELSE View(D, y)
<1> DEFINE i == x \div Entries
           j == x % Entries
           R == paging_set(D, x * PageSize, val)
<1>1. i \in Indexes /\ j \in Indexes
  BY PageAddress
<1>2. R = [D EXCEPT ![i] = [D[i] EXCEPT ![j] = val]]
  <2> DEFINE a == x * PageSize
             s == paging_get_indexes(a)
  <2>1. s = <<i, j>> /\ paging_is_aligned(a)
    BY PageAddress
  <2>2. R = IF paging_is_aligned(a) THEN [D EXCEPT ![s[1]] = [D[s[1]] EXCEPT ![s[2]] = val]] ELSE D
    BY DEF paging_set
  <2> HIDE DEF s, a, i, j, R
  <2>3. s[1] = i /\ s[2] = j
    BY <2>1
  <2> QED BY <2>1, <2>2, <2>3
<1> HIDE DEF R, i, j
<1>3. D \in [Indexes -> [Indexes -> Addresses]] /\ D[i] \in [Indexes -> Addresses]
  BY <1>1 DEF Tables
<1>4. PICK row : row = [D[i] EXCEPT ![j] = val]
  OBVIOUS
<1>8. row \in [Indexes -> Addresses] /\ \A l \in Indexes : row[l] = IF l = j THEN val ELSE D[i][l]
  BY <1>1, <1>3, <1>4
<1>9. R = [D EXCEPT ![i] = row]
  BY <1>2, <1>4
<1>6. R \in Tables
  BY <1>1, <1>3, <1>8, <1>9 DEF Tables
<1>7. \A k, l \in Indexes : R[k][l] = IF k = i /\ l = j THEN val ELSE D[k][l]
  BY <1>1, <1>3, <1>8, <1>9
<1>5. ASSUME NEW y \in PageSet PROVE View(R, y) = IF y = x THEN val ELSE View(D, y)
  <2> DEFINE k == y \div Entries
             l == y % Entries
  <2>1. k \in Indexes /\ l \in Indexes /\ y = k * Entries + l
    BY PageAddress
  <2>2. x = i * Entries + j
    BY PageAddress DEF i, j
  <2>3. y = x <=> k = i /\ l = j
    <3>1. k = i /\ l = j => y = x
      BY <2>1, <2>2
    <3>2. y = x => k = i /\ l = j
      BY DEF i, j
    <3> QED BY <3>1, <3>2
  <2> HIDE DEF k, l
  <2>4. R[k][l] = IF y = x THEN val ELSE D[k][l]
    BY <1>7, <2>1, <2>3
  <2> QED BY <2>4 DEF View, k, l
<1> QED BY <1>5, <1>6 DEF R

(* paging_map, of a page to a frame.                                       *)
LEMMA MapPage ==
  ASSUME NEW D \in Tables, NEW x \in PageSet, NEW q \in PageSet, NEW f \in 0 .. (PageSize - 1)
  PROVE  /\ paging_map(D, x * PageSize, q * PageSize, f) \in Tables
         /\ \A y \in PageSet : View(paging_map(D, x * PageSize, q * PageSize, f), y)
                                 = IF y = x THEN q * PageSize + f ELSE View(D, y)
<1>1. paging_is_aligned(x * PageSize) /\ paging_is_aligned(q * PageSize)
      /\ q * PageSize + f \in Addresses
  BY PageAddress
<1>2. paging_map(D, x * PageSize, q * PageSize, f) = paging_set(D, x * PageSize, q * PageSize + f)
  BY <1>1 DEF paging_map
<1> QED BY <1>1, <1>2, SetPage

(* R is D with the pages from p to last mapped to the frames from q on.    *)
Mapped(D, R, p, last, q, f) ==
  \A y \in PageSet : View(R, y) = IF y \in p .. last THEN (q + (y - p)) * PageSize + f
                                  ELSE View(D, y)

(* paging_map_range maps n pages in a row.                                 *)
LEMMA MapRange ==
  ASSUME NEW D \in Tables, NEW p \in Nat, NEW q \in Nat, NEW n \in Nat,
         p + n <= Count, q + n <= Count, NEW f \in 0 .. (PageSize - 1)
  PROVE  /\ paging_map_range(D, p * PageSize, q * PageSize, n, f) \in Tables
         /\ Mapped(D, paging_map_range(D, p * PageSize, q * PageSize, n, f),
                   p, p + n - 1, q, f)
<1> DEFINE next(i, X) == paging_map(X, (p * PageSize + (i - 1) * PageSize) % Space,
                                    (q * PageSize + (i - 1) * PageSize) % Space, f)
           step == [i \in Nat |-> [X \in Tables |-> IF i \in 1 .. n THEN next(i, X) ELSE X]]
           Is(g) == g = [i \in 0 .. n |->
                           IF i = 0 THEN D
                           ELSE paging_map(g[i - 1], (p * PageSize + (i - 1) * PageSize) % Space,
                                           (q * PageSize + (i - 1) * PageSize) % Space, f)]
           after == CHOOSE g : Is(g)
<1>0. /\ PageSize \in Nat \ {0} /\ Count \in Nat \ {0}
      /\ Space = Count * PageSize /\ Space \in Nat \ {0}
  BY PageConstants
<1>1. ASSUME NEW i \in 1 .. n, NEW X \in Tables
      PROVE  /\ next(i, X) \in Tables
             /\ \A y \in PageSet : View(next(i, X), y)
                  = IF y = p + (i - 1) THEN (q + (i - 1)) * PageSize + f ELSE View(X, y)
  <2> DEFINE x == p + (i - 1)
             z == q + (i - 1)
  <2>1. x \in PageSet /\ z \in PageSet
    BY <1>0 DEF PageSet
  <2>2. p * PageSize + (i - 1) * PageSize = x * PageSize
        /\ q * PageSize + (i - 1) * PageSize = z * PageSize
    BY <1>0
  <2> HIDE DEF x, z
  <2>3. (x * PageSize) % Space = x * PageSize /\ (z * PageSize) % Space = z * PageSize
    BY <1>0, <2>1, PageAddress, ModSmall DEF Addresses
  <2>4. next(i, X) = paging_map(X, x * PageSize, z * PageSize, f)
    BY <2>2, <2>3
  <2> HIDE DEF next
  <2>5. /\ next(i, X) \in Tables
        /\ \A y \in PageSet : View(next(i, X), y) = IF y = x THEN z * PageSize + f ELSE View(X, y)
    BY <2>1, <2>4, MapPage
  <2> QED BY <2>5 DEF x, z
<1>2. step \in [Nat -> [Tables -> Tables]]
  <2> HIDE DEF next
  <2> QED BY <1>1
<1>3. PICK g : Iterates(g, Tables, D, step, n)
  <2> HIDE DEF step
  <2> QED BY <1>2, Recursion
<1>4. /\ g \in [0 .. n -> Tables] /\ g[0] = D
      /\ \A i \in 1 .. n : g[i] = next(i, g[i - 1])
  <2> HIDE DEF next
  <2>1. /\ g \in [0 .. n -> Tables] /\ g[0] = D
        /\ \A i \in 1 .. n : g[i] = step[i][g[i - 1]]
    BY <1>3 DEF Iterates
  <2>2. ASSUME NEW i \in 1 .. n PROVE i \in Nat /\ g[i - 1] \in Tables
    BY <2>1
  <2> QED BY <2>1, <2>2
<1>5. Is(g)
  <2> SUFFICES ASSUME NEW i \in 0 .. n PROVE g[i] = IF i = 0 THEN D ELSE next(i, g[i - 1])
    BY <1>4
  <2>1. i # 0 => i \in 1 .. n
    OBVIOUS
  <2> HIDE DEF next
  <2> QED BY <1>4, <2>1
<1>6. Is(after)
  <2> HIDE DEF Is
  <2> QED BY <1>5
<1> HIDE DEF after
<1>7. /\ after[0] = D
      /\ \A i \in 1 .. n : after[i] = next(i, after[i - 1])
  <2>1. 0 \in 0 .. n
    OBVIOUS
  <2>2. \A i \in 1 .. n : i \in 0 .. n /\ i # 0
    OBVIOUS
  <2> QED BY <1>6, <2>1, <2>2
<1> HIDE DEF Is, next
<1> DEFINE Good(i) == after[i] \in Tables /\ Mapped(D, after[i], p, p + i - 1, q, f)
           T == {i \in 0 .. n : ~Good(i)}
<1>8. Good(0)
  <2>1. p .. (p + 0 - 1) = {}
    OBVIOUS
  <2> QED BY <1>7, <2>1 DEF Mapped
<1>9. ASSUME NEW i \in 1 .. n, Good(i - 1) PROVE Good(i)
  <2>1. /\ after[i] \in Tables
        /\ \A y \in PageSet : View(after[i], y)
             = IF y = p + (i - 1) THEN (q + (i - 1)) * PageSize + f ELSE View(after[i - 1], y)
    BY <1>1, <1>7, <1>9
  <2>2. \A y \in PageSet : View(after[i - 1], y)
          = IF y \in p .. (p + (i - 1) - 1) THEN (q + (y - p)) * PageSize + f ELSE View(D, y)
    BY <1>9 DEF Mapped
  <2>3. ASSUME NEW y \in PageSet
        PROVE  View(after[i], y) = IF y \in p .. (p + i - 1) THEN (q + (y - p)) * PageSize + f
                                   ELSE View(D, y)
    <3>1. y \in Int /\ i \in Int
      BY <1>0 DEF PageSet
    <3>2. CASE y = p + (i - 1)
      <4>1. y - p = i - 1 /\ y \in p .. (p + i - 1)
        BY <3>1, <3>2
      <4> QED BY <2>1, <3>2, <4>1
    <3>3. CASE y # p + (i - 1)
      <4>1. y \in p .. (p + i - 1) <=> y \in p .. (p + (i - 1) - 1)
        BY <3>1, <3>3
      <4> QED BY <2>1, <2>2, <3>3, <4>1
    <3> QED BY <3>2, <3>3
  <2> QED BY <2>1, <2>3 DEF Mapped
<1> HIDE DEF Good
<1>10. Good(n)
  <2> SUFFICES ASSUME T # {} PROVE FALSE
    OBVIOUS
  <2>1. T \subseteq Nat
    OBVIOUS
  <2>2. PICK m \in T : \A y \in T : m <= y
    <3> HIDE DEF T
    <3> QED BY <2>1, NatMinimum
  <2>3. m \in 1 .. n /\ m - 1 \in 0 .. n /\ ~(m <= m - 1)
    BY <1>8
  <2> QED BY <1>9, <2>2, <2>3
<1>11. paging_map_range(D, p * PageSize, q * PageSize, n, f) = after[n]
  BY DEF paging_map_range, after, Is
<1> QED BY <1>10, <1>11 DEF Good

(* paging_align_address goes up to the next multiple of a page, and from   *)
(* the last page to 0.                                                     *)
LEMMA AlignUp ==
  ASSUME NEW a \in Addresses, NEW k \in Int, NEW d \in 0 .. (PageSize - 1),
         a = k * PageSize - d
  PROVE  /\ k \in 0 .. Count
         /\ paging_align_address(a) = IF k = Count THEN 0 ELSE k * PageSize
<1>0. /\ PageSize \in Nat \ {0} /\ Count \in Nat \ {0}
      /\ Space = Count * PageSize /\ Space \in Nat \ {0}
  BY PageConstants
<1>1. a \in Int /\ 0 <= a /\ a < Space /\ k * PageSize \in Int /\ d \in Int /\ 0 <= d /\ d < PageSize
  BY <1>0, MultipleOrder DEF Addresses
<1>2. k \in 0 .. Count
  <2>1. 0 * PageSize = 0 /\ (Count + 1) * PageSize = Count * PageSize + PageSize
    BY <1>0
  <2>2. 0 * PageSize <= k * PageSize /\ k * PageSize < (Count + 1) * PageSize
    BY <1>0, <1>1, <2>1
  <2>3. 0 <= k /\ k < Count + 1
    BY <1>0, <2>2, MultipleOrder
  <2> QED BY <1>0, <2>3
<1>3. CASE d = 0
  <2>1. a = k * PageSize /\ a = k * PageSize + 0
    BY <1>1, <1>3
  <2>2. a % PageSize = 0
    BY <1>0, <1>1, <2>1, ModUnique
  <2>3. k # Count
    BY <1>0, <1>1, <2>1
  <2> QED BY <1>2, <2>1, <2>2, <2>3 DEF paging_align_address
<1>4. CASE d # 0
  <2>1. a = (k - 1) * PageSize + (PageSize - d)
    BY <1>0, <1>1
  <2>2. a % PageSize = PageSize - d
    <3>1. k - 1 \in Int /\ PageSize - d \in Int /\ 0 <= PageSize - d /\ PageSize - d < PageSize
      BY <1>0, <1>1, <1>4
    <3> QED BY <1>0, <1>1, <2>1, <3>1, ModUnique
  <2>3. a + PageSize - (a % PageSize) = k * PageSize /\ a % PageSize # 0
    BY <1>0, <1>1, <2>2
  <2>4. paging_align_address(a) = (k * PageSize) % Space
    BY <2>3 DEF paging_align_address
  <2>5. CASE k = Count
    <3>1. Space % Space = 0
      BY <1>0
    <3> QED BY <1>0, <1>2, <2>4, <2>5, <3>1
  <2>6. CASE k # Count
    <3>1. k \in PageSet
      BY <1>0, <1>2, <2>6 DEF PageSet
    <3>2. (k * PageSize) % Space = k * PageSize
      BY <1>0, <3>1, PageAddress, ModSmall DEF Addresses
    <3> QED BY <1>2, <2>4, <2>6, <3>2
  <2> QED BY <2>5, <2>6
<1> QED BY <1>3, <1>4

(* Every number of bytes is a number of pages, less a rest.                *)
LEMMA PagesFor ==
  ASSUME NEW t \in Nat, t <= Space - PageSize
  PROVE  \E c \in 0 .. (Count - 1), d \in 0 .. (PageSize - 1) : t = c * PageSize - d
<1> DEFINE u == t + PageSize - 1
           c == u \div PageSize
           r == u % PageSize
           d == PageSize - 1 - r
<1>0. /\ PageSize \in Nat \ {0} /\ Count \in Nat \ {0}
      /\ Space = Count * PageSize /\ Space \in Nat \ {0}
  BY PageConstants
<1>1. u \in Int /\ 0 <= u
  BY <1>0
<1>2. c \in Int /\ r \in Int /\ u = c * PageSize + r /\ 0 <= r /\ r < PageSize
  BY <1>0, <1>1, DivMod
<1> HIDE DEF c, r
<1>3. c * PageSize \in Int /\ d \in 0 .. (PageSize - 1) /\ t = c * PageSize - d
  BY <1>0, <1>2, MultipleOrder
<1>4. 0 <= c /\ c < Count
  <2>1. (0 - 1) * PageSize = 0 - PageSize
    BY <1>0
  <2>2. (0 - 1) * PageSize < c * PageSize /\ c * PageSize < Count * PageSize
    BY <1>0, <1>1, <1>2, <1>3, <2>1
  <2>3. 0 - 1 < c /\ c < Count
    BY <1>0, <1>2, <2>2, MultipleOrder
  <2> QED BY <1>2, <2>3
<1>5. c \in 0 .. (Count - 1)
  BY <1>0, <1>2, <1>4
<1> HIDE DEF d
<1> QED BY <1>3, <1>5

(* Where process_map says that a piece of memory ends: if this is not      *)
(* before its start then it is c pages further on, in the space.           *)
LEMMA PieceEnds ==
  ASSUME NEW q \in Nat \ {0}, NEW t \in Nat, NEW c \in 0 .. (Count - 1),
         NEW d \in 0 .. (PageSize - 1), t = c * PageSize - d
  PROVE  LET end == paging_align_address((q * PageSize + t) % Space)
         IN  /\ end \in Int
             /\ end >= q * PageSize => q + c < Count /\ end = (q + c) * PageSize
<1> DEFINE a == (q * PageSize + t) % Space
           end == paging_align_address(a)
<1>0. /\ PageSize \in Nat \ {0} /\ Count \in Nat \ {0}
      /\ Space = Count * PageSize /\ Space \in Nat \ {0}
  BY PageConstants
<1>1. q * PageSize \in Int /\ c * PageSize \in Int /\ d \in Int /\ 0 <= d /\ d < PageSize
      /\ c \in Int /\ 0 <= c /\ c < Count /\ q \in Int /\ 0 < q /\ q * PageSize + t \in Int
  BY <1>0, MultipleOrder
<1>2. a \in Addresses
  BY <1>0, <1>1, DivMod DEF Addresses
<1>3. CASE q < Count /\ q * PageSize + t < Space
  <2>1. 0 * PageSize <= q * PageSize /\ 0 * PageSize = 0
    BY <1>0, <1>1, MultipleOrder
  <2>2. q * PageSize + t \in 0 .. (Space - 1)
    BY <1>0, <1>1, <1>3, <2>1
  <2>3. a = q * PageSize + t
    BY <1>0, <2>2, ModSmall
  <2>4. a = (q + c) * PageSize - d
    BY <1>0, <1>1, <2>3
  <2> HIDE DEF a
  <2>5. q + c \in 0 .. Count /\ end = IF q + c = Count THEN 0 ELSE (q + c) * PageSize
    <3>1. q + c \in Int
      BY <1>1
    <3> QED BY <1>2, <2>4, <3>1, AlignUp
  <2>6. 0 * PageSize < q * PageSize /\ (q + c) * PageSize \in Int
    BY <1>0, <1>1, MultipleOrder
  <2> HIDE DEF end
  <2>7. end \in Int /\ (end >= q * PageSize => q + c < Count /\ end = (q + c) * PageSize)
    <3>1. CASE q + c = Count
      <4>1. end = 0
        BY <2>5, <3>1
      <4> QED BY <1>1, <2>1, <2>6, <4>1
    <3>2. CASE q + c # Count
      <4>1. end = (q + c) * PageSize
        BY <2>5, <3>2
      <4>2. q + c < Count
        BY <1>0, <1>1, <2>5, <3>2
      <4> QED BY <2>6, <4>1, <4>2
    <3> QED BY <3>1, <3>2
  <2> QED BY <2>7 DEF a, end
<1>4. CASE q < Count /\ q * PageSize + t >= Space
  <2> DEFINE k == q + c - Count
  <2>1. /\ k \in Int /\ k < q /\ k < Count
        /\ q * PageSize + t - Space = k * PageSize - d
    <3>1. k \in Int /\ k < q /\ k < Count
      BY <1>0, <1>1, <1>4
    <3>2. k * PageSize = q * PageSize + c * PageSize - Count * PageSize
      BY <1>0, <1>1
    <3> HIDE DEF k
    <3> QED BY <1>0, <1>1, <3>1, <3>2
  <2>2. q * PageSize < Space
    BY <1>0, <1>1, <1>4, MultipleOrder
  <2>3. t < Space
    <3>1. c * PageSize < Space
      BY <1>0, <1>1, MultipleOrder
    <3> QED BY <1>0, <1>1, <3>1
  <2>4. q * PageSize + t - Space \in 0 .. (Space - 1)
    BY <1>0, <1>1, <1>4, <2>2, <2>3
  <2>5. a = q * PageSize + t - Space
    <3>1. q * PageSize + t = 1 * Space + (q * PageSize + t - Space)
      BY <1>0, <1>1
    <3> DEFINE r == q * PageSize + t - Space
    <3>2. r \in Int /\ 0 <= r /\ r < Space
      BY <1>0, <2>4
    <3> HIDE DEF r
    <3> QED BY <1>0, <1>1, <3>1, <3>2, ModUnique DEF r
  <2> HIDE DEF a, k
  <2>6. end = IF k = Count THEN 0 ELSE k * PageSize
    BY <1>2, <2>1, <2>5, AlignUp
  <2>7. end = k * PageSize /\ k * PageSize < q * PageSize /\ k * PageSize \in Int
    BY <1>0, <1>1, <2>1, <2>6, MultipleOrder
  <2> HIDE DEF end
  <2>8. end \in Int /\ ~(end >= q * PageSize)
    BY <1>1, <2>7
  <2> QED BY <2>8 DEF a, end
<1>5. CASE q >= Count
  <2>1. Space <= q * PageSize
    BY <1>0, <1>1, <1>5, MultipleOrder
  <2> HIDE DEF a
  <2> DEFINE e == a \div PageSize
             r == a % PageSize
  <2>2. a \in Int /\ 0 <= a /\ a < Space
    BY <1>0, <1>2 DEF Addresses
  <2>3. end \in Addresses
    <3>1. a % PageSize = 0 => end = a
      BY DEF paging_align_address
    <3>2. a % PageSize # 0 => end = (a + PageSize - (a % PageSize)) % Space
      BY DEF paging_align_address
    <3>3. a + PageSize - (a % PageSize) \in Int
      BY <1>0, <2>2, DivMod
    <3> DEFINE b == a + PageSize - (a % PageSize)
    <3>4. b % Space \in Addresses
      <4> HIDE DEF b
      <4> QED BY <1>0, <3>3, DivMod DEF Addresses, b
    <3> HIDE DEF end
    <3> QED BY <1>2, <3>1, <3>2, <3>4
  <2> HIDE DEF end
  <2>4. end \in Int /\ ~(end >= q * PageSize)
    BY <1>0, <1>1, <2>1, <2>3 DEF Addresses
  <2> QED BY <2>4 DEF a, end
<1>6. \/ q < Count /\ q * PageSize + t < Space
      \/ q < Count /\ q * PageSize + t >= Space
      \/ q >= Count
  BY <1>0, <1>1
<1> QED BY <1>3, <1>4, <1>5, <1>6
(* Every entry of the tables is that of a page.                            *)
LEMMA EntryPage ==
  ASSUME NEW i \in Indexes, NEW j \in Indexes
  PROVE  /\ i * Entries + j \in PageSet
         /\ (i * Entries + j) \div Entries = i /\ (i * Entries + j) % Entries = j
<1> DEFINE x == i * Entries + j
<1>0. Entries \in Nat \ {0} /\ Count \in Nat \ {0} /\ Count = Entries * Entries
  BY PageConstants DEF Count
<1>1. i \in Int /\ j \in Int /\ 0 <= i /\ i <= Entries - 1 /\ 0 <= j /\ j < Entries
  BY <1>0 DEF Indexes
<1>2. /\ 0 * Entries <= i * Entries /\ i * Entries <= (Entries - 1) * Entries /\ i * Entries \in Int
      /\ 0 * Entries = 0
  BY <1>0, <1>1, MultipleOrder
<1>3. (Entries - 1) * Entries = Count - Entries
  BY <1>0
<1>4. x \in PageSet /\ x \in Int
  BY <1>0, <1>1, <1>2, <1>3 DEF PageSet
<1> QED BY <1>0, <1>1, <1>4, DivUnique

(* Tables that lead to the same entries from every page are the same.      *)
LEMMA SameView ==
  ASSUME NEW D, NEW R, \A y \in PageSet : View(R, y) = View(D, y)
  PROVE  \A i, j \in Indexes : R[i][j] = D[i][j]
<1> SUFFICES ASSUME NEW i \in Indexes, NEW j \in Indexes PROVE R[i][j] = D[i][j]
  OBVIOUS
<1>1. View(R, i * Entries + j) = View(D, i * Entries + j)
  BY EntryPage
<1> QED BY <1>1, EntryPage DEF View

(* process_map maps the pages of the piece it is given and no others, or   *)
(* refuses and changes nothing.                                            *)
LEMMA MapStep ==
  ASSUME directory \in Tables, NEW virt \in Nat, NEW phys \in Nat, NEW size \in Nat,
         NEW f \in 0 .. (PageSize - 1), PageSize <= phys, virt <= phys,
         (phys % PageSize) + size <= Space - PageSize,
         process_map(virt, phys, size, f)
  PROVE  \/ segment' = <<>> /\ directory' = directory
         \/ /\ segment' = <<virt, phys, size>> /\ virt \in Addresses /\ phys \in Addresses
            /\ directory' \in Tables
            /\ Mapped(directory, directory', virt \div PageSize,
                      (virt + size - 1) \div PageSize, phys \div PageSize, f)
<1> DEFINE p == virt \div PageSize
           q == phys \div PageSize
           o == phys % PageSize
           from == paging_align_to_lower_page(virt)
           first == paging_align_to_lower_page(phys)
           end == paging_align_address((phys + size) % Space)
           t == o + size
<1>0. /\ PageSize \in Nat \ {0} /\ Count \in Nat \ {0}
      /\ Space = Count * PageSize /\ Space \in Nat \ {0}
  BY PageConstants
<1>1. /\ virt % PageSize = o
      /\ directory' = paging_map_to(directory, from, first, end, f)
      /\ segment' = IF MapToAccepts(from, first, end) THEN <<virt, phys, size>> ELSE <<>>
  BY DEF process_map
<1>2. /\ p \in Int /\ q \in Int /\ o \in Int /\ 0 <= o /\ o < PageSize
      /\ virt = p * PageSize + o /\ phys = q * PageSize + o
  <2>1. virt \in Int /\ phys \in Int
    OBVIOUS
  <2> QED BY <1>0, <1>1, <2>1, DivMod
<1>3. from = p * PageSize /\ first = q * PageSize
  <2> HIDE DEF p, q
  <2>1. p * PageSize \in Int /\ q * PageSize \in Int
    BY <1>0, <1>2, MultipleOrder
  <2> QED BY <1>1, <1>2, <2>1, SMTT(30) DEF paging_align_to_lower_page
<1> HIDE DEF p, q, o, from, first
<1>4. p \in Nat /\ q \in Nat \ {0} /\ p <= q
  <2>1. /\ p * PageSize \in Int /\ q * PageSize \in Int
        /\ (0 - 1) * PageSize = 0 - PageSize /\ 0 * PageSize = 0
    BY <1>0, <1>2, MultipleOrder
  <2>2. (0 - 1) * PageSize < p * PageSize /\ 0 * PageSize < q * PageSize /\ p * PageSize <= q * PageSize
    BY <1>0, <1>2, <2>1
  <2>3. 0 - 1 < p /\ 0 < q /\ p <= q
    BY <1>0, <1>2, <2>2, MultipleOrder
  <2> QED BY <1>2, <2>3
<1>5. t \in Nat /\ phys + size = q * PageSize + t /\ virt + size = p * PageSize + t
  <2>1. p * PageSize \in Int /\ q * PageSize \in Int
    BY <1>0, <1>2, MultipleOrder
  <2> QED BY <1>2, <2>1
<1> HIDE DEF t
<1>6. PICK c \in 0 .. (Count - 1), d \in 0 .. (PageSize - 1) : t = c * PageSize - d
  <2>1. t <= Space - PageSize
    BY DEF t, o
  <2> QED BY <1>5, <2>1, PagesFor
<1>7. end \in Int /\ (end >= first => q + c < Count /\ end = (q + c) * PageSize)
  <2>1. end = paging_align_address((q * PageSize + t) % Space)
    BY <1>5
  <2> QED BY <1>3, <1>4, <1>5, <1>6, <2>1, PieceEnds
<1> HIDE DEF end
<1>8. CASE ~MapToAccepts(from, first, end)
  BY <1>1, <1>8 DEF paging_map_to
<1>9. CASE MapToAccepts(from, first, end)
  <2>1. q + c < Count /\ end = (q + c) * PageSize
    BY <1>7, <1>9 DEF MapToAccepts
  <2>2. c \in Nat /\ c \in Int /\ d \in Int /\ 0 <= d /\ d < PageSize /\ c * PageSize \in Int
    BY <1>0, MultipleOrder
  <2>3. (end - first) \div PageSize = c
    <3>1. end - first = c * PageSize + 0
      <4>1. (q + c) * PageSize = q * PageSize + c * PageSize /\ q * PageSize \in Int
        BY <1>0, <1>2, <2>2
      <4> QED BY <1>3, <2>1, <2>2, <4>1
    <3>2. end - first \in Int
      BY <2>2, <3>1
    <3> QED BY <1>0, <2>2, <3>1, <3>2, DivUnique
  <2>4. directory' = paging_map_range(directory, p * PageSize, q * PageSize, c, f)
    BY <1>1, <1>3, <1>9, <2>3 DEF paging_map_to
  <2>5. p + c <= Count /\ q + c <= Count /\ q \in PageSet
    BY <1>0, <1>4, <2>1, <2>2 DEF PageSet
  <2>6. directory' \in Tables /\ Mapped(directory, directory', p, p + c - 1, q, f)
    BY <1>4, <2>2, <2>4, <2>5, MapRange
  <2>7. (virt + size - 1) \div PageSize = p + c - 1
    <3>1. virt + size - 1 = (p + c - 1) * PageSize + (PageSize - 1 - d)
      <4>1. (p + c - 1) * PageSize = p * PageSize + c * PageSize - PageSize /\ p * PageSize \in Int
        BY <1>0, <1>2, <2>2
      <4> QED BY <1>0, <1>5, <1>6, <2>2, <4>1
    <3>2. p + c - 1 \in Int /\ PageSize - 1 - d \in Int /\ 0 <= PageSize - 1 - d
          /\ PageSize - 1 - d < PageSize /\ virt + size - 1 \in Int
      BY <1>0, <1>2, <2>2
    <3> QED BY <1>0, <3>1, <3>2, DivUnique
  <2>8. phys \in Addresses /\ virt \in Addresses
    <3>1. q * PageSize + o \in Addresses
      BY <1>0, <1>2, <2>5, PageAddress
    <3> QED BY <1>0, <1>2, <3>1 DEF Addresses
  <2>9. segment' = <<virt, phys, size>>
    BY <1>1, <1>9
  <2> QED BY <2>6, <2>7, <2>8, <2>9 DEF p, q
<1> QED BY <1>8, <1>9

(* copy_string_from_task gives back the page it has borrowed.              *)
LEMMA BorrowStep ==
  ASSUME directory \in Tables, NEW tmp \in Addresses, NEW f \in 0 .. (PageSize - 1),
         copy_string_from_task(tmp, f)
  PROVE  directory' = directory /\ segment' = segment
<1> DEFINE x == tmp \div PageSize
           old == paging_get(directory, tmp)
           borrowed == paging_map(directory, tmp, tmp, f)
<1>1. tmp % PageSize = 0 /\ segment' = segment /\ directory' = paging_set(borrowed, tmp, old)
  BY DEF copy_string_from_task, paging_is_aligned
<1>2. x \in PageSet /\ tmp = x * PageSize
  <2>1. x * PageSize \in Int
    BY AlignedPage, PageConstants, MultipleOrder DEF PageSet
  <2> QED BY <1>1, <2>1, AlignedPage
<1> HIDE DEF x
<1>3. old = View(directory, x)
  <2> DEFINE s == paging_get_indexes(tmp)
  <2>1. s = <<x \div Entries, x % Entries>>
    BY <1>2, PageAddress
  <2>2. old = directory[s[1]][s[2]]
    BY DEF paging_get
  <2> HIDE DEF s
  <2>3. s[1] = x \div Entries /\ s[2] = x % Entries
    BY <2>1
  <2> QED BY <2>2, <2>3 DEF View
<1>4. old \in Addresses
  <2>1. x \div Entries \in Indexes /\ x % Entries \in Indexes
    BY <1>2, PageAddress
  <2> QED BY <1>3, <2>1 DEF View, Tables
<1> HIDE DEF old
<1>5. /\ borrowed \in Tables
      /\ \A y \in PageSet : View(borrowed, y) = IF y = x THEN x * PageSize + f ELSE View(directory, y)
  BY <1>2, MapPage
<1> HIDE DEF borrowed
<1>6. /\ directory' \in Tables
      /\ \A y \in PageSet : View(directory', y) = IF y = x THEN old ELSE View(borrowed, y)
  BY <1>1, <1>2, <1>4, <1>5, SetPage
<1>7. \A y \in PageSet : View(directory', y) = View(directory, y)
  BY <1>3, <1>5, <1>6
<1>8. \A i, j \in Indexes : directory'[i][j] = directory[i][j]
  BY <1>6, <1>7, SameView
<1>9. directory' = directory
  <2>1. \A i \in Indexes : directory'[i] = directory[i]
    BY <1>6, <1>8 DEF Tables
  <2> QED BY <1>6, <2>1 DEF Tables
<1> QED BY <1>1, <1>9
-----------------------------------------------------------------------------
(* The steps of the loader, each as a mapping.                             *)

AllFlags == Flags \cup {NewFlags}

(* A piece of memory that process_map can be given.                        *)
Suitable(virt, phys, size) ==
  /\ virt \in Nat /\ phys \in Nat /\ size \in Nat
  /\ PageSize <= phys /\ virt <= phys
  /\ (phys % PageSize) + size <= Space - PageSize

(* What process_map then does.                                             *)
Maps(virt, phys, size, f) ==
  \/ segment' = <<>> /\ directory' = directory
  \/ /\ segment' = <<virt, phys, size>> /\ virt \in Addresses /\ phys \in Addresses
     /\ directory' \in Tables
     /\ Mapped(directory, directory', virt \div PageSize,
               (virt + size - 1) \div PageSize, phys \div PageSize, f)

(* The places of programs, stacks and the heap.                            *)
LEMMA Places ==
  /\ \A a \in {ProgramAddress, ProgramEnd, StackAddress, StackSize} \cup Heap :
       a \in Addresses /\ a \in Nat /\ PageSize <= a /\ a % PageSize = 0 /\ a <= Space - PageSize
  /\ StackAddress + StackSize <= ProgramAddress /\ ProgramAddress <= ProgramEnd
  /\ \A a \in Heap : ProgramEnd <= a
  /\ MaxSize \in Nat \ {0} /\ MaxSize <= Space - 2 * PageSize
  /\ AllFlags \subseteq 0 .. (PageSize - 1)
  /\ 0 \in AllFlags /\ \A w \in BOOLEAN : Writable(w) \in AllFlags
<1>0. /\ PageSize \in Nat \ {0} /\ Count \in Nat \ {0}
      /\ Space = Count * PageSize /\ Space \in Nat \ {0}
  BY PageConstants
<1>1. ASSUME NEW a \in {ProgramAddress, ProgramEnd, StackAddress, StackSize} \cup Heap
      PROVE  a \in Addresses /\ a \in Nat /\ PageSize <= a /\ a % PageSize = 0
             /\ a <= Space - PageSize
  <2>1. a \in Addresses /\ a # 0 /\ a % PageSize = 0
    BY ElfAssumption DEF paging_is_aligned
  <2> DEFINE x == a \div PageSize
  <2>2. x \in Int /\ 0 <= x /\ x <= Count - 1 /\ a = x * PageSize
    <3>1. x * PageSize \in Int
      BY <1>0, <2>1, AlignedPage, MultipleOrder DEF PageSet
    <3> QED BY <1>0, <2>1, <3>1, AlignedPage DEF PageSet
  <2> HIDE DEF x
  <2>3. 1 * PageSize = PageSize /\ (Count - 1) * PageSize = Space - PageSize /\ 0 * PageSize = 0
    BY <1>0
  <2>4. 1 <= x
    BY <2>1, <2>2, <2>3
  <2>5. 1 * PageSize <= x * PageSize /\ x * PageSize <= (Count - 1) * PageSize
    BY <1>0, <2>2, <2>4, MultipleOrder
  <2> QED BY <1>0, <2>1, <2>2, <2>3, <2>5 DEF Addresses
<1>2. MaxSize \in Nat \ {0} /\ MaxSize <= Space - 2 * PageSize
  <2>1. (Count - 2) * PageSize = Space - 2 * PageSize
    BY <1>0
  <2>2. MaxSize \in 1 .. (Count - 2) * PageSize
    BY PagingAssumption DEF Count
  <2> QED BY <1>0, <2>1, <2>2
<1>3. AllFlags \subseteq 0 .. (PageSize - 1)
  BY PagingAssumption DEF AllFlags
<1>4. 0 \in AllFlags /\ NewFlags + WriteFlag \in AllFlags /\ NewFlags \in AllFlags
  BY ElfAssumption DEF AllFlags
<1>5. NewFlags + 0 = NewFlags
  BY PagingAssumption
<1>6. \A w \in BOOLEAN : Writable(w) \in AllFlags
  BY <1>4, <1>5 DEF Writable
<1>7. /\ StackAddress + StackSize <= ProgramAddress /\ ProgramAddress <= ProgramEnd
      /\ \A a \in Heap : ProgramEnd <= a
  BY ElfAssumption
<1> QED BY <1>1, <1>2, <1>3, <1>4, <1>6, <1>7

(* process_map, of a piece it can be given.                                *)
LEMMA MapsStep ==
  ASSUME TypeOK, NEW virt, NEW phys, NEW size, Suitable(virt, phys, size),
         NEW f \in AllFlags, process_map(virt, phys, size, f)
  PROVE  Maps(virt, phys, size, f)
<1>1. directory \in Tables /\ f \in 0 .. (PageSize - 1)
  BY Places DEF TypeOK, Tables
<1>2. /\ virt \in Nat /\ phys \in Nat /\ size \in Nat
      /\ PageSize <= phys /\ virt <= phys
      /\ (phys % PageSize) + size <= Space - PageSize
  BY DEF Suitable
<1> QED BY <1>1, <1>2, MapStep DEF Maps

(* A mapping keeps the types of the entries.                               *)
LEMMA MapsType ==
  ASSUME TypeOK, NEW virt \in Nat, NEW phys \in Nat, NEW size, NEW f \in AllFlags,
         Maps(virt, phys, size, f)
  PROVE  TypeOK'
<1> DEFINE p == virt \div PageSize
           q == phys \div PageSize
           last == (virt + size - 1) \div PageSize
<1>0. PageSize \in Nat \ {0} /\ Count \in Nat \ {0}
  BY PageConstants
<1>1. CASE directory' = directory
  BY <1>1 DEF TypeOK, Addresses, Indexes
<1>2. CASE directory' \in Tables /\ Mapped(directory, directory', p, last, q, f)
  <2>1. p \in Int /\ q \in Int
    BY <1>0, DivMod
  <2> HIDE DEF p, q, last
  <2>2. ASSUME NEW i \in Indexes, NEW j \in Indexes
        PROVE  directory'[i][j] % PageSize \in AllFlags
    <3> DEFINE y == i * Entries + j
    <3>1. y \in PageSet /\ y \div Entries = i /\ y % Entries = j
      BY EntryPage
    <3> HIDE DEF y
    <3>2. directory'[i][j] = IF y \in p .. last THEN (q + (y - p)) * PageSize + f ELSE directory[i][j]
      BY <1>2, <3>1 DEF Mapped, View
    <3>3. directory[i][j] % PageSize \in AllFlags
      BY DEF TypeOK, AllFlags
    <3>4. ((q + (y - p)) * PageSize + f) % PageSize = f
      <4> DEFINE k == q + (y - p)
                 a == k * PageSize + f
      <4>1. k \in Int /\ f \in Int /\ 0 <= f /\ f < PageSize
        BY <1>0, <2>1, <3>1, Places DEF PageSet
      <4> HIDE DEF k
      <4>2. a \in Int /\ a = k * PageSize + f
        BY <1>0, <4>1, MultipleOrder
      <4> HIDE DEF a
      <4>3. a % PageSize = f
        BY <1>0, <4>1, <4>2, ModUnique
      <4> QED BY <4>3 DEF a, k
    <3> QED BY <3>2, <3>3, <3>4
  <2> QED BY <1>2, <2>2 DEF TypeOK, Tables, AllFlags, Indexes, Addresses
<1> QED BY <1>1, <1>2 DEF Maps

(* A mapping is a request of the abstract address space, or one refused.   *)
LEMMA MapsFlat ==
  ASSUME NEW virt, NEW phys, NEW size \in Nat, size <= Space, NEW f \in AllFlags,
         Maps(virt, phys, size, f)
  PROVE  Flat!Next
<1>0. Entries * Entries = Count /\ Space = Count * PageSize /\ Count * PageSize \in Nat
  BY PageConstants DEF Count
<1>1. Flat!Addresses = Addresses
  BY <1>0 DEF Flat!Addresses, Addresses
<1>2. CASE segment' = <<>> /\ directory' = directory
  <2>1. Flat!Refuse
    BY <1>2 DEF Flat!Refuse, Walk
  <2> QED BY <2>1 DEF Flat!Next
<1>3. CASE /\ segment' = <<virt, phys, size>> /\ virt \in Addresses /\ phys \in Addresses
           /\ directory' \in Tables
           /\ Mapped(directory, directory', virt \div PageSize,
                     (virt + size - 1) \div PageSize, phys \div PageSize, f)
  <2>1. size \in 0 .. (Count * PageSize)
    BY <1>0
  <2>2. segment' \in Flat!Requests
    BY <1>0, <1>1, <1>3, <2>1 DEF Flat!Requests
  <2>3. segment'[1] = virt /\ segment'[2] = phys /\ segment'[3] = size
    BY <1>3
  <2>4. \A y \in PageSet : Walk(y)' = IF y \in (virt \div PageSize) .. ((virt + size - 1) \div PageSize)
          THEN ((phys \div PageSize) + (y - (virt \div PageSize))) * PageSize + f ELSE Walk(y)
    BY <1>3 DEF Mapped, View, Walk
  <2>5. Flat!Map(f)
    BY <1>0, <2>2, <2>3, <2>4 DEF Flat!Map, PageSet, Walk
  <2> QED BY <2>5 DEF Flat!Next, AllFlags
<1> QED BY <1>2, <1>3 DEF Maps
-----------------------------------------------------------------------------
(* The headers of a file that the linker made have pages of their own.     *)
LEMMA LayoutFacts ==
  ASSUME NEW headers \in Layouts
  PROVE  /\ Len(headers) \in Nat /\ DOMAIN headers = 1 .. Len(headers)
         /\ \A i \in 1 .. Len(headers) : headers[i] \in Loads \cup {GnuStack}
         /\ \A i, j \in 1 .. Len(headers) : i # j => PagesOf(headers[i]) \cap PagesOf(headers[j]) = {}
<1>1. PICK n \in 0 .. MaxHeaders : headers \in [1 .. n -> Loads \cup {GnuStack}]
  BY DEF Layouts
<1>2. n \in Nat
  BY ElfAssumption
<1>3. headers \in Seq(Loads \cup {GnuStack}) /\ Len(headers) = n
  BY <1>1, <1>2
<1>4. DOMAIN headers = 1 .. Len(headers)
  BY <1>1, <1>3
<1>5. \A i, j \in DOMAIN headers : i # j => PagesOf(headers[i]) \cap PagesOf(headers[j]) = {}
  BY DEF Layouts
<1> QED BY <1>1, <1>2, <1>3, <1>4, <1>5

(* A header that is loaded or passed over can be mapped.                   *)
LEMMA HeaderFacts ==
  ASSUME NEW h \in Loads \cup {GnuStack}, NEW memory \in Heap
  PROVE  /\ Suitable(h.p_vaddr, elf_phdr_phys_address(memory, h), h.p_memsz)
         /\ h.p_vaddr \in Nat /\ h.p_memsz \in Nat /\ h.p_filesz \in Nat /\ h.p_offset \in Nat
         /\ h.p_memsz <= Space /\ h.p_vaddr + h.p_memsz <= ProgramEnd
         /\ Writable(h.p_write) \in AllFlags
         /\ PagesOf(h) = (h.p_vaddr \div PageSize) .. ((h.p_vaddr + h.p_memsz - 1) \div PageSize)
         /\ h.p_memsz > 0 => ProgramAddress <= h.p_vaddr
         /\ h.p_type = "PT_LOAD" => ProgramAddress <= h.p_vaddr
         /\ h.p_vaddr % PageSize = h.p_offset % PageSize
         /\ elf_phdr_phys_address(memory, h) = memory + h.p_offset
<1>0. /\ PageSize \in Nat \ {0} /\ Count \in Nat \ {0} /\ Space \in Nat \ {0}
  BY PageConstants
<1>1. /\ memory \in Nat /\ PageSize <= memory /\ memory % PageSize = 0 /\ ProgramEnd <= memory
      /\ ProgramAddress \in Nat /\ ProgramEnd \in Nat /\ ProgramEnd <= Space - PageSize
      /\ MaxSize \in Nat /\ MaxSize <= Space - 2 * PageSize
      /\ \A w \in BOOLEAN : Writable(w) \in AllFlags
  BY Places
<1>2. CASE h \in Loads
  <2>1. /\ h.p_vaddr \in Nat /\ ProgramAddress <= h.p_vaddr /\ h.p_offset \in Nat
        /\ h.p_memsz \in Nat /\ h.p_memsz > 0 /\ h.p_memsz <= MaxSize /\ h.p_filesz \in Nat
        /\ h.p_vaddr + h.p_memsz <= ProgramEnd /\ h.p_write \in BOOLEAN
        /\ h.p_vaddr % PageSize = h.p_offset % PageSize
    BY <1>1, <1>2, ElfAssumption DEF Loads
  <2>2. (memory + h.p_offset) % PageSize \in Int /\ (memory + h.p_offset) % PageSize < PageSize
    <3>1. memory + h.p_offset \in Int
      BY <1>1, <2>1
    <3> QED BY <1>0, <3>1, DivMod
  <2>3. Suitable(h.p_vaddr, memory + h.p_offset, h.p_memsz)
    <3>1. memory + h.p_offset \in Nat /\ h.p_vaddr <= memory + h.p_offset
          /\ PageSize <= memory + h.p_offset
      BY <1>0, <1>1, <2>1
    <3> DEFINE o == (memory + h.p_offset) % PageSize
    <3> HIDE DEF o
    <3>2. o + h.p_memsz <= Space - PageSize
      BY <1>0, <1>1, <2>1, <2>2 DEF o
    <3> QED BY <2>1, <3>1, <3>2 DEF Suitable, o
  <2>4. PagesOf(h) = (h.p_vaddr \div PageSize) .. ((h.p_vaddr + h.p_memsz - 1) \div PageSize)
    BY <2>1 DEF PagesOf
  <2>5. h.p_memsz <= Space
    BY <1>0, <1>1, <2>1
  <2> QED BY <1>1, <2>1, <2>3, <2>4, <2>5 DEF elf_phdr_phys_address
<1>3. CASE h = GnuStack
  <2>1. /\ h.p_vaddr = 0 /\ h.p_offset = 0 /\ h.p_memsz = 0 /\ h.p_filesz = 0
        /\ h.p_write = TRUE /\ h.p_type # "PT_LOAD"
    BY <1>3 DEF GnuStack
  <2>2. 0 \div PageSize = 0 /\ (0 + 0 - 1) \div PageSize = 0 - 1 /\ 0 % PageSize = 0
    <3>1. 0 = 0 * PageSize + 0 /\ 0 - 1 = (0 - 1) * PageSize + (PageSize - 1)
      BY <1>0
    <3>2. 0 \div PageSize = 0 /\ 0 % PageSize = 0
      BY <1>0, <3>1, DivUnique
    <3>3. (0 - 1) \div PageSize = 0 - 1
      <4>1. 0 - 1 \in Int /\ PageSize - 1 \in Int /\ 0 <= PageSize - 1 /\ PageSize - 1 < PageSize
        BY <1>0
      <4> DEFINE m == 0 - 1
                 r == PageSize - 1
      <4> HIDE DEF m, r
      <4>2. m \in Int /\ r \in Int /\ m = m * PageSize + r /\ 0 <= r /\ r < PageSize
        BY <3>1, <4>1 DEF m, r
      <4>3. m \div PageSize = m
        BY <1>0, <4>2, DivUnique
      <4> QED BY <4>3 DEF m
    <3> QED BY <3>2, <3>3
  <2>3. PagesOf(h) = (h.p_vaddr \div PageSize) .. ((h.p_vaddr + h.p_memsz - 1) \div PageSize)
    BY <2>1, <2>2 DEF PagesOf
  <2>4. memory + h.p_offset = memory
    BY <1>1, <2>1
  <2>5. PageSize <= Space - PageSize
    BY <1>0, <1>1, Places
  <2>6. Suitable(h.p_vaddr, memory + h.p_offset, h.p_memsz)
    BY <1>0, <1>1, <2>1, <2>4, <2>5 DEF Suitable
  <2>7. /\ h.p_memsz <= Space /\ h.p_vaddr + h.p_memsz <= ProgramEnd /\ ~(h.p_memsz > 0)
        /\ h.p_vaddr \in Nat /\ h.p_memsz \in Nat /\ h.p_filesz \in Nat /\ h.p_offset \in Nat
    BY <1>0, <1>1, <2>1
  <2>8. h.p_vaddr % PageSize = h.p_offset % PageSize /\ h.p_write \in BOOLEAN
    BY <2>1, Zenon
  <2> QED BY <1>1, <2>1, <2>3, <2>6, <2>7, <2>8 DEF elf_phdr_phys_address
<1> QED BY <1>2, <1>3

(* The bounds r are those of the loaded headers among J.                   *)
BoundsOf(r, headers, J) ==
  LET L == {j \in J : headers[j].p_type = "PT_LOAD"}
  IN  /\ L = {} => r.vbase = 0 /\ r.vend = 0
      /\ L # {} =>
           /\ \A j \in L : /\ r.vbase <= headers[j].p_vaddr
                           /\ headers[j].p_vaddr + headers[j].p_filesz <= r.vend
           /\ \E j \in L : /\ r.vbase = headers[j].p_vaddr
                           /\ r.pbase = r.memory + headers[j].p_offset
           /\ \E j \in L : /\ r.vend = headers[j].p_vaddr + headers[j].p_filesz
                           /\ r.pend = r.memory + headers[j].p_offset + headers[j].p_filesz

Files(headers, memory) ==
  [filetype : {"ELF"}, memory : {memory}, headers : {headers},
   vbase : Nat, pbase : Nat, vend : Nat, pend : Nat]

(* One header more.                                                        *)
LEMMA BoundsStep ==
  ASSUME NEW headers \in Layouts, NEW memory \in Heap, NEW r \in Files(headers, memory),
         NEW i \in 1 .. Len(headers), headers[i].p_type = "PT_LOAD"
  PROVE  /\ elf_process_phdr_pt_load(r, headers[i]) \in Files(headers, memory)
         /\ BoundsOf(r, headers, 1 .. (i - 1))
              => BoundsOf(elf_process_phdr_pt_load(r, headers[i]), headers, 1 .. i)
<1> DEFINE h == headers[i]
           lower == r.vbase >= h.p_vaddr \/ r.vbase = 0
           end == h.p_vaddr + h.p_filesz
           higher == r.vend <= end \/ r.vend = 0
           phys == memory + h.p_offset
           n == elf_process_phdr_pt_load(r, h)
<1>0. /\ h \in Loads \cup {GnuStack} /\ i \in Nat /\ memory \in Nat
      /\ \A j \in 1 .. i : headers[j] \in Loads \cup {GnuStack}
  BY LayoutFacts, Places
<1>1. /\ h.p_vaddr \in Nat /\ h.p_filesz \in Nat /\ h.p_offset \in Nat
      /\ h.p_type = "PT_LOAD" /\ h.p_vaddr > 0
      /\ elf_phdr_phys_address(memory, h) = phys
  <2>1. ProgramAddress \in Nat /\ ProgramAddress >= PageSize /\ PageSize \in Nat \ {0}
    BY Places, PageConstants
  <2>2. /\ h.p_vaddr \in Nat /\ h.p_filesz \in Nat /\ h.p_offset \in Nat
        /\ ProgramAddress <= h.p_vaddr /\ elf_phdr_phys_address(memory, h) = memory + h.p_offset
    BY <1>0, HeaderFacts
  <2> HIDE DEF h
  <2> QED BY <2>1, <2>2 DEF h
<1>2. /\ r.vbase \in Nat /\ r.pbase \in Nat /\ r.vend \in Nat /\ r.pend \in Nat
      /\ r.memory = memory /\ r.headers = headers /\ r.filetype = "ELF"
      /\ r = [filetype |-> r.filetype, memory |-> r.memory, headers |-> r.headers,
              vbase |-> r.vbase, pbase |-> r.pbase, vend |-> r.vend, pend |-> r.pend]
  BY DEF Files
<1>3. n = [filetype |-> "ELF", memory |-> memory, headers |-> headers,
           vbase |-> IF lower THEN h.p_vaddr ELSE r.vbase,
           pbase |-> IF lower THEN phys ELSE r.pbase,
           vend |-> IF higher THEN end ELSE r.vend,
           pend |-> IF higher THEN phys + h.p_filesz ELSE r.pend]
  <2>1. PICK a, b, c, d : /\ a = (IF lower THEN h.p_vaddr ELSE r.vbase)
                          /\ b = (IF lower THEN phys ELSE r.pbase)
                          /\ c = (IF higher THEN end ELSE r.vend)
                          /\ d = (IF higher THEN phys + h.p_filesz ELSE r.pend)
    OBVIOUS
  <2>2. elf_phdr_phys_address(r.memory, h) = phys
    BY <1>1, <1>2
  <2>3. n = [r EXCEPT !.vbase = a, !.pbase = b, !.vend = c, !.pend = d]
    BY <2>1, <2>2, Zenon DEF elf_process_phdr_pt_load
  <2> HIDE DEF n, lower, higher, end, phys, h
  <2>4. n = [filetype |-> "ELF", memory |-> memory, headers |-> headers,
             vbase |-> a, pbase |-> b, vend |-> c, pend |-> d]
    BY <1>2, <2>3
  <2> QED BY <2>1, <2>4
<1>4. /\ n.vbase = (IF lower THEN h.p_vaddr ELSE r.vbase)
      /\ n.pbase = (IF lower THEN phys ELSE r.pbase)
      /\ n.vend = (IF higher THEN end ELSE r.vend)
      /\ n.pend = (IF higher THEN phys + h.p_filesz ELSE r.pend)
      /\ n.memory = memory
  BY <1>3
<1> HIDE DEF n
<1>5. end \in Nat /\ end > 0 /\ phys \in Nat /\ phys + h.p_filesz \in Nat
  BY <1>0, <1>1, SMTT(30)
<1>6. n \in Files(headers, memory)
  BY <1>1, <1>2, <1>3, <1>5 DEF Files
<1> DEFINE K == {j \in 1 .. (i - 1) : headers[j].p_type = "PT_LOAD"}
           L == {j \in 1 .. i : headers[j].p_type = "PT_LOAD"}
<1>7. L = K \cup {i} /\ L # {} /\ i \notin K
  BY <1>0, <1>1
<1>8. ASSUME NEW j \in K
      PROVE  headers[j].p_vaddr \in Nat /\ headers[j].p_filesz \in Nat /\ headers[j].p_offset \in Nat
             /\ headers[j].p_vaddr > 0
  <2>1. headers[j] \in Loads \cup {GnuStack} /\ headers[j].p_type = "PT_LOAD"
    BY <1>0
  <2>2. ProgramAddress \in Nat /\ ProgramAddress >= PageSize /\ PageSize \in Nat \ {0}
    BY Places, PageConstants
  <2>3. /\ headers[j].p_vaddr \in Nat /\ headers[j].p_filesz \in Nat /\ headers[j].p_offset \in Nat
        /\ ProgramAddress <= headers[j].p_vaddr
    BY <2>1, HeaderFacts
  <2> QED BY <2>2, <2>3
<1> HIDE DEF K, L, h
<1>9. ASSUME BoundsOf(r, headers, 1 .. (i - 1))
      PROVE  BoundsOf(n, headers, 1 .. i)
  <2>1. /\ K = {} => r.vbase = 0 /\ r.vend = 0
        /\ K # {} =>
             /\ \A j \in K : /\ r.vbase <= headers[j].p_vaddr
                             /\ headers[j].p_vaddr + headers[j].p_filesz <= r.vend
             /\ \E j \in K : /\ r.vbase = headers[j].p_vaddr
                             /\ r.pbase = memory + headers[j].p_offset
             /\ \E j \in K : /\ r.vend = headers[j].p_vaddr + headers[j].p_filesz
                             /\ r.pend = memory + headers[j].p_offset + headers[j].p_filesz
    BY <1>2, <1>9 DEF BoundsOf, K
  <2>2. K # {} => r.vbase > 0 /\ r.vend > 0
    BY <1>2, <1>8, <2>1
  <2>3. \A j \in L : n.vbase <= headers[j].p_vaddr
    <3>1. n.vbase <= h.p_vaddr
      BY <1>1, <1>2, <1>4
    <3>2. ASSUME NEW j \in K PROVE n.vbase <= headers[j].p_vaddr
      BY <1>1, <1>2, <1>4, <1>8, <2>1, <2>2, SMTT(30)
    <3> QED BY <1>7, <3>1, <3>2 DEF h
  <2>4. \A j \in L : headers[j].p_vaddr + headers[j].p_filesz <= n.vend
    <3>1. h.p_vaddr + h.p_filesz <= n.vend
      BY <1>1, <1>2, <1>4, <1>5
    <3>2. ASSUME NEW j \in K PROVE headers[j].p_vaddr + headers[j].p_filesz <= n.vend
      <4>1. headers[j].p_vaddr + headers[j].p_filesz <= r.vend /\ r.vend > 0
            /\ headers[j].p_vaddr + headers[j].p_filesz \in Nat
        BY <1>8, <2>1, <2>2, SMTT(30)
      <4>2. CASE higher
        <5>1. r.vend <= end /\ n.vend = end
          BY <1>2, <1>4, <4>1, <4>2
        <5> HIDE DEF end
        <5> QED BY <1>2, <1>5, <4>1, <5>1
      <4>3. CASE ~higher
        BY <1>4, <4>1, <4>3
      <4> QED BY <4>2, <4>3
    <3> QED BY <1>7, <3>1, <3>2 DEF h
  <2>5. \E j \in L : n.vbase = headers[j].p_vaddr /\ n.pbase = memory + headers[j].p_offset
    <3>1. CASE lower
      BY <1>4, <1>7, <3>1 DEF h
    <3>2. CASE ~lower
      <4>1. K # {}
        BY <2>1, <3>2
      <4> QED BY <1>4, <1>7, <2>1, <3>2, <4>1
    <3> QED BY <3>1, <3>2
  <2>6. \E j \in L : n.vend = headers[j].p_vaddr + headers[j].p_filesz
                     /\ n.pend = memory + headers[j].p_offset + headers[j].p_filesz
    <3>1. CASE higher
      BY <1>4, <1>7, <3>1 DEF h
    <3>2. CASE ~higher
      <4>1. K # {}
        BY <2>1, <3>2
      <4> QED BY <1>4, <1>7, <2>1, <3>2, <4>1
    <3> QED BY <3>1, <3>2
  <2> QED BY <1>4, <1>7, <2>3, <2>4, <2>5, <2>6 DEF BoundsOf, L
<1> QED BY <1>6, <1>9 DEF n, h
(* The bounds elf_process_pheaders finds.                                  *)
LEMMA LoadedBounds ==
  ASSUME NEW headers \in Layouts, NEW memory \in Heap
  PROVE  LET r == elf_process_pheaders(
                    [filetype |-> "ELF", memory |-> memory, headers |-> headers,
                     vbase |-> 0, pbase |-> 0, vend |-> 0, pend |-> 0])
         IN  r \in Files(headers, memory) /\ BoundsOf(r, headers, 1 .. Len(headers))
<1> DEFINE f == [filetype |-> "ELF", memory |-> memory, headers |-> headers,
                 vbase |-> 0, pbase |-> 0, vend |-> 0, pend |-> 0]
           n == Len(headers)
           S == Files(headers, memory)
           next(i, X) == IF headers[i].p_type = "PT_LOAD"
                           THEN elf_process_phdr_pt_load(X, headers[i]) ELSE X
           step == [i \in Nat |-> [X \in S |-> IF i \in 1 .. n THEN next(i, X) ELSE X]]
           Is(g) == g = [i \in 0 .. n |-> IF i = 0 THEN f
                           ELSE IF headers[i].p_type = "PT_LOAD"
                                  THEN elf_process_phdr_pt_load(g[i - 1], headers[i])
                                  ELSE g[i - 1]]
           after == CHOOSE g : Is(g)
<1>0. n \in Nat /\ f \in S /\ f.headers = headers
  BY LayoutFacts DEF Files
<1>1. elf_process_pheaders(f) = after[n]
  BY <1>0 DEF elf_process_pheaders
<1> HIDE DEF S, n
<1>2. ASSUME NEW i \in 1 .. n, NEW X \in S PROVE next(i, X) \in S
  BY <1>2, BoundsStep DEF S, n
<1>3. step \in [Nat -> [S -> S]]
  <2> HIDE DEF next
  <2> QED BY <1>2
<1> HIDE DEF f
<1>4. PICK g : Iterates(g, S, f, step, n)
  <2> HIDE DEF step
  <2> QED BY <1>0, <1>3, Recursion
<1>5. /\ g \in [0 .. n -> S] /\ g[0] = f
      /\ \A i \in 1 .. n : g[i] = next(i, g[i - 1])
  <2> HIDE DEF next
  <2>1. /\ g \in [0 .. n -> S] /\ g[0] = f
        /\ \A i \in 1 .. n : g[i] = step[i][g[i - 1]]
    BY <1>4 DEF Iterates
  <2>2. ASSUME NEW i \in 1 .. n PROVE i \in Nat /\ g[i - 1] \in S
    BY <1>0, <2>1
  <2> QED BY <2>1, <2>2
<1>6. Is(g)
  <2> SUFFICES ASSUME NEW i \in 0 .. n PROVE g[i] = IF i = 0 THEN f ELSE next(i, g[i - 1])
    BY <1>5
  <2>1. i # 0 => i \in 1 .. n
    BY <1>0
  <2> HIDE DEF next
  <2> QED BY <1>5, <2>1
<1>7. Is(after)
  <2> HIDE DEF Is
  <2> QED BY <1>6
<1> HIDE DEF after
<1>8. after[0] = f /\ \A i \in 1 .. n : after[i] = next(i, after[i - 1])
  <2>1. 0 \in 0 .. n /\ \A i \in 1 .. n : i \in 0 .. n /\ i # 0
    BY <1>0
  <2> QED BY <1>7, <2>1
<1> HIDE DEF Is
<1> DEFINE Good(i) == after[i] \in S /\ BoundsOf(after[i], headers, 1 .. i)
           T == {i \in 0 .. n : ~Good(i)}
<1>9. Good(0)
  <2>1. {j \in 1 .. 0 : headers[j].p_type = "PT_LOAD"} = {}
    OBVIOUS
  <2>2. BoundsOf(f, headers, 1 .. 0)
    BY <2>1 DEF BoundsOf, f
  <2> QED BY <1>0, <1>8, <2>2
<1>10. ASSUME NEW i \in 1 .. n, Good(i - 1) PROVE Good(i)
  <2>1. CASE headers[i].p_type = "PT_LOAD"
    <3>1. after[i] = elf_process_phdr_pt_load(after[i - 1], headers[i])
      BY <1>8, <2>1
    <3> QED BY <1>10, <2>1, <3>1, BoundsStep DEF S, n
  <2>2. CASE headers[i].p_type # "PT_LOAD"
    <3>1. after[i] = after[i - 1]
      BY <1>8, <2>2
    <3>2. {j \in 1 .. i : headers[j].p_type = "PT_LOAD"}
            = {j \in 1 .. (i - 1) : headers[j].p_type = "PT_LOAD"}
      BY <1>0, <2>2
    <3>3. BoundsOf(after[i], headers, 1 .. i)
      BY <1>10, <3>1, <3>2, Zenon DEF BoundsOf
    <3> QED BY <1>10, <3>1, <3>3
  <2> QED BY <2>1, <2>2
<1> HIDE DEF Good, next
<1>11. Good(n)
  <2> SUFFICES ASSUME T # {} PROVE FALSE
    BY <1>0
  <2>1. T \subseteq Nat
    BY <1>0
  <2>2. PICK m \in T : \A y \in T : m <= y
    <3> HIDE DEF T
    <3> QED BY <2>1, NatMinimum
  <2>3. m \in 1 .. n /\ m - 1 \in 0 .. n /\ ~(m <= m - 1)
    BY <1>0, <1>9
  <2> QED BY <1>10, <2>2, <2>3
<1> QED BY <1>1, <1>11 DEF Good, S, n, f

-----------------------------------------------------------------------------
(* The inductive invariant: the types, and what is known of the file.      *)
ElfKnown ==
  /\ elf.filetype = "ELF" /\ elf.headers \in Layouts /\ elf.memory \in Heap
  /\ mapped \in 0 .. Len(elf.headers)
  /\ BoundsOf(elf, elf.headers, 1 .. Len(elf.headers))

BinaryKnown ==
  /\ elf.filetype = "BINARY" /\ elf.memory \in Heap /\ elf.size \in 1 .. MaxSize
  /\ mapped \in 0 .. 1

LoaderInv ==
  /\ TypeOK
  /\ state \in {"empty", "loaded", "running", "refused"}
  /\ state = "empty" => elf = <<>> /\ mapped = 0
  /\ state # "empty" => ElfKnown \/ BinaryKnown

(* A step that maps, as the following proofs use it.                       *)
Request(virt, phys, size, f) ==
  Suitable(virt, phys, size) /\ size <= Space /\ f \in AllFlags /\ Maps(virt, phys, size, f)

(* The file is read: nothing is mapped yet.                                *)
LEMMA LoadStep ==
  ASSUME LoaderInv, state = "empty", NEW header, NEW memory \in Heap,
         \/ \E headers \in Layouts : process_load_elf(header, headers, memory)
         \/ \E size \in 1 .. MaxSize : process_load_binary(header, memory, size)
  PROVE  /\ LoaderInv' /\ UNCHANGED vars
         /\ mapped' = 0 /\ state' = "loaded"
<1>1. TypeOK /\ mapped = 0
  BY DEF LoaderInv
<1>2. ASSUME UNCHANGED vars PROVE TypeOK'
  BY <1>1, <1>2 DEF vars, TypeOK, Indexes, Addresses
<1>3. ASSUME NEW headers \in Layouts, process_load_elf(header, headers, memory)
      PROVE  UNCHANGED vars /\ mapped' = 0 /\ state' = "loaded" /\ ElfKnown'
  <2>1. /\ UNCHANGED vars /\ mapped' = 0 /\ state' = "loaded"
        /\ elf' = elf_process_pheaders(
                    [filetype |-> "ELF", memory |-> memory, headers |-> headers,
                     vbase |-> 0, pbase |-> 0, vend |-> 0, pend |-> 0])
    BY <1>1, <1>3 DEF process_load_elf
  <2>2. elf' \in Files(headers, memory) /\ BoundsOf(elf', headers, 1 .. Len(headers))
    BY <2>1, LoadedBounds
  <2>3. elf'.filetype = "ELF" /\ elf'.headers = headers /\ elf'.memory = memory
    BY <2>2 DEF Files
  <2>4. mapped' \in 0 .. Len(headers)
    BY <2>1, LayoutFacts
  <2>5. BoundsOf(elf', elf'.headers, 1 .. Len(elf'.headers))
    BY <2>2, <2>3
  <2> QED BY <2>1, <2>3, <2>4, <2>5 DEF ElfKnown, Layouts, Loads, GnuStack, PagesOf, BoundsOf
<1>4. ASSUME NEW size \in 1 .. MaxSize, process_load_binary(header, memory, size)
      PROVE  UNCHANGED vars /\ mapped' = 0 /\ state' = "loaded" /\ BinaryKnown'
  BY <1>1, <1>4 DEF process_load_binary, BinaryKnown
<1> QED BY <1>2, <1>3, <1>4 DEF LoaderInv

(* A step that maps and keeps the file keeps the invariant.                *)
LEMMA MapKeeps ==
  ASSUME LoaderInv, state # "empty", NEW virt, NEW phys, NEW size, NEW f,
         Request(virt, phys, size, f), elf' = elf,
         state' \in {"loaded", "running", "refused"},
         ElfKnown => mapped' \in 0 .. Len(elf.headers),
         BinaryKnown => mapped' \in 0 .. 1
  PROVE  LoaderInv'
<1>1. TypeOK'
  BY MapsType DEF LoaderInv, Request, Suitable
<1>2. ElfKnown' \/ BinaryKnown'
  <2>1. CASE ElfKnown
    BY <2>1 DEF ElfKnown, Layouts, Loads, GnuStack, PagesOf, BoundsOf
  <2>2. CASE BinaryKnown
    BY <2>2 DEF BinaryKnown
  <2> QED BY <2>1, <2>2 DEF LoaderInv
<1> QED BY <1>1, <1>2 DEF LoaderInv

(* A turn of the loop over the headers.                                    *)
LEMMA ElfStep ==
  ASSUME LoaderInv, process_map_elf
  PROVE  /\ LoaderInv' /\ ElfKnown /\ mapped + 1 \in 1 .. Len(elf.headers) /\ mapped' = mapped + 1
         /\ Request(elf.headers[mapped + 1].p_vaddr,
                    elf.memory + elf.headers[mapped + 1].p_offset,
                    elf.headers[mapped + 1].p_memsz,
                    Writable(elf.headers[mapped + 1].p_write))
<1> DEFINE h == elf.headers[mapped + 1]
           phys == elf.memory + h.p_offset
<1>1. /\ state = "loaded" /\ elf.filetype = "ELF" /\ mapped < Len(elf.headers)
      /\ process_map(h.p_vaddr, elf_phdr_phys_address(elf.memory, h), h.p_memsz, Writable(h.p_write))
      /\ mapped' = mapped + 1 /\ elf' = elf
      /\ state' \in {state, "refused"}
  BY DEF process_map_elf
<1>2. ElfKnown /\ TypeOK
  BY <1>1 DEF LoaderInv, BinaryKnown
<1>3. /\ elf.headers \in Layouts /\ elf.memory \in Heap /\ mapped \in 0 .. Len(elf.headers)
      /\ Len(elf.headers) \in Nat
  BY <1>2, LayoutFacts DEF ElfKnown
<1>4. mapped + 1 \in 1 .. Len(elf.headers)
  BY <1>1, <1>3
<1>5. h \in Loads \cup {GnuStack}
  BY <1>3, <1>4, LayoutFacts
<1> HIDE DEF h
<1>6. /\ Suitable(h.p_vaddr, phys, h.p_memsz) /\ h.p_memsz <= Space
      /\ Writable(h.p_write) \in AllFlags /\ elf_phdr_phys_address(elf.memory, h) = phys
  BY <1>3, <1>5, HeaderFacts
<1>7. Request(h.p_vaddr, phys, h.p_memsz, Writable(h.p_write))
  BY <1>1, <1>2, <1>6, MapsStep DEF Request
<1>8. mapped' \in 0 .. Len(elf.headers)
  BY <1>1, <1>3, <1>4
<1>9. BinaryKnown => mapped' \in 0 .. 1
  BY <1>1 DEF BinaryKnown
<1>10. LoaderInv'
  BY <1>1, <1>7, <1>8, <1>9, MapKeeps
<1> QED BY <1>1, <1>2, <1>4, <1>7, <1>10 DEF h

(* The raw binary is mapped as one piece.                                  *)
LEMMA BinaryStep ==
  ASSUME LoaderInv, process_map_binary
  PROVE  /\ LoaderInv' /\ BinaryKnown /\ mapped' = 1
         /\ Request(ProgramAddress, elf.memory, elf.size, Writable(TRUE))
<1>1. /\ state = "loaded" /\ elf.filetype = "BINARY"
      /\ process_map(ProgramAddress, elf.memory, elf.size, Writable(TRUE))
      /\ mapped' = 1 /\ elf' = elf /\ state' \in {state, "refused"}
  BY DEF process_map_binary
<1>2. BinaryKnown /\ TypeOK
  BY <1>1 DEF LoaderInv, ElfKnown
<1>3. /\ Suitable(ProgramAddress, elf.memory, elf.size) /\ elf.size <= Space
      /\ Writable(TRUE) \in AllFlags
  <2>1. elf.memory \in Heap /\ elf.size \in 1 .. MaxSize
    BY <1>2 DEF BinaryKnown
  <2>2. /\ elf.memory \in Nat /\ PageSize <= elf.memory /\ elf.memory % PageSize = 0
        /\ ProgramEnd <= elf.memory /\ ProgramAddress \in Nat /\ ProgramEnd \in Nat
        /\ ProgramAddress <= ProgramEnd
        /\ MaxSize \in Nat /\ MaxSize <= Space - 2 * PageSize /\ Writable(TRUE) \in AllFlags
    BY <2>1, Places
  <2>3. PageSize \in Nat \ {0} /\ Space \in Nat \ {0}
    BY PageConstants
  <2>4. elf.size \in Nat /\ 0 + elf.size <= Space - PageSize /\ ProgramAddress <= elf.memory
        /\ elf.size <= Space
    BY <2>1, <2>2, <2>3
  <2> QED BY <2>2, <2>4 DEF Suitable
<1>4. Request(ProgramAddress, elf.memory, elf.size, Writable(TRUE))
  BY <1>1, <1>2, <1>3, MapsStep DEF Request
<1>5. (ElfKnown => mapped' \in 0 .. Len(elf.headers)) /\ mapped' \in 0 .. 1
  BY <1>1 DEF ElfKnown
<1>6. state # "empty" /\ state' \in {"loaded", "running", "refused"}
  BY <1>1
<1>7. LoaderInv'
  BY <1>1, <1>4, <1>5, <1>6, MapKeeps
<1> QED BY <1>1, <1>2, <1>4, <1>7

(* The stack.                                                              *)
LEMMA StackStep ==
  ASSUME LoaderInv, NEW stack \in Heap, process_map_memory(stack)
  PROVE  /\ LoaderInv' /\ Request(StackAddress, stack, StackSize, Writable(TRUE))
         /\ state' = "running" /\ state = "loaded" /\ elf' = elf /\ mapped' = mapped
         /\ mapped = IF elf.filetype = "ELF" THEN Len(elf.headers) ELSE 1
<1>1. /\ state = "loaded" /\ state' = "running" /\ elf' = elf /\ mapped' = mapped
      /\ mapped = IF elf.filetype = "ELF" THEN Len(elf.headers) ELSE 1
      /\ process_map(StackAddress, stack, StackSize, Writable(TRUE))
  BY DEF process_map_memory
<1>2. Suitable(StackAddress, stack, StackSize) /\ StackSize <= Space /\ Writable(TRUE) \in AllFlags
  <2>1. /\ stack \in Nat /\ PageSize <= stack /\ stack % PageSize = 0 /\ ProgramEnd <= stack
        /\ ProgramAddress \in Nat /\ ProgramEnd \in Nat /\ ProgramAddress <= ProgramEnd
        /\ StackAddress \in Nat /\ StackSize \in Nat /\ StackAddress + StackSize <= ProgramAddress
        /\ StackSize <= Space - PageSize /\ Writable(TRUE) \in AllFlags
    BY Places
  <2>2. PageSize \in Nat \ {0} /\ Space \in Nat \ {0}
    BY PageConstants
  <2>3. 0 + StackSize <= Space - PageSize /\ StackAddress <= stack /\ StackSize <= Space
    BY <2>1, <2>2
  <2> QED BY <2>1, <2>3 DEF Suitable
<1>3. Request(StackAddress, stack, StackSize, Writable(TRUE))
  BY <1>1, <1>2, MapsStep DEF Request, LoaderInv
<1>4. LoaderInv'
  BY <1>1, <1>3, MapKeeps DEF ElfKnown, BinaryKnown
<1> QED BY <1>1, <1>3, <1>4

(* A piece of the heap, for process_malloc and process_free.               *)
LEMMA RemapStep ==
  ASSUME LoaderInv, NEW ptr \in Heap, NEW size \in 1 .. MaxSize, NEW f \in {0, Writable(TRUE)},
         process_remap(ptr, size, f)
  PROVE  /\ LoaderInv' /\ Request(ptr, ptr, size, f)
         /\ state = "running" /\ UNCHANGED <<elf, mapped, state>>
<1>1. /\ state = "running" /\ UNCHANGED <<elf, mapped, state>>
      /\ process_map(ptr, ptr, size, f)
  BY DEF process_remap
<1>2. Suitable(ptr, ptr, size) /\ size <= Space /\ f \in AllFlags
  <2>1. /\ ptr \in Nat /\ PageSize <= ptr /\ ptr % PageSize = 0
        /\ MaxSize \in Nat /\ MaxSize <= Space - 2 * PageSize /\ f \in AllFlags
    BY Places
  <2>2. PageSize \in Nat \ {0} /\ Space \in Nat \ {0}
    BY PageConstants
  <2>3. size \in Nat /\ 0 + size <= Space - PageSize /\ size <= Space
    BY <2>1, <2>2
  <2> QED BY <2>1, <2>3 DEF Suitable
<1>3. Request(ptr, ptr, size, f)
  BY <1>1, <1>2, MapsStep DEF Request, LoaderInv
<1>4. LoaderInv'
  BY <1>1, <1>3, MapKeeps DEF ElfKnown, BinaryKnown
<1> QED BY <1>1, <1>3, <1>4

(* A step that leaves everything but the count of calls.                   *)
LEMMA IdleStep ==
  ASSUME LoaderInv, UNCHANGED <<vars, elf, mapped, state>>
  PROVE  LoaderInv'
<1>1. TypeOK'
  BY DEF LoaderInv, vars, TypeOK, Indexes, Addresses
<1>2. /\ ElfKnown => ElfKnown'
      /\ BinaryKnown => BinaryKnown'
  BY DEF ElfKnown, BinaryKnown, Layouts, Loads, GnuStack, PagesOf, BoundsOf
<1> QED BY <1>1, <1>2 DEF LoaderInv

(* A system call borrows a page.                                           *)
LEMMA LentStep ==
  ASSUME LoaderInv, NEW tmp \in Heap, Borrow(tmp)
  PROVE  LoaderInv' /\ UNCHANGED <<vars, elf, mapped, state>>
<1>1. copy_string_from_task(tmp, Writable(TRUE)) /\ UNCHANGED <<elf, mapped, state>>
  BY DEF Borrow
<1>2. directory \in Tables /\ tmp \in Addresses /\ Writable(TRUE) \in 0 .. (PageSize - 1)
  BY Places DEF LoaderInv, TypeOK, Tables
<1>3. directory' = directory /\ segment' = segment
  BY <1>1, <1>2, BorrowStep
<1> QED BY <1>1, <1>3, IdleStep DEF vars

(* Every step of the loader: the file is read, a piece is mapped, or the   *)
(* pages stay.                                                             *)
LEMMA LoaderStep ==
  ASSUME LoaderInv, [ENext]_evars
  PROVE  /\ LoaderInv'
         /\ \/ UNCHANGED vars
            \/ \E virt, phys, size, f : Request(virt, phys, size, f)
<1>1. CASE /\ state = "empty"
           /\ \E header \in Headers, memory \in Heap :
                \/ \E headers \in Layouts : process_load_elf(header, headers, memory)
                \/ \E size \in 1 .. MaxSize : process_load_binary(header, memory, size)
  BY <1>1, LoadStep
<1>2. CASE process_map_elf
  BY <1>2, ElfStep
<1>3. CASE process_map_binary
  BY <1>3, BinaryStep
<1>4. CASE \E stack \in Heap : process_map_memory(stack)
  BY <1>4, StackStep
<1>5. CASE \E ptr \in Heap, size \in 1 .. MaxSize, f \in {0, Writable(TRUE)} : process_remap(ptr, size, f)
  BY <1>5, RemapStep
<1>6. CASE \E tmp \in Heap : Borrow(tmp)
  BY <1>6, LentStep
<1>7. CASE UNCHANGED evars
  BY <1>7, IdleStep DEF evars
<1> QED BY <1>1, <1>2, <1>3, <1>4, <1>5, <1>6, <1>7 DEF ENext

(* A new directory maps every page to itself.                              *)
LEMMA LoaderInit ==
  ASSUME EInit
  PROVE  LoaderInv /\ Flat!Init
<1>0. /\ PageSize \in Nat \ {0} /\ Entries \in Nat \ {0} /\ Count \in Nat \ {0}
      /\ Entries * Entries = Count
  BY PageConstants DEF Count
<1>1. ASSUME NEW i \in Indexes, NEW j \in Indexes
      PROVE  directory[i][j] = (i * Entries + j) * PageSize + NewFlags
  <2>1. directory[i][j] = i * (Entries * PageSize) + j * PageSize + NewFlags
    BY DEF EInit, Init
  <2>2. i \in Int /\ j \in Int /\ i * (Entries * PageSize) + j * PageSize = (i * Entries + j) * PageSize
    BY <1>0 DEF Indexes
  <2> QED BY <2>1, <2>2
<1>2. NewFlags \in 0 .. (PageSize - 1) /\ NewFlags \in AllFlags
  BY PagingAssumption DEF AllFlags
<1>3. ASSUME NEW i \in Indexes, NEW j \in Indexes
      PROVE  directory[i][j] \in Addresses /\ directory[i][j] % PageSize = NewFlags
  <2> DEFINE x == i * Entries + j
             a == x * PageSize + NewFlags
  <2>1. x \in PageSet
    BY EntryPage
  <2> HIDE DEF x
  <2>2. a \in Addresses /\ x \in Int /\ a \in Int
    <3>1. a \in Addresses
      BY <1>2, <2>1, PageAddress
    <3>2. x \in Int
      BY <1>0, <2>1 DEF PageSet
    <3>3. a \in Int
      <4> HIDE DEF a
      <4> QED BY <3>1 DEF Addresses
    <3> QED BY <3>1, <3>2, <3>3
  <2>3. a % PageSize = NewFlags
    <3> HIDE DEF a
    <3>1. a = x * PageSize + NewFlags /\ NewFlags \in Int /\ 0 <= NewFlags /\ NewFlags < PageSize
      BY <1>0, <1>2 DEF a
    <3> QED BY <1>0, <2>2, <3>1, ModUnique
  <2> QED BY <1>1, <2>2, <2>3 DEF x
<1>4. TypeOK
  <2>1. directory \in [Indexes -> [Indexes -> Addresses]]
    <3>1. directory = [i \in Indexes |-> [j \in Indexes |->
                         i * (Entries * PageSize) + j * PageSize + NewFlags]]
      BY DEF EInit, Init
    <3>2. \A i \in Indexes : directory[i] = [j \in Indexes |-> directory[i][j]]
      BY <3>1
    <3>3. directory = [i \in Indexes |-> directory[i]]
      BY <3>1
    <3>4. \A i \in Indexes : directory[i] \in [Indexes -> Addresses]
      BY <1>3, <3>2
    <3> QED BY <3>3, <3>4
  <2> QED BY <1>2, <1>3, <2>1 DEF TypeOK, AllFlags
<1>5. LoaderInv
  BY <1>4 DEF EInit, LoaderInv
<1>6. ASSUME NEW x \in PageSet PROVE Walk(x) = x * PageSize + NewFlags
  <2> DEFINE i == x \div Entries
             j == x % Entries
  <2>1. i \in Indexes /\ j \in Indexes /\ x = i * Entries + j
    BY PageAddress
  <2> HIDE DEF i, j
  <2>2. directory[i][j] = x * PageSize + NewFlags
    BY <1>1, <2>1
  <2> QED BY <2>2 DEF Walk, i, j
<1>7. Flat!Init
  BY <1>0, <1>6 DEF Flat!Init, EInit, Init, PageSet
<1> QED BY <1>5, <1>7

(* Pages, state and file stay what they should be, for every size of pages *)
(* and tables, every list of headers and every sequence of calls.          *)
THEOREM LoaderInvariant == ESpec => []LoaderInv
<1>1. EInit => LoaderInv
  BY LoaderInit
<1>2. LoaderInv /\ [ENext]_evars => LoaderInv'
  BY LoaderStep
<1> QED BY <1>1, <1>2, PTL DEF ESpec

(* Every entry of every table is a frame with flags that a mapping gave,   *)
(* and no header beyond the last one is mapped.                            *)
THEOREM LoaderTypeCorrect == ESpec => []ETypeOK
<1>1. LoaderInv => ETypeOK
  BY DEF LoaderInv, ETypeOK, ElfKnown, BinaryKnown
<1> QED BY <1>1, LoaderInvariant, PTL

(* The two-level tables implement the flat address space: whatever the     *)
(* loader and the running process map, across tables and at the end of the *)
(* space, replaces exactly the pages asked for.                            *)
THEOREM PagingImplementsAddressSpace == ESpec => ImplementsAddressSpace
<1>1. EInit => Flat!Init
  BY LoaderInit
<1>2. LoaderInv /\ [ENext]_evars
        => [Flat!Next]_<<[x \in 0 .. (Entries * Entries - 1) |-> Walk(x)], segment>>
  <2> SUFFICES ASSUME LoaderInv, [ENext]_evars
               PROVE  [Flat!Next]_<<[x \in 0 .. (Entries * Entries - 1) |-> Walk(x)], segment>>
    OBVIOUS
  <2>1. CASE UNCHANGED vars
    BY <2>1 DEF vars, Walk
  <2>2. ASSUME NEW virt, NEW phys, NEW size, NEW f, Request(virt, phys, size, f)
        PROVE  Flat!Next
    BY <2>2, MapsFlat DEF Request, Suitable
  <2> QED BY <2>1, <2>2, LoaderStep
<1> QED BY <1>1, <1>2, LoaderInvariant, PTL DEF ESpec, ImplementsAddressSpace, Flat!Spec

(* The bounds that elf_load works out are those of the PT_LOAD headers,    *)
(* for any number of headers in any order.                                 *)
THEOREM LoaderBounds == ESpec => []LoadBounds
<1>1. LoaderInv => LoadBounds
  <2> SUFFICES ASSUME LoaderInv, elf # <<>>, elf.filetype = "ELF" PROVE LoadBounds
    BY DEF LoadBounds
  <2>1. ElfKnown
    BY DEF LoaderInv, BinaryKnown
  <2>2. DOMAIN elf.headers = 1 .. Len(elf.headers)
    BY <2>1, LayoutFacts DEF ElfKnown
  <2>3. BoundsOf(elf, elf.headers, DOMAIN elf.headers)
    BY <2>1, <2>2 DEF ElfKnown
  <2> DEFINE L == {j \in DOMAIN elf.headers : elf.headers[j].p_type = "PT_LOAD"}
             loads == {elf.headers[i] : i \in L}
  <2>4. loads # {} =>
          /\ \A h \in loads : elf.vbase <= h.p_vaddr /\ h.p_vaddr + h.p_filesz <= elf.vend
          /\ \E h \in loads : elf.vbase = h.p_vaddr /\ elf.pbase = elf.memory + h.p_offset
          /\ \E h \in loads : /\ elf.vend = h.p_vaddr + h.p_filesz
                              /\ elf.pend = elf.memory + h.p_offset + h.p_filesz
    BY <2>3, Zenon DEF BoundsOf
  <2> QED BY <2>4 DEF LoadBounds
<1> QED BY <1>1, LoaderInvariant, PTL

-----------------------------------------------------------------------------
(* The image of the program in the pages.                                  *)

(* The pages of size bytes at virt.                                        *)
Covered(virt, size) == (virt \div PageSize) .. ((virt + size - 1) \div PageSize)

(* They lead to the bytes at phys, with flags f.                           *)
Placed(D, virt, phys, size, f) ==
  \A x \in PageSet \cap Covered(virt, size) :
    View(D, x) = ((phys \div PageSize) + (x - (virt \div PageSize))) * PageSize + f

(* A larger address is not in an earlier page.                             *)
LEMMA DivOrder ==
  ASSUME NEW w \in Nat \ {0}, NEW a \in Int, NEW b \in Int
  PROVE  /\ a <= b => a \div w <= b \div w
         /\ a < b /\ b % w = 0 => a \div w < b \div w
<1> DEFINE p == a \div w
           m == a % w
           q == b \div w
           n == b % w
<1>1. p \in Int /\ m \in Int /\ a = p * w + m /\ 0 <= m /\ m < w
  BY DivMod
<1>2. q \in Int /\ n \in Int /\ b = q * w + n /\ 0 <= n /\ n < w
  BY DivMod
<1> HIDE DEF p, m, q, n
<1>3. p * w \in Int /\ q * w \in Int /\ (q + 1) * w = q * w + w
  BY <1>1, <1>2
<1>4. ASSUME a <= b PROVE p <= q
  <2>1. p * w < (q + 1) * w
    BY <1>1, <1>2, <1>3, <1>4
  <2>2. p < q + 1
    BY <1>1, <1>2, <2>1, MultipleOrder
  <2> QED BY <1>1, <1>2, <2>2
<1>5. ASSUME a < b, n = 0 PROVE p < q
  <2>1. p * w < q * w
    BY <1>1, <1>2, <1>3, <1>5
  <2> QED BY <1>1, <1>2, <2>1, MultipleOrder
<1> QED BY <1>4, <1>5 DEF p, q, n

(* What ends before the start of a page shares no page with what starts    *)
(* there or later.                                                         *)
LEMMA Apart ==
  ASSUME NEW v \in Nat, NEW sz \in Nat, NEW m \in Nat, NEW virt \in Nat, NEW size \in Nat,
         v + sz <= m, m <= virt, m % PageSize = 0
  PROVE  Covered(v, sz) \cap Covered(virt, size) = {}
<1> DEFINE first == v \div PageSize
           last == (v + sz - 1) \div PageSize
           border == m \div PageSize
           from == virt \div PageSize
           upto == (virt + size - 1) \div PageSize
<1>0. PageSize \in Nat \ {0}
  BY PageConstants
<1>1. v + sz - 1 \in Int /\ v + sz - 1 < m /\ m \in Int /\ virt \in Int /\ virt + size - 1 \in Int
  OBVIOUS
<1>2. first \in Int /\ last \in Int /\ border \in Int /\ from \in Int /\ upto \in Int
  BY <1>0, <1>1, DivMod
<1>3. last < border /\ border <= from
  BY <1>0, <1>1, DivOrder
<1>4. Covered(v, sz) = first .. last /\ Covered(virt, size) = from .. upto
  BY DEF Covered
<1> HIDE DEF first, last, border, from, upto
<1> QED BY <1>2, <1>3, <1>4

(* The pages of bytes in the space.                                        *)
LEMMA CoveredPages ==
  ASSUME NEW v \in Nat, NEW sz \in Nat, v + sz <= Space, NEW x \in Covered(v, sz)
  PROVE  x \in PageSet
<1> DEFINE first == v \div PageSize
           last == (v + sz - 1) \div PageSize
<1>0. /\ PageSize \in Nat \ {0} /\ Count \in Nat \ {0}
      /\ Space = Count * PageSize /\ Space \in Nat \ {0}
  BY PageConstants
<1>1. first \in Int /\ last \in Int /\ x \in first .. last
  BY <1>0, DivMod DEF Covered
<1>2. 0 \div PageSize = 0 /\ Space \div PageSize = Count /\ Space % PageSize = 0
  <2>1. Space = Count * PageSize + 0 /\ 0 = 0 * PageSize + 0
    BY <1>0
  <2> QED BY <1>0, <2>1, DivUnique
<1>3. 0 <= first /\ last < Count
  <2>1. v + sz - 1 \in Int /\ v + sz - 1 < Space
    BY <1>0
  <2> QED BY <1>0, <1>2, <2>1, DivOrder
<1> HIDE DEF first, last
<1> QED BY <1>0, <1>1, <1>3 DEF PageSet

(* A mapping places its piece.                                             *)
LEMMA PlacedNew ==
  ASSUME NEW virt, NEW phys, NEW size, NEW f, Maps(virt, phys, size, f), segment' # <<>>
  PROVE  Placed(directory', virt, phys, size, f)
<1>1. Mapped(directory, directory', virt \div PageSize,
             (virt + size - 1) \div PageSize, phys \div PageSize, f)
  BY DEF Maps
<1> QED BY <1>1 DEF Mapped, Placed, Covered

(* It leaves what has other pages where it is.                             *)
LEMMA PlacedKept ==
  ASSUME NEW virt, NEW phys, NEW size, NEW f, Maps(virt, phys, size, f),
         NEW v, NEW ph, NEW sz, NEW g, Placed(directory, v, ph, sz, g),
         Covered(v, sz) \cap Covered(virt, size) = {}
  PROVE  Placed(directory', v, ph, sz, g)
<1>1. CASE directory' = directory
  BY <1>1
<1>2. CASE Mapped(directory, directory', virt \div PageSize,
                  (virt + size - 1) \div PageSize, phys \div PageSize, f)
  <2>1. ASSUME NEW x \in PageSet \cap Covered(v, sz) PROVE View(directory', x) = View(directory, x)
    <3>1. x \in PageSet /\ x \notin (virt \div PageSize) .. ((virt + size - 1) \div PageSize)
      BY DEF Covered
    <3> QED BY <1>2, <3>1 DEF Mapped
  <2> QED BY <2>1 DEF Placed
<1> QED BY <1>1, <1>2 DEF Maps

(* What is placed is found by paging_get_physical_address, byte for byte.  *)
LEMMA PlacedFound ==
  ASSUME NEW D \in Tables, NEW virt \in Nat, NEW phys \in Nat, NEW size \in Nat,
         NEW f \in 0 .. (PageSize - 1), Placed(D, virt, phys, size, f),
         virt % PageSize = phys % PageSize, virt + size <= Space
  PROVE  \A k \in 0 .. (size - 1) : paging_get_physical_address(D, virt + k) = phys + k
<1> SUFFICES ASSUME NEW k \in 0 .. (size - 1)
             PROVE  paging_get_physical_address(D, virt + k) = phys + k
  OBVIOUS
<1> DEFINE a == virt + k
           x == a \div PageSize
           r == a % PageSize
           p == virt \div PageSize
           q == phys \div PageSize
           o == virt % PageSize
           e == (q + (x - p)) * PageSize + f
<1>0. PageSize \in Nat \ {0} /\ Space \in Nat \ {0}
  BY PageConstants
<1>1. a \in Addresses /\ a \in Int /\ virt <= a /\ a <= virt + size - 1 /\ virt + size - 1 \in Int
  BY <1>0 DEF Addresses
<1>2. /\ x \in PageSet /\ x \in Int /\ r \in Int /\ a = x * PageSize + r
      /\ x \in Covered(virt, size)
  <2> HIDE DEF a
  <2>1. x \in PageSet
    BY <1>1, AlignedPage
  <2>2. x \in Int /\ r \in Int /\ a = x * PageSize + r
    BY <1>0, <1>1, DivMod
  <2>3. p <= x /\ x <= (virt + size - 1) \div PageSize
    BY <1>0, <1>1, DivOrder
  <2>4. p \in Int /\ (virt + size - 1) \div PageSize \in Int
    BY <1>0, <1>1, DivMod
  <2>5. x \in Covered(virt, size)
    <3> HIDE DEF x, p
    <3> QED BY <2>2, <2>3, <2>4 DEF Covered, p
  <2> QED BY <2>1, <2>2, <2>5
<1>3. /\ p \in Int /\ q \in Int /\ o \in Int
      /\ virt = p * PageSize + o /\ phys = q * PageSize + o
  BY <1>0, DivMod
<1>4. View(D, x) = e
  BY <1>2 DEF Placed
<1>5. paging_align_to_lower_page(a) = x * PageSize /\ x * PageSize \in Int
  <2> HIDE DEF a, x, r
  <2>1. x * PageSize \in Int
    BY <1>0, <1>2
  <2> QED BY <1>1, <1>2, <2>1 DEF paging_align_to_lower_page, r
<1>6. paging_get(D, x * PageSize) = View(D, x)
  <2> DEFINE s == paging_get_indexes(x * PageSize)
  <2>1. s = <<x \div Entries, x % Entries>>
    BY <1>2, PageAddress
  <2>2. paging_get(D, x * PageSize) = D[s[1]][s[2]]
    BY DEF paging_get
  <2> HIDE DEF s, x
  <2>3. s[1] = x \div Entries /\ s[2] = x % Entries
    BY <2>1
  <2> QED BY <2>2, <2>3 DEF View
<1> HIDE DEF a, x, r, p, q, o
<1>7. e \in Int /\ e % PageSize = f
  <2> DEFINE n == q + (x - p)
  <2>1. n \in Int /\ f \in Int /\ 0 <= f /\ f < PageSize
    BY <1>0, <1>2, <1>3
  <2> HIDE DEF n
  <2>2. n * PageSize + f \in Int
    BY <1>0, <2>1
  <2>3. (n * PageSize + f) % PageSize = f
    <3> DEFINE b == n * PageSize + f
    <3>1. b \in Int /\ b = n * PageSize + f
      BY <2>2
    <3> HIDE DEF b
    <3>2. b % PageSize = f
      BY <1>0, <2>1, <3>1, ModUnique
    <3> QED BY <3>2 DEF b
  <2> QED BY <2>2, <2>3 DEF n
<1>8. e - f + (a - x * PageSize) = phys + k
  <2>1. /\ p * PageSize \in Int /\ q * PageSize \in Int /\ x * PageSize \in Int
        /\ (q + (x - p)) * PageSize = q * PageSize + (x * PageSize - p * PageSize)
    BY <1>0, <1>2, <1>3
  <2>2. a = virt + k
    BY DEF a
  <2> QED BY <1>1, <1>3, <2>1, <2>2
<1> HIDE DEF e
<1>9. paging_get_physical_address(D, a) = (e - (e % PageSize)) + (a - x * PageSize)
  BY <1>4, <1>5, <1>6 DEF paging_get_physical_address
<1>10. paging_get_physical_address(D, a) = phys + k
  BY <1>7, <1>8, <1>9
<1> QED BY <1>10 DEF a

(* A page of what is placed has its flags.                                 *)
LEMMA PlacedFlags ==
  ASSUME NEW D, NEW virt \in Nat, NEW phys \in Nat, NEW size,
         NEW f \in 0 .. (PageSize - 1), Placed(D, virt, phys, size, f),
         NEW x \in PageSet, x \in Covered(virt, size)
  PROVE  View(D, x) % PageSize = f
<1> DEFINE n == (phys \div PageSize) + (x - (virt \div PageSize))
<1>0. PageSize \in Nat \ {0} /\ Count \in Nat \ {0}
  BY PageConstants
<1>1. n \in Int /\ f \in Int /\ 0 <= f /\ f < PageSize
  <2>1. phys \div PageSize \in Int /\ virt \div PageSize \in Int /\ x \in Int
    BY <1>0, DivMod DEF PageSet
  <2> QED BY <1>0, <2>1
<1>2. View(D, x) = n * PageSize + f
  BY DEF Placed
<1> HIDE DEF n
<1>3. n * PageSize + f \in Int
  BY <1>0, <1>1
<1> QED BY <1>0, <1>1, <1>2, <1>3, ModUnique

(* A header is mapped.                                                     *)
HeaderPlaced(D, memory, h) ==
  Placed(D, h.p_vaddr, memory + h.p_offset, h.p_memsz, Writable(h.p_write))

BinaryPlaced(D) == Placed(D, ProgramAddress, elf.memory, elf.size, Writable(TRUE))

(* The inductive invariant of the image: what has been mapped of the file  *)
(* is still where it was put, and a program that runs has all of it.       *)
ImageInv ==
  state \in {"loaded", "running"} =>
    /\ elf.filetype = "ELF" =>
         \A i \in 1 .. mapped : HeaderPlaced(directory, elf.memory, elf.headers[i])
    /\ elf.filetype = "BINARY" /\ mapped = 1 => BinaryPlaced(directory)
    /\ state = "running" => mapped = IF elf.filetype = "ELF" THEN Len(elf.headers) ELSE 1

(* A mapping outside the region of programs, the stack or a piece of the   *)
(* heap, takes no page of the image.                                       *)
LEMMA ImageKept ==
  ASSUME ProgramAddress + MaxSize <= ProgramEnd, LoaderInv, ImageInv,
         state \in {"loaded", "running"},
         NEW virt, NEW phys, NEW size, NEW f, Request(virt, phys, size, f),
         virt + size <= ProgramAddress \/ ProgramEnd <= virt
  PROVE  /\ elf.filetype = "ELF" =>
              \A i \in 1 .. mapped : HeaderPlaced(directory', elf.memory, elf.headers[i])
         /\ elf.filetype = "BINARY" /\ mapped = 1 => BinaryPlaced(directory')
<1>0. /\ ProgramAddress \in Nat /\ ProgramEnd \in Nat
      /\ ProgramAddress % PageSize = 0 /\ ProgramEnd % PageSize = 0 /\ MaxSize \in Nat
  BY Places
<1>1. virt \in Nat /\ phys \in Nat /\ size \in Nat /\ Maps(virt, phys, size, f)
  BY DEF Request, Suitable
<1>2. ASSUME NEW v \in Nat, NEW sz \in Nat, ProgramAddress <= v, v + sz <= ProgramEnd
      PROVE  Covered(v, sz) \cap Covered(virt, size) = {}
  <2>1. CASE virt + size <= ProgramAddress
    BY <1>0, <1>1, <1>2, <2>1, Apart
  <2>2. CASE ProgramEnd <= virt
    BY <1>0, <1>1, <1>2, <2>2, Apart
  <2> QED BY <2>1, <2>2
<1>3. ASSUME elf.filetype = "ELF", NEW i \in 1 .. mapped
      PROVE  HeaderPlaced(directory', elf.memory, elf.headers[i])
  <2> DEFINE h == elf.headers[i]
  <2>1. ElfKnown
    BY <1>3 DEF LoaderInv, BinaryKnown
  <2>2. elf.headers \in Layouts /\ elf.memory \in Heap /\ i \in 1 .. Len(elf.headers)
    BY <2>1, LayoutFacts DEF ElfKnown
  <2>3. h \in Loads \cup {GnuStack}
    BY <2>2, LayoutFacts
  <2>4. Placed(directory, h.p_vaddr, elf.memory + h.p_offset, h.p_memsz, Writable(h.p_write))
    BY <1>3 DEF ImageInv, HeaderPlaced
  <2> HIDE DEF h
  <2>5. /\ h.p_vaddr \in Nat /\ h.p_memsz \in Nat /\ h.p_vaddr + h.p_memsz <= ProgramEnd
        /\ PagesOf(h) = Covered(h.p_vaddr, h.p_memsz)
        /\ h.p_memsz > 0 => ProgramAddress <= h.p_vaddr
    BY <2>2, <2>3, HeaderFacts DEF Covered
  <2>6. Covered(h.p_vaddr, h.p_memsz) \cap Covered(virt, size) = {}
    <3>1. CASE h.p_memsz > 0
      BY <1>2, <2>5, <3>1
    <3>2. CASE h.p_memsz = 0
      BY <2>5, <3>2 DEF PagesOf
    <3> QED BY <2>5, <3>1, <3>2
  <2>7. Placed(directory', h.p_vaddr, elf.memory + h.p_offset, h.p_memsz, Writable(h.p_write))
    BY <1>1, <2>4, <2>6, PlacedKept
  <2> QED BY <2>7 DEF HeaderPlaced, h
<1>4. ASSUME elf.filetype = "BINARY", mapped = 1 PROVE BinaryPlaced(directory')
  <2>1. elf.size \in Nat /\ ProgramAddress + elf.size <= ProgramEnd
    BY <1>0, <1>4 DEF LoaderInv, ElfKnown, BinaryKnown
  <2>2. Covered(ProgramAddress, elf.size) \cap Covered(virt, size) = {}
    BY <1>0, <1>2, <2>1
  <2>3. Placed(directory, ProgramAddress, elf.memory, elf.size, Writable(TRUE))
    BY <1>4 DEF ImageInv, BinaryPlaced
  <2> QED BY <1>1, <2>2, <2>3, PlacedKept DEF BinaryPlaced
<1> QED BY <1>3, <1>4

(* A turn of the loop places one more header; the others have other pages. *)
LEMMA ImageElf ==
  ASSUME LoaderInv, ImageInv, process_map_elf
  PROVE  ImageInv'
<1> DEFINE h == elf.headers[mapped + 1]
           phys == elf.memory + h.p_offset
<1>1. /\ state = "loaded" /\ elf' = elf /\ elf.filetype = "ELF" /\ mapped' = mapped + 1
      /\ state' = IF segment' = <<>> THEN "refused" ELSE "loaded"
  BY DEF process_map_elf, Refused
<1>2. /\ ElfKnown /\ mapped + 1 \in 1 .. Len(elf.headers)
      /\ Maps(h.p_vaddr, phys, h.p_memsz, Writable(h.p_write))
  BY ElfStep DEF Request
<1>3. /\ elf.headers \in Layouts /\ elf.memory \in Heap /\ mapped \in 0 .. Len(elf.headers)
      /\ Len(elf.headers) \in Nat
  BY <1>2, LayoutFacts DEF ElfKnown
<1>4. ASSUME segment' # <<>>, NEW i \in 1 .. (mapped + 1)
      PROVE  HeaderPlaced(directory', elf.memory, elf.headers[i])
  <2>1. CASE i = mapped + 1
    <3>1. Placed(directory', h.p_vaddr, phys, h.p_memsz, Writable(h.p_write))
      BY <1>2, <1>4, PlacedNew
    <3> QED BY <2>1, <3>1 DEF HeaderPlaced
  <2>2. CASE i # mapped + 1
    <3> DEFINE g == elf.headers[i]
    <3>1. i \in 1 .. mapped /\ i \in 1 .. Len(elf.headers)
      BY <1>3, <2>2
    <3>2. Placed(directory, g.p_vaddr, elf.memory + g.p_offset, g.p_memsz, Writable(g.p_write))
      BY <1>1, <3>1 DEF ImageInv, HeaderPlaced
    <3>3. /\ g \in Loads \cup {GnuStack} /\ h \in Loads \cup {GnuStack}
          /\ PagesOf(g) \cap PagesOf(h) = {}
      BY <1>2, <1>3, <2>2, <3>1, LayoutFacts
    <3> HIDE DEF g, h
    <3>4. /\ PagesOf(g) = Covered(g.p_vaddr, g.p_memsz)
          /\ PagesOf(h) = Covered(h.p_vaddr, h.p_memsz)
      BY <1>3, <3>3, HeaderFacts DEF Covered
    <3>5. Covered(g.p_vaddr, g.p_memsz) \cap Covered(h.p_vaddr, h.p_memsz) = {}
      BY <3>3, <3>4
    <3>6. Placed(directory', g.p_vaddr, elf.memory + g.p_offset, g.p_memsz, Writable(g.p_write))
      BY <1>2, <3>2, <3>5, PlacedKept
    <3> QED BY <3>6 DEF HeaderPlaced, g
  <2> QED BY <2>1, <2>2
<1>5. CASE segment' = <<>>
  BY <1>1, <1>5 DEF ImageInv
<1>6. CASE segment' # <<>>
  <2>1. \A i \in 1 .. mapped' : HeaderPlaced(directory', elf'.memory, elf'.headers[i])
    BY <1>1, <1>4, <1>6
  <2>2. state' = "loaded" /\ elf'.filetype = "ELF"
    BY <1>1, <1>6
  <2> QED BY <2>1, <2>2 DEF ImageInv, HeaderPlaced, Placed, PageSet, Covered, View
<1> QED BY <1>5, <1>6

(* The raw binary is placed.                                               *)
LEMMA ImageBinary ==
  ASSUME LoaderInv, process_map_binary
  PROVE  ImageInv'
<1>1. /\ elf' = elf /\ elf.filetype = "BINARY" /\ mapped' = 1
      /\ state' = IF segment' = <<>> THEN "refused" ELSE "loaded"
  BY DEF process_map_binary, Refused
<1>2. Maps(ProgramAddress, elf.memory, elf.size, Writable(TRUE))
  BY BinaryStep DEF Request
<1>3. CASE segment' = <<>>
  BY <1>1, <1>3 DEF ImageInv
<1>4. CASE segment' # <<>>
  <2>1. Placed(directory', ProgramAddress, elf.memory, elf.size, Writable(TRUE))
    BY <1>2, <1>4, PlacedNew
  <2>2. BinaryPlaced(directory)'
    BY <1>1, <2>1 DEF BinaryPlaced, Placed, PageSet, Covered, View
  <2>3. state' = "loaded" /\ elf'.filetype = "BINARY"
    BY <1>1, <1>4
  <2> QED BY <2>2, <2>3 DEF ImageInv
<1> QED BY <1>3, <1>4

(* A step that keeps the file, and every page of the image, keeps it all.  *)
LEMMA ImageSame ==
  ASSUME elf' = elf, mapped' = mapped, state' = "running",
         mapped = IF elf.filetype = "ELF" THEN Len(elf.headers) ELSE 1,
         elf.filetype = "ELF" =>
           \A i \in 1 .. mapped : HeaderPlaced(directory', elf.memory, elf.headers[i]),
         elf.filetype = "BINARY" /\ mapped = 1 =>
           Placed(directory', ProgramAddress, elf.memory, elf.size, Writable(TRUE))
  PROVE  ImageInv'
<1>1. elf'.filetype = "ELF" =>
        \A i \in 1 .. mapped' : HeaderPlaced(directory, elf.memory, elf.headers[i])'
  BY DEF HeaderPlaced, Placed, PageSet, Covered, View
<1>2. elf'.filetype = "BINARY" /\ mapped' = 1 => BinaryPlaced(directory)'
  BY DEF BinaryPlaced, Placed, PageSet, Covered, View
<1>3. mapped' = IF elf'.filetype = "ELF" THEN Len(elf'.headers) ELSE 1
  OBVIOUS
<1> QED BY <1>1, <1>2, <1>3 DEF ImageInv

(* The stack ends where programs begin at the earliest.                    *)
LEMMA ImageStack ==
  ASSUME ProgramAddress + MaxSize <= ProgramEnd, LoaderInv, ImageInv,
         NEW stack \in Heap, process_map_memory(stack)
  PROVE  ImageInv'
<1>1. /\ Request(StackAddress, stack, StackSize, Writable(TRUE))
      /\ state' = "running" /\ state = "loaded" /\ elf' = elf /\ mapped' = mapped
      /\ mapped = IF elf.filetype = "ELF" THEN Len(elf.headers) ELSE 1
  BY StackStep
<1>2. StackAddress + StackSize <= ProgramAddress
  BY Places
<1>3. /\ elf.filetype = "ELF" =>
           \A i \in 1 .. mapped : HeaderPlaced(directory', elf.memory, elf.headers[i])
      /\ elf.filetype = "BINARY" /\ mapped = 1 =>
           Placed(directory', ProgramAddress, elf.memory, elf.size, Writable(TRUE))
  BY <1>1, <1>2, ImageKept DEF BinaryPlaced
<1> QED BY <1>1, <1>3, ImageSame

(* The heap begins where programs end at the latest.                       *)
LEMMA ImageRemap ==
  ASSUME ProgramAddress + MaxSize <= ProgramEnd, LoaderInv, ImageInv,
         NEW ptr \in Heap, NEW size \in 1 .. MaxSize, NEW f \in {0, Writable(TRUE)},
         process_remap(ptr, size, f)
  PROVE  ImageInv'
<1>1. /\ Request(ptr, ptr, size, f) /\ state = "running"
      /\ state' = "running" /\ elf' = elf /\ mapped' = mapped
  BY RemapStep
<1>2. ProgramEnd <= ptr
  BY Places
<1>3. /\ elf.filetype = "ELF" =>
           \A i \in 1 .. mapped : HeaderPlaced(directory', elf.memory, elf.headers[i])
      /\ elf.filetype = "BINARY" /\ mapped = 1 =>
           Placed(directory', ProgramAddress, elf.memory, elf.size, Writable(TRUE))
  BY <1>1, <1>2, ImageKept DEF BinaryPlaced
<1>4. mapped = IF elf.filetype = "ELF" THEN Len(elf.headers) ELSE 1
  BY <1>1 DEF ImageInv
<1> QED BY <1>1, <1>3, <1>4, ImageSame

(* A step that leaves pages, file and state.                               *)
LEMMA ImageIdle ==
  ASSUME ImageInv, UNCHANGED <<vars, elf, mapped, state>>
  PROVE  ImageInv'
BY DEF ImageInv, HeaderPlaced, BinaryPlaced, Placed, PageSet, Covered, View, vars

(* Every step keeps the image.                                             *)
LEMMA ImageStep ==
  ASSUME ProgramAddress + MaxSize <= ProgramEnd, LoaderInv, ImageInv, [ENext]_evars
  PROVE  ImageInv'
<1>1. CASE /\ state = "empty"
           /\ \E header \in Headers, memory \in Heap :
                \/ \E headers \in Layouts : process_load_elf(header, headers, memory)
                \/ \E size \in 1 .. MaxSize : process_load_binary(header, memory, size)
  <2>1. mapped' = 0 /\ state' = "loaded"
    BY <1>1, LoadStep
  <2> QED BY <2>1 DEF ImageInv
<1>2. CASE process_map_elf
  BY <1>2, ImageElf
<1>3. CASE process_map_binary
  BY <1>3, ImageBinary
<1>4. CASE \E stack \in Heap : process_map_memory(stack)
  BY <1>4, ImageStack
<1>5. CASE \E ptr \in Heap, size \in 1 .. MaxSize, f \in {0, Writable(TRUE)} : process_remap(ptr, size, f)
  BY <1>5, ImageRemap
<1>6. CASE \E tmp \in Heap : Borrow(tmp)
  BY <1>6, LentStep, ImageIdle
<1>7. CASE UNCHANGED evars
  BY <1>7, ImageIdle DEF evars
<1> QED BY <1>1, <1>2, <1>3, <1>4, <1>5, <1>6, <1>7 DEF ENext

(* What is placed in full is mapped as ImageMapped asks.                   *)
LEMMA ImageFound ==
  ASSUME ProgramAddress + MaxSize <= ProgramEnd, LoaderInv, ImageInv
  PROVE  ImageMapped
<1> SUFFICES ASSUME state = "running" PROVE ImageMapped
  BY DEF ImageMapped
<1>0. /\ PageSize \in Nat \ {0} /\ Space \in Nat \ {0}
      /\ ProgramAddress \in Nat /\ ProgramEnd \in Nat /\ ProgramEnd <= Space - PageSize
      /\ ProgramAddress % PageSize = 0 /\ MaxSize \in Nat
      /\ AllFlags \subseteq 0 .. (PageSize - 1) /\ Writable(TRUE) \in AllFlags
      /\ directory \in Tables
  BY PageConstants, Places DEF LoaderInv, TypeOK, Tables
<1>1. CASE elf.filetype = "BINARY"
  <2>1. /\ elf.size \in Nat /\ elf.memory \in Heap /\ ProgramAddress + elf.size <= ProgramEnd
    BY <1>0, <1>1 DEF LoaderInv, ElfKnown, BinaryKnown
  <2>2. elf.memory \in Nat /\ elf.memory % PageSize = 0
    BY <2>1, Places
  <2>3. ProgramAddress + elf.size <= Space /\ ProgramAddress % PageSize = elf.memory % PageSize
    BY <1>0, <2>1, <2>2
  <2>4. Placed(directory, ProgramAddress, elf.memory, elf.size, Writable(TRUE))
    BY <1>1 DEF ImageInv, BinaryPlaced
  <2>5. \A k \in 0 .. (elf.size - 1) :
          paging_get_physical_address(directory, ProgramAddress + k) = elf.memory + k
    <3> DEFINE phys == elf.memory
               sz == elf.size
               f == Writable(TRUE)
    <3>1. ProgramAddress \in Nat /\ phys \in Nat /\ sz \in Nat /\ directory \in Tables
      BY <1>0, <2>1, <2>2
    <3>2. f \in 0 .. (PageSize - 1) /\ Placed(directory, ProgramAddress, phys, sz, f)
      BY <1>0, <2>4
    <3>3. ProgramAddress % PageSize = phys % PageSize /\ ProgramAddress + sz <= Space
      BY <2>3
    <3> HIDE DEF phys, sz, f
    <3>4. \A k \in 0 .. (sz - 1) : paging_get_physical_address(directory, ProgramAddress + k) = phys + k
      BY <3>1, <3>2, <3>3, PlacedFound
    <3> QED BY <3>4 DEF phys, sz
  <2> QED BY <1>1, <2>5 DEF ImageMapped
<1>2. CASE elf.filetype = "ELF"
  <2>1. /\ elf.headers \in Layouts /\ elf.memory \in Heap /\ mapped = Len(elf.headers)
    BY <1>2 DEF LoaderInv, ElfKnown, BinaryKnown, ImageInv
  <2>2. ASSUME NEW i \in DOMAIN elf.headers
        PROVE  LET h == elf.headers[i]
               IN  /\ \A k \in 0 .. (h.p_memsz - 1) :
                        paging_get_physical_address(directory, h.p_vaddr + k)
                          = elf.memory + h.p_offset + k
                   /\ \A x \in PagesOf(h) : Walk(x) % PageSize = Writable(h.p_write)
    <3> DEFINE h == elf.headers[i]
               phys == elf.memory + h.p_offset
    <3>1. i \in 1 .. mapped /\ h \in Loads \cup {GnuStack}
      BY <2>1, LayoutFacts
    <3>2. Placed(directory, h.p_vaddr, phys, h.p_memsz, Writable(h.p_write))
      BY <1>2, <3>1 DEF ImageInv, HeaderPlaced
    <3> HIDE DEF h
    <3>3. /\ h.p_vaddr \in Nat /\ h.p_memsz \in Nat /\ h.p_offset \in Nat
          /\ h.p_vaddr + h.p_memsz <= ProgramEnd
          /\ Writable(h.p_write) \in 0 .. (PageSize - 1)
          /\ PagesOf(h) = Covered(h.p_vaddr, h.p_memsz)
          /\ h.p_vaddr % PageSize = h.p_offset % PageSize
      BY <1>0, <2>1, <3>1, HeaderFacts DEF Covered
    <3>4. /\ phys \in Nat /\ h.p_vaddr + h.p_memsz <= Space
          /\ h.p_vaddr % PageSize = phys % PageSize
      <4>1. elf.memory \in Nat /\ elf.memory % PageSize = 0
        BY <2>1, Places
      <4>2. phys % PageSize = h.p_offset % PageSize
        <5> DEFINE d == elf.memory \div PageSize
                   b == h.p_offset \div PageSize
                   r == h.p_offset % PageSize
        <5>1. /\ d \in Int /\ elf.memory = d * PageSize + 0
              /\ b \in Int /\ r \in Int /\ h.p_offset = b * PageSize + r /\ 0 <= r /\ r < PageSize
          <6>1. elf.memory \in Int /\ h.p_offset \in Int
            BY <3>3, <4>1
          <6>2. d \in Int /\ elf.memory = d * PageSize + (elf.memory % PageSize)
            BY <1>0, <6>1, DivMod
          <6>3. b \in Int /\ r \in Int /\ h.p_offset = b * PageSize + r /\ 0 <= r /\ r < PageSize
            BY <1>0, <6>1, DivMod
          <6> QED BY <4>1, <6>2, <6>3
        <5> HIDE DEF d, b, r
        <5>2. phys = (d + b) * PageSize + r /\ d + b \in Int /\ phys \in Int
          BY <1>0, <3>3, <4>1, <5>1
        <5> HIDE DEF phys
        <5>3. phys % PageSize = r
          BY <1>0, <5>1, <5>2, ModUnique
        <5> QED BY <5>3 DEF r
      <4> QED BY <1>0, <3>3, <4>1, <4>2
    <3> HIDE DEF phys
    <3>5. \A k \in 0 .. (h.p_memsz - 1) :
            paging_get_physical_address(directory, h.p_vaddr + k) = phys + k
      <4> DEFINE v == h.p_vaddr
                 sz == h.p_memsz
                 f == Writable(h.p_write)
      <4>1. v \in Nat /\ phys \in Nat /\ sz \in Nat
        BY <3>3, <3>4
      <4>2. f \in 0 .. (PageSize - 1) /\ Placed(directory, v, phys, sz, f)
        BY <3>2, <3>3
      <4>3. v % PageSize = phys % PageSize /\ v + sz <= Space
        BY <3>3, <3>4
      <4>4. directory \in Tables
        BY <1>0
      <4> HIDE DEF v, sz, f
      <4>5. \A k \in 0 .. (sz - 1) : paging_get_physical_address(directory, v + k) = phys + k
        BY <4>1, <4>2, <4>3, <4>4, PlacedFound
      <4> QED BY <4>5 DEF v, sz
    <3>6. ASSUME NEW x \in PagesOf(h) PROVE Walk(x) % PageSize = Writable(h.p_write)
      <4>1. x \in PageSet
        BY <1>0, <3>3, <3>4, <3>6, CoveredPages
      <4>2. View(directory, x) % PageSize = Writable(h.p_write)
        BY <3>2, <3>3, <3>4, <4>1, PlacedFlags
      <4> QED BY <4>2 DEF View, Walk
    <3> QED BY <3>5, <3>6 DEF h, phys
  <2> QED BY <1>2, <2>2 DEF ImageMapped
<1> QED BY <1>1, <1>2 DEF LoaderInv, ElfKnown, BinaryKnown

(* However the segments of a program lie in their pages, whatever order    *)
(* they were mapped in and whatever the stack and process_malloc map then, *)
(* a program that runs finds every byte where the linker put it and can    *)
(* write what it may write.  Raw binaries must fit below the heap.         *)
THEOREM LoaderImageMapped ==
  ASSUME ProgramAddress + MaxSize <= ProgramEnd
  PROVE  ESpec => []ImageMapped
<1>1. EInit => ImageInv
  BY DEF EInit, ImageInv
<1>2. LoaderInv /\ ImageInv /\ [ENext]_evars => ImageInv'
  BY ImageStep
<1>3. LoaderInv /\ ImageInv => ImageMapped
  BY ImageFound
<1> QED BY <1>1, <1>2, <1>3, LoaderInvariant, PTL DEF ESpec
=============================================================================
