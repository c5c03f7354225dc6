----------------------------- MODULE HeapProofs -----------------------------
(***************************************************************************)
(* The safety of the kernel heap, for every number of blocks and every set *)
(* of request sizes that does not contain 0, and what its loops compute.   *)
(***************************************************************************)
EXTENDS HeapLoops, Foundations

(* The inductive invariant.  NoOverlap alone is not inductive: kmalloc     *)
(* keeps it because the table knows every block in use (Accounting), and   *)
(* kfree keeps Accounting because the flags mark out each run (Chained).   *)
HeapInv == TypeOK /\ NoOverlap /\ Accounting /\ Chained

(* The same of any table T and any set L of allocations: system calls that *)
(* use the heap several times go through such states.                      *)
Sound(T, L) ==
  /\ T \in [Blocks -> SUBSET Flags] /\ L \subseteq Blocks \X Requests
  /\ \A a, b \in L : a # b => Span(a) \cap Span(b) = {}
  /\ \A i \in Blocks : ~IsFree(T[i]) <=> \E a \in L : i \in Span(a)
  /\ \A a \in L : /\ a[2] > 0
                  /\ \A i \in Span(a) : i \in Blocks =>
                       ("HAS_NEXT" \in T[i] <=> i # a[1] + a[2] - 1)

(* The invariant says that the heap is sound, now and after a step.        *)
LEMMA HeapInvSound ==
  /\ HeapInv <=> Sound(entries, live)
  /\ HeapInv' <=> Sound(entries', live')
BY DEF HeapInv, Sound, TypeOK, NoOverlap, Accounting, Chained, Span, IsFree

(* The type of one allocation.                                             *)
LEMMA PieceType ==
  ASSUME NEW a \in Blocks \X Requests
  PROVE  /\ a[1] \in Int /\ 0 <= a[1] /\ a[1] < Total
         /\ a[2] \in Requests /\ a[2] \in Nat
         /\ a = <<a[1], a[2]>>
         /\ Total \in Int
<1>1. Total \in Int /\ Requests \subseteq Nat
  BY HeapAssumption
<1>2. a = <<a[1], a[2]>> /\ a[1] \in Blocks /\ a[2] \in Requests
  OBVIOUS
<1>3. a[1] \in Int /\ 0 <= a[1] /\ a[1] < Total
  BY <1>1, <1>2 DEF Blocks
<1> QED BY <1>1, <1>2, <1>3

(* The run heap_get_start_block finds starts in the heap, and each of its  *)
(* blocks that is in the heap is free: it is either a run that fits or the *)
(* whole tail of the table.                                                *)
LEMMA StartBlockFree ==
  ASSUME NEW T \in [Blocks -> SUBSET Flags], NEW n \in Requests, n > 0, NEW s \in Blocks,
         heap_get_start_block(T, n, s)
  PROVE  /\ \A i \in s .. (s + n - 1) : i \in Blocks => IsFree(T[i])
         /\ s + n - 1 >= Total => IsFree(T[Total - 1])
<1> USE HeapAssumption DEF Blocks
<1>1. CASE IsFirstFit(T, n, s)
  BY <1>1 DEF IsFirstFit, FreeRun
<1>2. CASE IsTrailingRun(T, n, s)
  BY <1>2 DEF IsTrailingRun
<1> QED BY <1>1, <1>2 DEF heap_get_start_block

(* The run heap_get_start_block finds has no block in common with any      *)
(* allocation, past the end of the heap too.                               *)
LEMMA StartBlockFresh ==
  ASSUME NEW T, NEW L, Sound(T, L), NEW n \in Requests, n > 0, NEW s \in Blocks,
         heap_get_start_block(T, n, s), NEW a \in L
  PROVE  Span(a) \cap Span(<<s, n>>) = {}
<1> SUFFICES ASSUME NEW i \in Span(a), i \in Span(<<s, n>>) PROVE FALSE
  OBVIOUS
<1> USE HeapAssumption
<1>0. T \in [Blocks -> SUBSET Flags] /\ L \subseteq Blocks \X Requests
      /\ \A j \in Blocks : ~IsFree(T[j]) <=> \E b \in L : j \in Span(b)
  BY DEF Sound
<1>1. /\ a[1] \in Int /\ a[2] \in Int /\ a[1] < Total /\ 0 <= a[1]
      /\ s \in Int /\ 0 <= s /\ s < Total /\ n \in Int /\ Total \in Int
  BY <1>0, PieceType DEF Blocks
<1>2. /\ i \in Int /\ a[1] <= i /\ i <= a[1] + a[2] - 1
      /\ s <= i /\ i <= s + n - 1
  BY <1>1 DEF Span
<1>3. CASE i < Total
  <2>1. i \in Blocks
    BY <1>1, <1>2, <1>3 DEF Blocks
  <2>2. IsFree(T[i])
    BY <2>1, <1>0, <1>1, <1>2, StartBlockFree
  <2> QED BY <1>0, <2>1, <2>2
<1>4. CASE i >= Total
  <2>1. Total - 1 \in Blocks /\ Total - 1 \in Span(a)
    BY <1>1, <1>2, <1>4 DEF Blocks, Span
  <2>2. IsFree(T[Total - 1])
    BY <1>0, <1>1, <1>2, <1>4, StartBlockFree
  <2> QED BY <1>0, <2>1, <2>2
<1> QED BY <1>1, <1>2, <1>3, <1>4

(* kfree clears the entries of the run it is given and no others.          *)
LEMMA FreeClearsSpan ==
  ASSUME NEW T, NEW L, Sound(T, L), NEW a \in L, NEW i \in Blocks
  PROVE  heap_mark_blocks_free(T, a[1])[i] = IF i \in Span(a) THEN FREE ELSE T[i]
<1> USE HeapAssumption
<1>0. /\ a[1] \in Int /\ a[2] \in Int /\ a[1] < Total /\ 0 <= a[1]
      /\ i \in Int /\ 0 <= i /\ i < Total /\ Total \in Int /\ a[2] > 0
  BY PieceType DEF Sound, Blocks
<1>1. CASE i \in Span(a)
  <2>1. i >= a[1] /\ i <= a[1] + a[2] - 1
    BY <1>0, <1>1 DEF Span
  <2>2. ASSUME NEW j \in a[1] .. (i - 1) PROVE "HAS_NEXT" \in T[j]
    <3>1. j \in Span(a) /\ j \in Blocks /\ j # a[1] + a[2] - 1
      BY <1>0, <2>1 DEF Span, Blocks
    <3> QED BY <3>1 DEF Sound
  <2> QED BY <1>1, <2>1, <2>2 DEF heap_mark_blocks_free
<1>2. CASE i \notin Span(a)
  <2>1. i < a[1] \/ i > a[1] + a[2] - 1
    BY <1>0, <1>2 DEF Span
  <2>2. CASE i < a[1]
    BY <1>0, <1>2, <2>2 DEF heap_mark_blocks_free
  <2>3. CASE i > a[1] + a[2] - 1
    <3> DEFINE e == a[1] + a[2] - 1
    <3>1. e \in Span(a) /\ e \in Blocks /\ e \in a[1] .. (i - 1)
      BY <1>0, <2>3 DEF Span, Blocks
    <3>2. "HAS_NEXT" \notin T[e]
      BY <3>1 DEF Sound
    <3> QED BY <1>2, <3>1, <3>2 DEF heap_mark_blocks_free
  <2> QED BY <2>1, <2>2, <2>3
<1> QED BY <1>1, <1>2

(* kheap_init leaves a heap that satisfies the invariant.                  *)
LEMMA InitHeapInv == Init => HeapInv
<1> SUFFICES ASSUME Init PROVE HeapInv
  OBVIOUS
<1>1. TypeOK
  BY DEF Init, TypeOK, FREE, Flags
<1>2. NoOverlap /\ Chained
  BY DEF Init, NoOverlap, Chained
<1>3. Accounting
  BY DEF Init, Accounting, IsFree, FREE
<1> QED BY <1>1, <1>2, <1>3 DEF HeapInv

(* A granted request leaves a sound heap, and is a new piece of it.        *)
LEMMA TakeSound ==
  ASSUME NEW T, NEW L, Sound(T, L), NEW n \in Requests, n > 0, NEW s \in Blocks,
         heap_get_start_block(T, n, s)
  PROVE  /\ Sound(heap_mark_blocks_taken(T, s, n), L \cup {<<s, n>>})
         /\ <<s, n>> \notin L
<1> DEFINE new == <<s, n>>
           U == heap_mark_blocks_taken(T, s, n)
           N == L \cup {<<s, n>>}
<1>1. /\ T \in [Blocks -> SUBSET Flags] /\ L \subseteq Blocks \X Requests
      /\ \A a, b \in L : a # b => Span(a) \cap Span(b) = {}
      /\ \A i \in Blocks : ~IsFree(T[i]) <=> \E a \in L : i \in Span(a)
      /\ \A a \in L : /\ a[2] > 0
                      /\ \A i \in Span(a) : i \in Blocks =>
                           ("HAS_NEXT" \in T[i] <=> i # a[1] + a[2] - 1)
  BY DEF Sound
<1>2. /\ s \in Int /\ n \in Int /\ 0 <= s /\ s < Total /\ Total \in Int
      /\ new[1] = s /\ new[2] = n
  BY HeapAssumption DEF Blocks
<1>3. \A a \in L : Span(a) \cap Span(new) = {}
  BY StartBlockFresh
<1>4. Span(new) = s .. (s + n - 1)
  BY DEF Span
<1>5. ASSUME NEW i \in Blocks
      PROVE  /\ i \in Span(new) =>
                  /\ ~IsFree(U[i])
                  /\ "HAS_NEXT" \in U[i] <=> i # s + n - 1
             /\ i \notin Span(new) => U[i] = T[i]
  BY <1>4 DEF heap_mark_blocks_taken, IsFree
<1>6. U \in [Blocks -> SUBSET Flags] /\ N \subseteq Blocks \X Requests
  BY <1>1, <1>2 DEF heap_mark_blocks_taken, Flags
<1>7. \A a, b \in N : a # b => Span(a) \cap Span(b) = {}
  BY <1>1, <1>3
<1>8. \A i \in Blocks : ~IsFree(U[i]) <=> \E a \in N : i \in Span(a)
  <2> HIDE DEF U
  <2> QED BY <1>1, <1>3, <1>5 DEF IsFree
<1>9. ASSUME NEW a \in N
      PROVE  /\ a[2] > 0
             /\ \A i \in Span(a) : i \in Blocks =>
                  ("HAS_NEXT" \in U[i] <=> i # a[1] + a[2] - 1)
  <2> HIDE DEF U
  <2>1. CASE a = new
    BY <2>1, <1>2, <1>5
  <2>2. CASE a \in L
    BY <2>2, <1>1, <1>3, <1>5
  <2> QED BY <2>1, <2>2
<1>10. new \notin L
  <2>1. s \in Span(new)
    BY <1>2, <1>4
  <2> QED BY <1>3, <2>1
<1> HIDE DEF U, N
<1>11. Sound(U, N)
  BY <1>6, <1>7, <1>8, <1>9 DEF Sound
<1> QED BY <1>10, <1>11 DEF U, N

(* Freeing an allocation leaves a sound heap without it.                   *)
LEMMA FreeSound ==
  ASSUME NEW T, NEW L, Sound(T, L), NEW b \in L
  PROVE  Sound(heap_mark_blocks_free(T, b[1]), L \ {b})
<1> DEFINE U == heap_mark_blocks_free(T, b[1])
           N == L \ {b}
<1>1. /\ T \in [Blocks -> SUBSET Flags] /\ L \subseteq Blocks \X Requests
      /\ \A a, d \in L : a # d => Span(a) \cap Span(d) = {}
      /\ \A i \in Blocks : ~IsFree(T[i]) <=> \E a \in L : i \in Span(a)
      /\ \A a \in L : /\ a[2] > 0
                      /\ \A i \in Span(a) : i \in Blocks =>
                           ("HAS_NEXT" \in T[i] <=> i # a[1] + a[2] - 1)
  BY DEF Sound
<1>2. \A i \in Blocks : U[i] = IF i \in Span(b) THEN FREE ELSE T[i]
  BY FreeClearsSpan
<1>3. \A a \in N : a \in L /\ Span(a) \cap Span(b) = {}
  BY <1>1
<1>4. U \in [Blocks -> SUBSET Flags] /\ N \subseteq Blocks \X Requests
  BY <1>1 DEF heap_mark_blocks_free, FREE, Flags
<1> HIDE DEF U
<1>5. \A a, d \in N : a # d => Span(a) \cap Span(d) = {}
  BY <1>1
<1>6. ASSUME NEW i \in Blocks
      PROVE  ~IsFree(U[i]) <=> \E a \in N : i \in Span(a)
  <2>1. CASE i \in Span(b)
    BY <2>1, <1>2, <1>3 DEF IsFree, FREE
  <2>2. CASE i \notin Span(b)
    BY <2>2, <1>1, <1>2
  <2> QED BY <2>1, <2>2
<1>7. \A a \in N : /\ a[2] > 0
                   /\ \A i \in Span(a) : i \in Blocks =>
                        ("HAS_NEXT" \in U[i] <=> i # a[1] + a[2] - 1)
  BY <1>1, <1>2, <1>3
<1> HIDE DEF N
<1>8. Sound(U, N)
  BY <1>4, <1>5, <1>6, <1>7 DEF Sound
<1> QED BY <1>8 DEF U, N

(* A granted request keeps the invariant.                                  *)
LEMMA kmallocHeapInv ==
  ASSUME HeapInv, NEW n \in Requests, n > 0, kmalloc(n)
  PROVE  HeapInv'
<1>1. PICK s \in Blocks :
         /\ heap_get_start_block(entries, n, s)
         /\ entries' = heap_mark_blocks_taken(entries, s, n)
         /\ live' = live \cup {<<s, n>>}
  BY DEF kmalloc
<1> QED BY <1>1, HeapInvSound, TakeSound

(* Freeing an allocation keeps the invariant.                              *)
LEMMA kfreeHeapInv ==
  ASSUME HeapInv, NEW b \in live, kfree(b)
  PROVE  HeapInv'
BY HeapInvSound, FreeSound DEF kfree

(* Every step of the heap keeps the invariant.                             *)
LEMMA NextHeapInv ==
  ASSUME 0 \notin Requests, HeapInv, [Next]_vars
  PROVE  HeapInv'
<1>1. ASSUME NEW n \in Requests, kmalloc(n) PROVE HeapInv'
  <2>1. n > 0
    BY HeapAssumption
  <2> QED BY <2>1, <1>1, kmallocHeapInv
<1>2. ASSUME NEW n \in Requests, kmalloc_ENOMEM(n) PROVE HeapInv'
  BY <1>2 DEF kmalloc_ENOMEM, vars, HeapInv, TypeOK, NoOverlap, Accounting,
              Chained, Span, IsFree
<1>3. ASSUME NEW a \in live, kfree(a) PROVE HeapInv'
  BY <1>3, kfreeHeapInv
<1>4. CASE UNCHANGED vars
  BY <1>4 DEF vars, HeapInv, TypeOK, NoOverlap, Accounting, Chained, Span, IsFree
<1> QED BY <1>1, <1>2, <1>3, <1>4 DEF Next

(* The heap keeps its invariant as long as no caller asks for 0 blocks.    *)
THEOREM HeapIsInvariant ==
  ASSUME 0 \notin Requests
  PROVE  Spec => []HeapInv
BY InitHeapInv, NextHeapInv, PTL DEF Spec

(* Every entry of the table is a combination of flags and every address    *)
(* kmalloc hands out is a block of the heap.                               *)
THEOREM HeapTypeCorrect ==
  ASSUME 0 \notin Requests
  PROVE  Spec => []TypeOK
<1>1. HeapInv => TypeOK
  BY DEF HeapInv
<1> QED BY <1>1, HeapIsInvariant, PTL

(* No two allocations of the kernel heap share a block.                    *)
THEOREM HeapNoOverlap ==
  ASSUME 0 \notin Requests
  PROVE  Spec => []NoOverlap
<1>1. HeapInv => NoOverlap
  BY DEF HeapInv
<1> QED BY <1>1, HeapIsInvariant, PTL

(* The flags chain every allocation from its first block to its last: the  *)
(* end that kfree finds in the table is the one kmalloc put there.         *)
THEOREM HeapChained ==
  ASSUME 0 \notin Requests
  PROVE  Spec => []Chained
<1>1. HeapInv => Chained
  BY DEF HeapInv
<1> QED BY <1>1, HeapIsInvariant, PTL

(* The table marks a block taken exactly when some caller holds it.        *)
THEOREM HeapAccounting ==
  ASSUME 0 \notin Requests
  PROVE  Spec => []Accounting
<1>1. HeapInv => Accounting
  BY DEF HeapInv
<1> QED BY <1>1, HeapIsInvariant, PTL

-----------------------------------------------------------------------------
(* A block free in the table is a block nobody owns, and conversely.       *)
LEMMA FreeIsUnowned ==
  ASSUME HeapInv, NEW i \in Blocks
  PROVE  IsFree(entries[i]) <=> Pool!Unowned(i)
BY DEF HeapInv, Accounting, Pool!Unowned, Span, Pool!Span

(* A run free in the table is a run that fits the pool.                    *)
LEMMA FreeRunFits ==
  ASSUME HeapInv, NEW n \in Requests, n > 0, NEW s \in Nat
  PROVE  FreeRun(entries, s, n) <=> Pool!Fits(s, n)
<1>1. Pool!Span(<<s, n>>) = s .. (s + n - 1)
  BY DEF Pool!Span
<1>2. Pool!Blocks = Blocks
  BY DEF Pool!Blocks, Blocks
<1> QED BY <1>1, <1>2, FreeIsUnowned DEF FreeRun, Pool!Fits

(* kmalloc grants what the pool grants.                                    *)
LEMMA kmallocGrants ==
  ASSUME HeapInv, NEW n \in Requests, n > 0, kmalloc(n)
  PROVE  Pool!Grant(n)
<1>0. Pool!Blocks = Blocks /\ Blocks \subseteq Nat /\ Total \in Nat
  BY HeapAssumption DEF Pool!Blocks, Blocks
<1>1. PICK s \in Blocks :
         heap_get_start_block(entries, n, s) /\ live' = live \cup {<<s, n>>}
  BY DEF kmalloc
<1>2. CASE IsFirstFit(entries, n, s)
  <2>1. Pool!Fits(s, n)
    BY <1>0, <1>2, FreeRunFits DEF IsFirstFit
  <2>2. \A r \in 0 .. (s - 1) : ~Pool!Fits(r, n)
    BY <1>0, <1>2, FreeRunFits DEF IsFirstFit
  <2> QED BY <1>0, <1>1, <2>1, <2>2 DEF Pool!Grant
<1>3. CASE IsTrailingRun(entries, n, s)
  <2>1. \A r \in Blocks : ~Pool!Fits(r, n)
    BY <1>0, <1>3, FreeRunFits, HeapAssumption DEF IsTrailingRun
  <2>2. \A i \in s .. (Total - 1) : Pool!Unowned(i)
    <3> SUFFICES ASSUME NEW i \in s .. (Total - 1) PROVE Pool!Unowned(i)
      OBVIOUS
    <3>1. i \in Blocks
      BY <1>0 DEF Blocks
    <3>2. IsFree(entries[i])
      BY <1>3 DEF IsTrailingRun
    <3> QED BY <3>1, <3>2, FreeIsUnowned
  <2> QED BY <1>0, <1>1, <2>1, <2>2 DEF Pool!Grant
<1> QED BY <1>1, <1>2, <1>3 DEF heap_get_start_block

(* Every step of the heap is a step of the pool or leaves it as it is.     *)
LEMMA NextPool ==
  ASSUME 0 \notin Requests, HeapInv, [Next]_vars
  PROVE  [Pool!Next]_live
<1>1. ASSUME NEW n \in Requests, kmalloc(n) PROVE Pool!Next
  <2>1. n > 0
    BY HeapAssumption
  <2> QED BY <2>1, <1>1, kmallocGrants DEF Pool!Next
<1>2. ASSUME NEW n \in Requests, kmalloc_ENOMEM(n) PROVE UNCHANGED live
  BY <1>2 DEF kmalloc_ENOMEM, vars
<1>3. ASSUME NEW a \in live, kfree(a) PROVE Pool!Next
  BY <1>3 DEF kfree, Pool!Next, Pool!Release
<1>4. CASE UNCHANGED vars
  BY <1>4 DEF vars
<1> QED BY <1>1, <1>2, <1>3, <1>4 DEF Next

(* The block table of heap.c implements the pool of owned blocks.          *)
THEOREM HeapImplementsBlockPool ==
  ASSUME 0 \notin Requests
  PROVE  Spec => ImplementsBlockPool
<1>1. Init => Pool!Init
  BY DEF Init, Pool!Init
<1>2. Spec => []HeapInv
  BY HeapIsInvariant
<1> QED BY <1>1, <1>2, NextPool, PTL DEF Spec, ImplementsBlockPool, Pool!Spec

-----------------------------------------------------------------------------
(* What the loop of heap_get_start_block holds after k rounds: it has      *)
(* found the first fit, or it knows the free run that ends at index k and  *)
(* that nothing before fits.                                               *)
Scanned(table, n, r, k) ==
  IF r.break
    THEN n > 0 /\ r.bs \in Blocks /\ IsFirstFit(table, n, r.bs)
    ELSE /\ r.bc \in 0 .. k
         /\ r.bs = IF r.bc = 0 THEN -1 ELSE k - r.bc
         /\ \A i \in (k - r.bc) .. (k - 1) : IsFree(table[i])
         /\ r.bc < k => ~IsFree(table[k - r.bc - 1])
         /\ n > 0 => r.bc < n /\ \A b \in Nat : b + n <= k => ~FreeRun(table, b, n)

(* A round of the loop of heap_get_start_block, at index i.                *)
ScanRound(table, n, r, i) ==
  IF r.break THEN r
  ELSE IF ~IsFree(table[i]) THEN [bc |-> 0, bs |-> -1, break |-> FALSE]
  ELSE [bc |-> r.bc + 1, bs |-> IF r.bs = -1 THEN i ELSE r.bs, break |-> r.bc + 1 = n]

(* A round of the scan keeps what the loop knows.                          *)
LEMMA ScannedRound ==
  ASSUME NEW table, NEW n \in Nat, NEW k \in 1 .. Total,
         NEW r, Scanned(table, n, r, k - 1), ~r.break,
         NEW bc, NEW bs, NEW broken \in BOOLEAN,
         IF IsFree(table[k - 1])
           THEN /\ bc = r.bc + 1 /\ bs = (IF r.bs = -1 THEN k - 1 ELSE r.bs)
                /\ (broken <=> bc = n)
           ELSE bc = 0 /\ bs = -1 /\ ~broken
  PROVE  Scanned(table, n, [bc |-> bc, bs |-> bs, break |-> broken], k)
<1>0. Total \in Nat /\ k \in Nat /\ k - 1 \in Blocks /\ r.bc \in 0 .. (k - 1)
  BY HeapAssumption DEF Blocks, Scanned
<1>1. /\ r.bs = IF r.bc = 0 THEN -1 ELSE (k - 1) - r.bc
      /\ \A i \in ((k - 1) - r.bc) .. ((k - 1) - 1) : IsFree(table[i])
      /\ r.bc < k - 1 => ~IsFree(table[(k - 1) - r.bc - 1])
      /\ n > 0 => r.bc < n /\ \A b \in Nat : b + n <= k - 1 => ~FreeRun(table, b, n)
  BY DEF Scanned
<1>2. CASE ~IsFree(table[k - 1])
  <2>1. bc = 0 /\ bs = -1 /\ ~broken
    BY <1>2
  <2>2. ASSUME n > 0, NEW b \in Nat, b + n <= k PROVE ~FreeRun(table, b, n)
    <3>1. CASE b + n = k
      <4>1. k - 1 \in b .. (b + n - 1)
        BY <1>0, <2>2, <3>1
      <4> QED BY <1>2, <4>1 DEF FreeRun
    <3>2. CASE b + n # k
      BY <1>0, <1>1, <2>2, <3>2
    <3> QED BY <3>1, <3>2
  <2> QED BY <1>0, <1>2, <2>1, <2>2 DEF Scanned
<1>3. CASE IsFree(table[k - 1])
  <2>1. bc = r.bc + 1 /\ bs = k - bc /\ (broken <=> bc = n) /\ bc \in 1 .. k
    BY <1>0, <1>1, <1>3
  <2>2. \A i \in (k - bc) .. (k - 1) : IsFree(table[i]) /\ i \in Blocks
    BY <1>0, <1>1, <1>3, <2>1 DEF Blocks
  <2>3. CASE broken
    <3>1. n > 0 /\ bc = n /\ bs \in Blocks
      BY <1>0, <2>1, <2>3 DEF Blocks
    <3>2. FreeRun(table, bs, n)
      BY <1>0, <2>1, <2>2, <3>1 DEF FreeRun
    <3>3. ASSUME NEW b \in 0 .. (bs - 1) PROVE ~FreeRun(table, b, n)
      BY <1>0, <1>1, <2>1, <3>1
    <3> QED BY <2>3, <3>1, <3>2, <3>3 DEF Scanned, IsFirstFit
  <2>4. CASE ~broken
    <3>1. n > 0 => bc < n
      BY <1>0, <1>1, <2>1, <2>4
    <3>2. ASSUME n > 0, NEW b \in Nat, b + n <= k PROVE ~FreeRun(table, b, n)
      <4>1. CASE b + n = k
        <5>1. bc < k /\ k - bc - 1 \in b .. (b + n - 1)
          BY <1>0, <2>1, <3>1, <3>2, <4>1
        <5>2. ~IsFree(table[k - bc - 1])
          <6>1. r.bc < k - 1 /\ (k - 1) - r.bc - 1 = k - bc - 1
            BY <1>0, <2>1, <5>1
          <6> QED BY <1>1, <6>1
        <5> QED BY <5>1, <5>2 DEF FreeRun
      <4>2. CASE b + n # k
        BY <1>0, <1>1, <3>2, <4>2
      <4> QED BY <4>1, <4>2
    <3>3. bc < k => ~IsFree(table[k - bc - 1])
      <4> SUFFICES ASSUME bc < k PROVE ~IsFree(table[k - bc - 1])
        OBVIOUS
      <4>1. r.bc < k - 1 /\ (k - 1) - r.bc - 1 = k - bc - 1
        BY <1>0, <2>1
      <4> QED BY <1>1, <4>1
    <3> QED BY <1>0, <2>1, <2>2, <2>4, <3>1, <3>2, <3>3 DEF Scanned
  <2> QED BY <2>3, <2>4
<1> QED BY <1>2, <1>3

(* The loop of heap_get_start_block ends with what Scanned says of the     *)
(* whole table.                                                            *)
LEMMA ScanLoopEnds ==
  ASSUME NEW table, NEW n \in Nat
  PROVE  \E r : ScanLoop(table, n) = r.bs /\ Scanned(table, n, r, Total)
<1> DEFINE S == [bc : Nat, bs : Int, break : BOOLEAN]
           base == [bc |-> 0, bs |-> -1, break |-> FALSE]
           step == [k \in Nat |-> [r \in S |-> ScanRound(table, n, r, k - 1)]]
           Is(f) == f = [k \in 0 .. Total |->
                          IF k = 0 THEN base ELSE ScanRound(table, n, f[k - 1], k - 1)]
<1>0. Total \in Nat \ {0}
  BY HeapAssumption
<1>1. base \in S /\ step \in [Nat -> [S -> S]]
  <2>1. ASSUME NEW k \in Nat, NEW r \in S PROVE ScanRound(table, n, r, k - 1) \in S
    BY DEF ScanRound
  <2> HIDE DEF S
  <2>2. base \in S
    BY DEF S
  <2> QED BY <2>1, <2>2
<1>2. PICK g : /\ g \in [0 .. Total -> S] /\ g[0] = base
               /\ \A i \in 1 .. Total : g[i] = step[i][g[i - 1]]
  <2> HIDE DEF S, base, step
  <2>1. \E g : Iterates(g, S, base, step, Total)
    BY <1>0, <1>1, Recursion
  <2> QED BY <2>1 DEF Iterates
<1>3. \A i \in 1 .. Total : g[i - 1] \in S /\ g[i] = ScanRound(table, n, g[i - 1], i - 1)
  <2> SUFFICES ASSUME NEW i \in 1 .. Total
               PROVE  g[i - 1] \in S /\ g[i] = ScanRound(table, n, g[i - 1], i - 1)
    OBVIOUS
  <2> HIDE DEF S, base
  <2>1. i \in Nat /\ i - 1 \in 0 .. Total
    BY <1>0
  <2>2. g[i - 1] \in S /\ g[i] = step[i][g[i - 1]]
    BY <1>2, <2>1
  <2> QED BY <2>1, <2>2
<1>4. Is(g)
  <2> HIDE DEF S, base
  <2> QED BY <1>0, <1>2, <1>3
<1> DEFINE loop == CHOOSE h : Is(h)
<1>5. Is(loop)
  <2> HIDE DEF Is
  <2> QED BY <1>4
<1>6. ScanLoop(table, n) = loop[Total].bs
  BY DEF ScanLoop, ScanRound
<1> HIDE DEF loop
<1>7. loop[0] = base /\ \A k \in 1 .. Total : loop[k] = ScanRound(table, n, loop[k - 1], k - 1)
  <2>1. 0 \in 0 .. Total /\ \A k \in 1 .. Total : k \in 0 .. Total /\ k # 0
    BY <1>0
  <2>2. \A k \in 0 .. Total :
          loop[k] = IF k = 0 THEN base ELSE ScanRound(table, n, loop[k - 1], k - 1)
    <3> HIDE DEF base
    <3> QED BY <1>5, Zenon
  <2> HIDE DEF base, Is
  <2> QED BY <2>1, <2>2
<1>8. ASSUME NEW k \in 1 .. Total, Scanned(table, n, loop[k - 1], k - 1)
      PROVE  Scanned(table, n, loop[k], k)
  <2>1. CASE loop[k - 1].break
    BY <1>7, <1>8, <2>1 DEF Scanned, ScanRound
  <2>2. CASE ~loop[k - 1].break
    <3> DEFINE r == loop[k - 1]
    <3>1. CASE ~IsFree(table[k - 1])
      <4>1. loop[k] = base
        BY <1>7, <2>2, <3>1 DEF ScanRound
      <4> HIDE DEF r
      <4> QED BY <1>8, <2>2, <3>1, <4>1, ScannedRound DEF r
    <3>2. CASE IsFree(table[k - 1])
      <4> DEFINE bc == r.bc + 1
                 bs == IF r.bs = -1 THEN k - 1 ELSE r.bs
                 broken == bc = n
      <4>1. loop[k] = [bc |-> bc, bs |-> bs, break |-> broken]
        BY <1>7, <2>2, <3>2 DEF ScanRound
      <4>2. broken \in BOOLEAN
        OBVIOUS
      <4> HIDE DEF r
      <4>3. Scanned(table, n, r, k - 1) /\ ~r.break
        BY <1>8, <2>2 DEF r
      <4>4. IF IsFree(table[k - 1])
              THEN /\ bc = r.bc + 1 /\ bs = (IF r.bs = -1 THEN k - 1 ELSE r.bs)
                   /\ (broken <=> bc = n)
              ELSE bc = 0 /\ bs = -1 /\ ~broken
        BY <3>2
      <4> HIDE DEF bc, bs, broken
      <4> QED BY <4>1, <4>2, <4>3, <4>4, ScannedRound
    <3> QED BY <3>1, <3>2
  <2> QED BY <2>1, <2>2
<1>9. Scanned(table, n, loop[Total], Total)
  <2> DEFINE P == {k \in Nat : k <= Total => Scanned(table, n, loop[k], k)}
  <2>1. 0 \in P
    <3>1. \A b \in Nat : ~(n > 0 /\ b + n <= 0)
      OBVIOUS
    <3> QED BY <1>7, <3>1 DEF Scanned
  <2>2. ASSUME NEW k \in Nat, k \in P PROVE k + 1 \in P
    <3> SUFFICES ASSUME k + 1 <= Total PROVE Scanned(table, n, loop[k + 1], k + 1)
      OBVIOUS
    <3>1. k + 1 \in 1 .. Total /\ (k + 1) - 1 = k /\ Scanned(table, n, loop[k], k)
      BY <1>0, <2>2
    <3> QED BY <1>8, <3>1
  <2>3. Total \in P
    <3> HIDE DEF P
    <3> QED BY <1>0, <2>1, <2>2, NatInductionSet
  <2> QED BY <1>0, <2>3
<1> QED BY <1>6, <1>9

(* The scan of heap_get_start_block finds the block that its definition    *)
(* describes.                                                              *)
LEMMA ScanLoopAgrees ==
  ASSUME NEW table, NEW n \in Nat
  PROVE  {s \in Blocks : heap_get_start_block(table, n, s)} = {ScanLoop(table, n)} \ {-1}
<1>1. PICK r : ScanLoop(table, n) = r.bs /\ Scanned(table, n, r, Total)
  BY ScanLoopEnds
<1>0. Total \in Nat \ {0}
  BY HeapAssumption
<1>2. CASE r.break
  <2>1. n > 0 /\ r.bs \in Blocks /\ IsFirstFit(table, n, r.bs) /\ r.bs # -1
    BY <1>0, <1>1, <1>2 DEF Scanned, Blocks
  <2>2. FreeRun(table, r.bs, n) /\ \A b \in 0 .. (r.bs - 1) : ~FreeRun(table, b, n)
    BY <2>1 DEF IsFirstFit
  <2>3. ASSUME NEW s \in Blocks, heap_get_start_block(table, n, s) PROVE s = r.bs
    <3>1. ~IsTrailingRun(table, n, s)
      BY <2>1, <2>2 DEF IsTrailingRun
    <3>2. IsFirstFit(table, n, s)
      BY <2>3, <3>1 DEF heap_get_start_block
    <3>3. FreeRun(table, s, n) /\ \A b \in 0 .. (s - 1) : ~FreeRun(table, b, n)
      BY <3>2 DEF IsFirstFit
    <3>4. r.bs \in Nat /\ s \in Nat
      BY <1>0, <2>1 DEF Blocks
    <3> QED BY <2>2, <3>3, <3>4
  <2>4. heap_get_start_block(table, n, r.bs)
    BY <2>1 DEF heap_get_start_block
  <2> QED BY <1>1, <2>1, <2>3, <2>4
<1>3. CASE ~r.break
  <2>1. /\ r.bc \in 0 .. Total
        /\ r.bs = IF r.bc = 0 THEN -1 ELSE Total - r.bc
        /\ \A i \in (Total - r.bc) .. (Total - 1) : IsFree(table[i])
        /\ r.bc < Total => ~IsFree(table[Total - r.bc - 1])
        /\ n > 0 => \A b \in Nat : b + n <= Total => ~FreeRun(table, b, n)
    BY <1>1, <1>3 DEF Scanned
  <2>2. ASSUME n > 0, NEW b \in Nat PROVE ~FreeRun(table, b, n)
    <3> SUFFICES ASSUME FreeRun(table, b, n) PROVE FALSE
      OBVIOUS
    <3>1. b + n - 1 \in b .. (b + n - 1)
      BY <2>2
    <3>2. b + n - 1 \in Blocks
      BY <3>1 DEF FreeRun
    <3> QED BY <1>0, <2>1, <2>2, <3>2 DEF Blocks
  <2>3. ASSUME NEW s \in Blocks, heap_get_start_block(table, n, s)
        PROVE  r.bc # 0 /\ s = Total - r.bc
    <3>1. s \in Nat /\ s < Total
      BY <1>0 DEF Blocks
    <3>2. IsTrailingRun(table, n, s)
      BY <2>2, <2>3, <3>1 DEF heap_get_start_block, IsFirstFit
    <3>3. /\ \A i \in s .. (Total - 1) : IsFree(table[i])
          /\ s > 0 => ~IsFree(table[s - 1])
      BY <3>2 DEF IsTrailingRun
    <3>4. ~(s <= Total - r.bc - 1)
      <4> SUFFICES ASSUME s <= Total - r.bc - 1 PROVE FALSE
        OBVIOUS
      <4>1. r.bc < Total /\ Total - r.bc - 1 \in s .. (Total - 1)
        BY <1>0, <2>1, <3>1
      <4> QED BY <2>1, <3>3, <4>1
    <3>5. ~(s > Total - r.bc)
      <4> SUFFICES ASSUME s > Total - r.bc PROVE FALSE
        OBVIOUS
      <4>1. s > 0 /\ s - 1 \in (Total - r.bc) .. (Total - 1)
        BY <1>0, <2>1, <3>1
      <4> QED BY <2>1, <3>3, <4>1
    <3> QED BY <1>0, <2>1, <3>1, <3>4, <3>5
  <2>4. ASSUME r.bc # 0
        PROVE  Total - r.bc \in Blocks /\ heap_get_start_block(table, n, Total - r.bc)
    <3>1. Total - r.bc \in Blocks
      BY <1>0, <2>1, <2>4 DEF Blocks
    <3>2. \A b \in Blocks : b \in Nat
      BY <1>0 DEF Blocks
    <3>3. n = 0 \/ \A b \in Blocks : ~FreeRun(table, b, n)
      BY <2>2, <3>2
    <3>4. Total - r.bc > 0 => ~IsFree(table[(Total - r.bc) - 1])
      BY <1>0, <2>1
    <3> QED BY <2>1, <3>1, <3>3, <3>4 DEF heap_get_start_block, IsTrailingRun
  <2>5. CASE r.bc = 0
    BY <1>1, <2>1, <2>3, <2>5
  <2>6. CASE r.bc # 0
    <3>1. r.bs = Total - r.bc /\ r.bs # -1
      BY <1>0, <2>1, <2>6
    <3> QED BY <1>1, <2>3, <2>4, <2>6, <3>1
  <2> QED BY <2>5, <2>6
<1> QED BY <1>2, <1>3

-----------------------------------------------------------------------------
(* A round of the loop of heap_mark_blocks_taken, the k-th one.            *)
TakenRound(start, n, was, k) ==
  LET i == start + k - 1
  IN  [entries |-> IF i \in Blocks THEN [was.entries EXCEPT ![i] = was.entry]
                                   ELSE was.entries,
       entry |-> {"TAKEN"} \cup (IF i # (start + n - 1) - 1 THEN {"HAS_NEXT"} ELSE {})]

(* What the loop of heap_mark_blocks_taken holds after k rounds.           *)
TakenAfter(table, start, n, k) ==
  [entries |-> [i \in Blocks |->
                  IF i \in start .. (start + k - 1)
                    THEN {"TAKEN"} \cup (IF i = start THEN {"IS_FIRST"} ELSE {})
                                   \cup (IF i # start + n - 1 THEN {"HAS_NEXT"} ELSE {})
                    ELSE table[i]],
   entry |-> IF k = 0
               THEN {"TAKEN", "IS_FIRST"} \cup (IF n > 1 THEN {"HAS_NEXT"} ELSE {})
               ELSE {"TAKEN"} \cup (IF start + k # start + n - 1 THEN {"HAS_NEXT"} ELSE {})]

(* A round leads from what the loop holds to what it then holds.           *)
LEMMA TakenRoundAfter ==
  ASSUME NEW table, NEW start \in Blocks, NEW n \in Nat, NEW k \in 1 .. n
  PROVE  TakenAfter(table, start, n, k)
           = TakenRound(start, n, TakenAfter(table, start, n, k - 1), k)
<1> DEFINE was == TakenAfter(table, start, n, k - 1)
           here == start + k - 1
           new == IF here \in Blocks THEN [was.entries EXCEPT ![here] = was.entry]
                                     ELSE was.entries
           mark(i) == {"TAKEN"} \cup (IF i = start THEN {"IS_FIRST"} ELSE {})
                                \cup (IF i # start + n - 1 THEN {"HAS_NEXT"} ELSE {})
           now == TakenAfter(table, start, n, k)
<1>0. start \in Nat /\ k \in Nat /\ k >= 1 /\ k <= n /\ here \in Nat
  BY HeapAssumption DEF Blocks
<1>1. was.entry = mark(here)
  <2>1. CASE k = 1
    <3>1. here = start /\ k - 1 = 0 /\ (here # start + n - 1 <=> n > 1)
      BY <1>0, <2>1
    <3>2. was.entry = {"TAKEN", "IS_FIRST"} \cup (IF n > 1 THEN {"HAS_NEXT"} ELSE {})
      BY <3>1 DEF TakenAfter
    <3> HIDE DEF was, here
    <3> QED BY <3>1, <3>2
  <2>2. CASE k # 1
    <3>1. here # start /\ k - 1 # 0 /\ start + (k - 1) = here
      BY <1>0, <2>2
    <3>2. was.entry = {"TAKEN"}
             \cup (IF start + (k - 1) # start + n - 1 THEN {"HAS_NEXT"} ELSE {})
      BY <3>1 DEF TakenAfter
    <3> HIDE DEF was, here
    <3> QED BY <3>1, <3>2
  <2> QED BY <2>1, <2>2
<1>2. /\ was.entries = [i \in Blocks |->
                          IF i \in start .. (start + (k - 1) - 1) THEN mark(i) ELSE table[i]]
      /\ now.entries = [i \in Blocks |->
                          IF i \in start .. (start + k - 1) THEN mark(i) ELSE table[i]]
  BY DEF TakenAfter
<1>3. now.entries = new
  <2>1. ASSUME NEW i \in Blocks
        PROVE  i \in start .. (start + k - 1)
                 <=> i \in start .. (start + (k - 1) - 1) \/ i = here
    BY <1>0, HeapAssumption DEF Blocks
  <2>2. ASSUME NEW i \in Blocks PROVE now.entries[i] = new[i]
    <3>1. CASE i = here
      <4>1. new[i] = was.entry
        BY <1>2, <2>2, <3>1
      <4> HIDE DEF was, here, now, new
      <4> QED BY <1>1, <1>2, <2>1, <3>1, <4>1
    <3>2. CASE i # here
      <4>1. new[i] = was.entries[i]
        BY <1>2, <3>2
      <4> HIDE DEF was, here, now, new, mark
      <4> QED BY <1>2, <2>1, <3>2, <4>1
    <3> QED BY <3>1, <3>2
  <2>3. now.entries = [i \in Blocks |-> now.entries[i]] /\ new = [i \in Blocks |-> new[i]]
    <3>1. was.entries = [i \in Blocks |-> was.entries[i]]
      BY <1>2
    <3>2. now.entries = [i \in Blocks |-> now.entries[i]]
      BY <1>2
    <3> HIDE DEF was, now, here
    <3> QED BY <3>1, <3>2
  <2> HIDE DEF now, new
  <2> QED BY <2>2, <2>3
<1>4. now.entry = {"TAKEN"} \cup (IF here # (start + n - 1) - 1 THEN {"HAS_NEXT"} ELSE {})
  <2>1. k # 0 /\ (here # (start + n - 1) - 1 <=> start + k # start + n - 1)
    BY <1>0
  <2>2. now.entry = {"TAKEN"} \cup (IF start + k # start + n - 1 THEN {"HAS_NEXT"} ELSE {})
    BY <2>1 DEF TakenAfter
  <2> HIDE DEF now, here
  <2> QED BY <2>1, <2>2
<1>5. now = [entries |-> now.entries, entry |-> now.entry]
  BY DEF TakenAfter
<1>6. now = TakenRound(start, n, was, k)
  <2> HIDE DEF now, was
  <2> QED BY <1>3, <1>4, <1>5 DEF TakenRound
<1> QED BY <1>6

(* The loop of heap_mark_blocks_taken writes what its definition says.     *)
LEMMA TakenLoopAgrees ==
  ASSUME NEW table \in [Blocks -> SUBSET Flags], NEW start \in Blocks, NEW n \in Nat
  PROVE  TakenLoop(table, start, n) = heap_mark_blocks_taken(table, start, n)
<1> DEFINE base == [entries |-> table,
                    entry |-> {"TAKEN", "IS_FIRST"}
                                \cup (IF n > 1 THEN {"HAS_NEXT"} ELSE {})]
           Is(f) == f = [k \in 0 .. n |->
                          IF k = 0 THEN base ELSE TakenRound(start, n, f[k - 1], k)]
           loop == CHOOSE h : Is(h)
           sol == [k \in 0 .. n |-> TakenAfter(table, start, n, k)]
<1>0. start \in Nat
  BY HeapAssumption DEF Blocks
<1>1. TakenAfter(table, start, n, 0) = base
  <2>1. \A i \in Blocks : i \notin start .. (start + 0 - 1)
    BY <1>0
  <2>2. table = [i \in Blocks |-> table[i]]
    OBVIOUS
  <2> QED BY <2>1, <2>2 DEF TakenAfter
<1>2. \A k \in 1 .. n : k - 1 \in 0 .. n /\ k \in 0 .. n /\ k # 0
  OBVIOUS
<1>3. \A k \in 1 .. n : sol[k] = TakenRound(start, n, sol[k - 1], k)
  BY <1>2, TakenRoundAfter
<1>4. Is(sol)
  <2> SUFFICES ASSUME NEW k \in 0 .. n
               PROVE  TakenAfter(table, start, n, k)
                        = IF k = 0 THEN base ELSE TakenRound(start, n, sol[k - 1], k)
    BY Zenon
  <2>1. CASE k = 0
    BY <1>1, <2>1
  <2>2. CASE k # 0
    <3>1. k \in 1 .. n
      BY <2>2
    <3>2. sol[k] = TakenAfter(table, start, n, k)
      OBVIOUS
    <3> HIDE DEF sol
    <3> QED BY <1>3, <2>2, <3>1, <3>2
  <2> QED BY <2>1, <2>2
<1>5. Is(loop)
  <2> HIDE DEF Is, sol
  <2> QED BY <1>4
<1>6. TakenLoop(table, start, n) = loop[n].entries
  BY DEF TakenLoop, TakenRound
<1> HIDE DEF loop
<1>7. \A k \in 0 .. n :
        loop[k] = IF k = 0 THEN base ELSE TakenRound(start, n, loop[k - 1], k)
  <2> HIDE DEF base
  <2> QED BY <1>5, Zenon
<1>8. loop[0] = sol[0] /\ \A k \in 1 .. n : loop[k - 1] = sol[k - 1] => loop[k] = sol[k]
  <2>1. sol[0] = base /\ 0 \in 0 .. n
    BY <1>1
  <2> HIDE DEF base, sol, Is
  <2> QED BY <1>2, <1>3, <1>7, <2>1
<1>9. loop[n] = TakenAfter(table, start, n, n)
  <2>1. sol[n] = TakenAfter(table, start, n, n) /\ n \in 0 .. n
    OBVIOUS
  <2> HIDE DEF sol, Is
  <2> QED BY <1>8, <2>1, SameSteps
<1> QED BY <1>6, <1>9 DEF TakenAfter, heap_mark_blocks_taken

-----------------------------------------------------------------------------
(* A round of the loop of heap_mark_blocks_free, the k-th one.             *)
FreeRound(start, was, k) ==
  IF was.break THEN was
  ELSE [entries |-> [was.entries EXCEPT ![start + k - 1] = FREE],
        break |-> "HAS_NEXT" \notin was.entries[start + k - 1]]

(* What the loop of heap_mark_blocks_free holds after k rounds.            *)
FreeAfter(table, start, k) ==
  [entries |-> [i \in Blocks |->
                  IF /\ i \in start .. (start + k - 1)
                     /\ \A j \in start .. (i - 1) : "HAS_NEXT" \in table[j]
                    THEN FREE ELSE table[i]],
   break |-> \E j \in start .. (start + k - 1) : "HAS_NEXT" \notin table[j]]

(* A round leads from what the loop holds to what it then holds.           *)
LEMMA FreeRoundAfter ==
  ASSUME NEW table, NEW start \in Blocks, NEW k \in 1 .. (Total - start)
  PROVE  FreeAfter(table, start, k) = FreeRound(start, FreeAfter(table, start, k - 1), k)
<1> DEFINE was == FreeAfter(table, start, k - 1)
           here == start + k - 1
           open(i) == \A j \in start .. (i - 1) : "HAS_NEXT" \in table[j]
           now == FreeAfter(table, start, k)
<1>0. start \in Nat /\ k \in Nat /\ k >= 1 /\ here \in Blocks /\ here \in Nat /\ here >= start
  BY HeapAssumption DEF Blocks
<1>1. /\ was.entries = [i \in Blocks |-> IF i \in start .. (start + (k - 1) - 1) /\ open(i)
                                           THEN FREE ELSE table[i]]
      /\ now.entries = [i \in Blocks |-> IF i \in start .. (start + k - 1) /\ open(i)
                                           THEN FREE ELSE table[i]]
  BY DEF FreeAfter
<1>2. /\ was.break <=> \E j \in start .. (start + (k - 1) - 1) : "HAS_NEXT" \notin table[j]
      /\ now.break <=> \E j \in start .. (start + k - 1) : "HAS_NEXT" \notin table[j]
      /\ was = [entries |-> was.entries, break |-> was.break]
      /\ now = [entries |-> now.entries, break |-> now.break]
  BY DEF FreeAfter
<1>3. was.break <=> ~open(here)
  <2>1. start + (k - 1) - 1 = here - 1
    BY <1>0
  <2> HIDE DEF was, here
  <2> QED BY <1>2, <2>1
<1>4. \A i \in Blocks : i \in start .. (start + k - 1)
                          <=> i \in start .. (start + (k - 1) - 1) \/ i = here
  BY <1>0, HeapAssumption DEF Blocks
<1>5. here \notin start .. (start + (k - 1) - 1)
  BY <1>0
<1>6. now.break <=> was.break \/ "HAS_NEXT" \notin table[here]
  <2>1. \A j \in start .. (start + k - 1) :
          j \in start .. (start + (k - 1) - 1) \/ j = here
    BY <1>0
  <2>2. \A j \in start .. (start + (k - 1) - 1) : j \in start .. (start + k - 1)
    BY <1>0
  <2>3. here \in start .. (start + k - 1)
    BY <1>0
  <2> HIDE DEF was, now, here
  <2> QED BY <1>2, <2>1, <2>2, <2>3
<1> SUFFICES now = FreeRound(start, was, k)
  OBVIOUS
<1>7. CASE was.break
  <2>1. ~open(here)
    BY <1>3, <1>7
  <2>2. now.entries = was.entries
    <3> HIDE DEF was, now, here, open
    <3> QED BY <1>1, <1>4, <2>1
  <2>3. now.break = was.break
    BY <1>2, <1>6, <1>7 DEF FreeAfter
  <2> HIDE DEF was, now
  <2> QED BY <1>2, <1>7, <2>2, <2>3 DEF FreeRound
<1>8. CASE ~was.break
  <2>1. open(here)
    BY <1>3, <1>8
  <2>2. now.entries = [was.entries EXCEPT ![here] = FREE]
    <3> HIDE DEF was, now, here, open
    <3> QED BY <1>0, <1>1, <1>4, <2>1
  <2>3. was.entries[here] = table[here]
    <3> HIDE DEF was, now, here, open
    <3> QED BY <1>0, <1>1, <1>5
  <2>4. now.break = ("HAS_NEXT" \notin was.entries[here])
    <3>1. now.break \in BOOLEAN
      BY DEF FreeAfter
    <3> HIDE DEF was, now, here, open
    <3> QED BY <1>6, <1>8, <2>3, <3>1
  <2> HIDE DEF was, now
  <2> QED BY <1>2, <1>8, <2>2, <2>4 DEF FreeRound
<1> QED BY <1>7, <1>8

(* The loop of heap_mark_blocks_free clears what its definition says.      *)
LEMMA FreeLoopAgrees ==
  ASSUME NEW table \in [Blocks -> SUBSET Flags], NEW start \in Blocks
  PROVE  FreeLoop(table, start) = heap_mark_blocks_free(table, start)
<1> DEFINE n == Total - start
           base == [entries |-> table, break |-> FALSE]
           Is(f) == f = [k \in 0 .. n |->
                          IF k = 0 THEN base ELSE FreeRound(start, f[k - 1], k)]
           loop == CHOOSE h : Is(h)
           sol == [k \in 0 .. n |-> FreeAfter(table, start, k)]
<1>0. start \in Nat /\ n \in Nat
  BY HeapAssumption DEF Blocks
<1>1. FreeAfter(table, start, 0) = base
  <2>1. start .. (start + 0 - 1) = {}
    BY <1>0
  <2>2. table = [i \in Blocks |-> table[i]]
    OBVIOUS
  <2> QED BY <2>1, <2>2 DEF FreeAfter
<1>6. FreeLoop(table, start) = loop[n].entries
  BY DEF FreeLoop, FreeRound
<1>2. \A k \in 1 .. n : k - 1 \in 0 .. n /\ k \in 0 .. n /\ k # 0
  BY <1>0
<1>3. \A k \in 1 .. n : sol[k] = FreeRound(start, sol[k - 1], k)
  BY <1>2, FreeRoundAfter
<1>4. Is(sol)
  <2> SUFFICES ASSUME NEW k \in 0 .. n
               PROVE  FreeAfter(table, start, k)
                        = IF k = 0 THEN base ELSE FreeRound(start, sol[k - 1], k)
    BY Zenon
  <2>1. CASE k = 0
    BY <1>1, <2>1
  <2>2. CASE k # 0
    <3>1. k \in 1 .. n
      BY <1>0, <2>2
    <3>2. sol[k] = FreeAfter(table, start, k)
      OBVIOUS
    <3> HIDE DEF sol
    <3> QED BY <1>3, <2>2, <3>1, <3>2
  <2> QED BY <2>1, <2>2
<1>5. Is(loop)
  <2> HIDE DEF Is, sol
  <2> QED BY <1>4
<1> HIDE DEF loop
<1>7. \A k \in 0 .. n :
        loop[k] = IF k = 0 THEN base ELSE FreeRound(start, loop[k - 1], k)
  <2> HIDE DEF base, n
  <2> QED BY <1>5, Zenon
<1>8. loop[0] = sol[0] /\ \A k \in 1 .. n : loop[k - 1] = sol[k - 1] => loop[k] = sol[k]
  <2>1. sol[0] = base /\ 0 \in 0 .. n
    BY <1>0, <1>1
  <2> HIDE DEF base, sol, Is, n
  <2> QED BY <1>2, <1>3, <1>7, <2>1
<1>9. loop[n] = FreeAfter(table, start, n)
  <2>1. sol[n] = FreeAfter(table, start, n) /\ n \in 0 .. n
    BY <1>0
  <2> HIDE DEF sol, Is, n
  <2> QED BY <1>0, <1>8, <2>1, SameSteps
<1>10. \A i \in Blocks : i \in start .. (start + n - 1) <=> i >= start
  BY <1>0, HeapAssumption DEF Blocks
<1> HIDE DEF n
<1> QED BY <1>6, <1>9, <1>10 DEF FreeAfter, heap_mark_blocks_free

(* The loops of heap.c compute what Heap defines, whatever the table: the  *)
(* scan of heap_get_start_block, also for 0 blocks and for more than there *)
(* are, and the two loops that mark a run taken and free.                  *)
THEOREM HeapLoopsAgree == Spec => []LoopsAgree
<1> DEFINE Typed == entries \in [Blocks -> SUBSET Flags]
<1>1. Typed => LoopsAgree
  <2> SUFFICES ASSUME Typed PROVE LoopsAgree
    OBVIOUS
  <2>1. \A n \in 0 .. (Total + 1) : n \in Nat
    OBVIOUS
  <2> QED BY <2>1, ScanLoopAgrees, TakenLoopAgrees, FreeLoopAgrees DEF LoopsAgree
<1>2. Init => Typed
  BY DEF Init, FREE
<1>3. Typed /\ [Next]_vars => Typed'
  <2> SUFFICES ASSUME Typed, [Next]_vars PROVE Typed'
    OBVIOUS
  <2>1. ASSUME NEW s, NEW n PROVE heap_mark_blocks_taken(entries, s, n) \in [Blocks -> SUBSET Flags]
    BY DEF heap_mark_blocks_taken, Flags
  <2>2. ASSUME NEW b PROVE heap_mark_blocks_free(entries, b) \in [Blocks -> SUBSET Flags]
    BY DEF heap_mark_blocks_free, FREE
  <2> QED BY <2>1, <2>2 DEF Next, kmalloc, kmalloc_ENOMEM, kfree, vars
<1> QED BY <1>1, <1>2, <1>3, PTL DEF Spec
=============================================================================
