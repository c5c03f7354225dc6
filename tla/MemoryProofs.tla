---------------------------- MODULE MemoryProofs ----------------------------
(***************************************************************************)
(* The memory of processes, for every size of the heap, of the programs    *)
(* and of the arrays of allocations, and any number of processes.          *)
(***************************************************************************)
EXTENDS ProcessMemory, HeapProofs, Foundations, FunctionTheorems, FiniteSetTheorems,
        SequenceTheorems

-----------------------------------------------------------------------------
(* What a system call works on.                                            *)

Pieces == Blocks \X Requests

MemType ==
  [entries : [Blocks -> SUBSET Flags], live : SUBSET Pieces,
   allocs : [Indexes -> Pieces \cup {Empty}], pages : SUBSET Int,
   wild : SUBSET {Null}, got : Seq(Pieces \cup {Empty})]

(* The pieces that an array of allocations lists.                          *)
Grants(allocs) == {allocs[i] : i \in Indexes} \ {Empty}

(* The pages of a set of pieces.                                           *)
Cover(D) == UNION {Span(a) : a \in D}

(* The heap is sound and the array lists pieces of it, each once.          *)
Good(M) ==
  /\ M \in MemType
  /\ Sound(M.entries, M.live)
  /\ Grants(M.allocs) \subseteq M.live
  /\ \A i, j \in Indexes : M.allocs[i] # Empty /\ M.allocs[i] = M.allocs[j] => i = j

(* From M to N only new pieces have come, in the array and in the pages.   *)
Grown(M, N) ==
  /\ Good(N)
  /\ M.live \subseteq N.live
  /\ Grants(N.allocs) = Grants(M.allocs) \cup (N.live \ M.live)
  /\ N.pages = M.pages \cup Cover(N.live \ M.live)
  /\ N.wild = M.wild
  /\ Granted(N) = Granted(M) \cup (N.live \ M.live)

(* A piece of the heap is not the empty entry of an array.                 *)
LEMMA PieceNotEmpty ==
  ASSUME NEW a \in Pieces
  PROVE  a # Empty /\ a[1] # Null /\ a[1] \in Blocks /\ a[2] \in Requests
<1>1. a[1] \in Int /\ 0 <= a[1]
  BY PieceType DEF Pieces
<1>2. a[1] # Null
  BY <1>1 DEF Null
<1>3. Empty[1] = Null
  BY DEF Empty
<1>4. a[1] \in Blocks /\ a[2] \in Requests
  BY DEF Pieces
<1> QED BY <1>2, <1>3, <1>4

(* Two pieces of a sound heap that start at the same block are the same.   *)
LEMMA SamePlace ==
  ASSUME NEW T, NEW L, Sound(T, L), NEW a \in L, NEW b \in L, a[1] = b[1]
  PROVE  a = b
<1>1. /\ a[1] \in Int /\ a[2] \in Int /\ b[2] \in Int /\ a[2] > 0 /\ b[2] > 0
  BY PieceType DEF Sound
<1>2. a[1] \in Span(a) /\ a[1] \in Span(b)
  BY <1>1 DEF Span
<1> QED BY <1>2 DEF Sound

Elements(s) == {s[i] : i \in DOMAIN s}

(* What Append adds to the elements of a sequence.                         *)
LEMMA AppendedElements ==
  ASSUME NEW S, NEW s \in Seq(S), NEW x \in S
  PROVE  /\ Append(s, x) \in Seq(S)
         /\ Elements(Append(s, x)) = Elements(s) \cup {x}
<1> DEFINE q == Append(s, x)
<1>1. /\ q \in Seq(S) /\ Len(q) = Len(s) + 1 /\ Len(s) \in Nat
      /\ \A i \in 1 .. Len(s) : q[i] = s[i]
      /\ q[Len(s) + 1] = x
      /\ DOMAIN q = 1 .. (Len(s) + 1) /\ DOMAIN s = 1 .. Len(s)
  BY AppendProperties
<1> HIDE DEF q
<1>2. {q[i] : i \in 1 .. (Len(s) + 1)} = {s[i] : i \in 1 .. Len(s)} \cup {x}
  <2>1. 1 .. (Len(s) + 1) = (1 .. Len(s)) \cup {Len(s) + 1}
    BY <1>1
  <2> QED BY <1>1, <2>1
<1>3. {q[i] : i \in DOMAIN q} = {s[i] : i \in DOMAIN s} \cup {x}
  BY <1>1, <1>2
<1> QED BY <1>1, <1>3 DEF q, Elements

(* process_find_free_allocation_index finds at most one entry, an empty    *)
(* one.                                                                    *)
LEMMA FreeIndex ==
  ASSUME NEW M, Good(M), NEW k \in process_find_free_allocation_index(M.allocs)
  PROVE  /\ k \in Indexes /\ M.allocs[k] = Empty
         /\ process_find_free_allocation_index(M.allocs) = {k}
<1>1. /\ k \in Indexes /\ M.allocs[k][1] = Null
      /\ \A j \in 0 .. (k - 1) : M.allocs[j][1] # Null
  BY DEF process_find_free_allocation_index
<1>2. M.allocs[k] \in Pieces \cup {Empty}
  BY <1>1 DEF Good, MemType
<1>3. M.allocs[k] = Empty
  BY <1>1, <1>2, PieceNotEmpty
<1>4. ASSUME NEW i \in process_find_free_allocation_index(M.allocs) PROVE i = k
  <2>1. /\ i \in Indexes /\ M.allocs[i][1] = Null
        /\ \A j \in 0 .. (i - 1) : M.allocs[j][1] # Null
    BY DEF process_find_free_allocation_index
  <2>2. i \in Int /\ k \in Int /\ i >= 0 /\ k >= 0
    BY <1>1, <2>1, MemoryAssumption DEF Indexes
  <2>3. ~(i < k) /\ ~(k < i)
    BY <1>1, <2>1, <2>2
  <2> QED BY <2>2, <2>3
<1> QED BY <1>1, <1>3, <1>4

-----------------------------------------------------------------------------
(* process_malloc gives a new piece, or nothing.                           *)
LEMMA MallocGrows ==
  ASSUME NEW M, Good(M), NEW n \in Requests, n > 0
  PROVE  Grown(M, process_malloc(M, n))
<1> DEFINE N == process_malloc(M, n)
           s == CHOOSE x \in Start(M.entries, n) : TRUE
           a == <<s, n>>
           table == heap_mark_blocks_taken(M.entries, s, n)
           index == process_find_free_allocation_index(M.allocs)
<1>0. /\ M \in MemType /\ Sound(M.entries, M.live) /\ Grants(M.allocs) \subseteq M.live
      /\ M.live \subseteq Pieces /\ M.allocs \in [Indexes -> Pieces \cup {Empty}]
      /\ M.got \in Seq(Pieces \cup {Empty}) /\ M.pages \subseteq Int /\ M.wild \subseteq {Null}
      /\ M.entries \in [Blocks -> SUBSET Flags]
      /\ \A i, j \in Indexes : M.allocs[i] # Empty /\ M.allocs[i] = M.allocs[j] => i = j
  BY DEF Good, MemType
<1>1. M = [entries |-> M.entries, live |-> M.live, allocs |-> M.allocs,
           pages |-> M.pages, wild |-> M.wild, got |-> M.got]
  BY <1>0 DEF MemType
<1>2. /\ Append(M.got, Empty) \in Seq(Pieces \cup {Empty})
      /\ Elements(Append(M.got, Empty)) = Elements(M.got) \cup {Empty}
  <2>1. Empty \in Pieces \cup {Empty}
    OBVIOUS
  <2> QED BY <1>0, <2>1, AppendedElements
<1>3. ASSUME NEW E, Sound(E, M.live),
             N = [entries |-> E, live |-> M.live, allocs |-> M.allocs,
                  pages |-> M.pages, wild |-> M.wild, got |-> Append(M.got, Empty)]
      PROVE  Grown(M, N)
  <2> HIDE DEF N
  <2>1. /\ N.entries = E /\ N.live = M.live /\ N.allocs = M.allocs
        /\ N.pages = M.pages /\ N.wild = M.wild /\ N.got = Append(M.got, Empty)
    BY <1>3
  <2>2. E \in [Blocks -> SUBSET Flags]
    BY <1>3 DEF Sound
  <2>3. N \in MemType
    BY <1>0, <1>2, <1>3, <2>2 DEF MemType
  <2>4. Good(N)
    BY <1>0, <1>3, <2>1, <2>3 DEF Good
  <2>5. Granted(N) = Granted(M)
    BY <1>2, <2>1 DEF Granted, Elements
  <2>6. N.live \ M.live = {} /\ Cover({}) = {}
    BY <2>1 DEF Cover
  <2> QED BY <2>1, <2>4, <2>5, <2>6 DEF Grown
<1>4. CASE Start(M.entries, n) = {}
  <2>1. N = [entries |-> M.entries, live |-> M.live, allocs |-> M.allocs,
             pages |-> M.pages, wild |-> M.wild, got |-> Append(M.got, Empty)]
    BY <1>1, <1>4 DEF process_malloc
  <2> QED BY <1>0, <1>3, <2>1
<1>5. CASE Start(M.entries, n) # {}
  <2>1. s \in Blocks /\ heap_get_start_block(M.entries, n, s)
    BY <1>5 DEF Start
  <2> HIDE DEF s
  <2>2. Sound(table, M.live \cup {a}) /\ a \notin M.live
    BY <1>0, <2>1, TakeSound
  <2>3. a \in Pieces /\ a # Empty /\ a[1] = s
    <3>1. a \in Pieces
      BY <2>1 DEF Pieces
    <3> QED BY <3>1, PieceNotEmpty
  <2>4. CASE index = {}
    <3> DEFINE E == heap_mark_blocks_free(table, s)
    <3>1. Sound(E, M.live)
      <4>1. a \in M.live \cup {a} /\ (M.live \cup {a}) \ {a} = M.live
        BY <2>2
      <4> HIDE DEF a, table
      <4>2. Sound(heap_mark_blocks_free(table, a[1]), (M.live \cup {a}) \ {a})
        BY <2>2, <4>1, FreeSound
      <4> QED BY <2>3, <4>1, <4>2
    <3>2. N = [entries |-> E, live |-> M.live, allocs |-> M.allocs,
               pages |-> M.pages, wild |-> M.wild, got |-> Append(M.got, Empty)]
      BY <1>1, <1>5, <2>4 DEF process_malloc, s
    <3> HIDE DEF E
    <3> QED BY <1>3, <3>1, <3>2
  <2>5. CASE index # {}
    <3> DEFINE al == [i \in Indexes |-> IF i \in index THEN a ELSE M.allocs[i]]
    <3>1. N = [entries |-> table, live |-> M.live \cup {a}, allocs |-> al,
               pages |-> M.pages \cup Span(a), wild |-> M.wild, got |-> Append(M.got, a)]
      BY <1>1, <1>5, <2>5 DEF process_malloc, s
    <3> HIDE DEF a, table, N
    <3>2. PICK k \in index : TRUE
      BY <2>5
    <3>3. k \in Indexes /\ M.allocs[k] = Empty /\ index = {k}
      BY <3>2, FreeIndex
    <3>4. al \in [Indexes -> Pieces \cup {Empty}] /\ al[k] = a
          /\ \A i \in Indexes \ {k} : al[i] = M.allocs[i]
      BY <1>0, <2>3, <3>3
    <3>5. Grants(al) = Grants(M.allocs) \cup {a}
      <4> HIDE DEF al
      <4> QED BY <2>3, <3>3, <3>4 DEF Grants
    <3>6. \A i, j \in Indexes : al[i] # Empty /\ al[i] = al[j] => i = j
      <4> HIDE DEF al
      <4>1. \A i \in Indexes : M.allocs[i] # a
        BY <1>0, <2>2, <2>3 DEF Grants
      <4> QED BY <1>0, <3>4, <4>1
    <3>7. /\ Append(M.got, a) \in Seq(Pieces \cup {Empty})
          /\ Elements(Append(M.got, a)) = Elements(M.got) \cup {a}
      <4>1. a \in Pieces \cup {Empty}
        BY <2>3
      <4> QED BY <1>0, <4>1, AppendedElements
    <3> HIDE DEF al
    <3>8. /\ N.entries = table /\ N.live = M.live \cup {a} /\ N.allocs = al
          /\ N.pages = M.pages \cup Span(a) /\ N.wild = M.wild /\ N.got = Append(M.got, a)
      BY <3>1
    <3>9. Span(a) \subseteq Int
      BY <2>3, PieceType DEF Span, Pieces
    <3>10. N \in MemType
      <4>1. table \in [Blocks -> SUBSET Flags]
        BY <2>2 DEF Sound
      <4> QED BY <1>0, <2>3, <3>1, <3>4, <3>7, <3>9, <4>1 DEF MemType
    <3>11. Good(N)
      BY <1>0, <2>2, <3>5, <3>6, <3>8, <3>10 DEF Good
    <3>12. N.live \ M.live = {a} /\ Cover({a}) = Span(a)
      BY <2>2, <3>8 DEF Cover
    <3>13. Granted(N) = Granted(M) \cup {a}
      <4>1. Granted(N) = Elements(N.got) \ {Empty} /\ Granted(M) = Elements(M.got) \ {Empty}
        BY DEF Granted, Elements
      <4> QED BY <2>3, <3>7, <3>8, <4>1
    <3>14. Grown(M, N)
      BY <3>5, <3>8, <3>11, <3>12, <3>13 DEF Grown
    <3> QED BY <3>14 DEF N
  <2> QED BY <2>4, <2>5
<1> QED BY <1>4, <1>5

(* Growth of growth is growth.                                             *)
LEMMA GrownTransitive ==
  ASSUME NEW M, NEW N, NEW O, Grown(M, N), Grown(N, O)
  PROVE  Grown(M, O)
<1>1. /\ Good(O) /\ M.live \subseteq N.live /\ N.live \subseteq O.live /\ O.wild = M.wild
      /\ Grants(N.allocs) = Grants(M.allocs) \cup (N.live \ M.live)
      /\ Grants(O.allocs) = Grants(N.allocs) \cup (O.live \ N.live)
      /\ N.pages = M.pages \cup Cover(N.live \ M.live)
      /\ O.pages = N.pages \cup Cover(O.live \ N.live)
      /\ Granted(N) = Granted(M) \cup (N.live \ M.live)
      /\ Granted(O) = Granted(N) \cup (O.live \ N.live)
  BY DEF Grown
<1>2. O.live \ M.live = (N.live \ M.live) \cup (O.live \ N.live)
  BY <1>1
<1>3. Cover((N.live \ M.live) \cup (O.live \ N.live))
        = Cover(N.live \ M.live) \cup Cover(O.live \ N.live)
  BY DEF Cover
<1> QED BY <1>1, <1>2, <1>3 DEF Grown

(* What grows not at all.                                                  *)
LEMMA GrownReflexive ==
  ASSUME NEW M, Good(M)
  PROVE  Grown(M, M)
<1>1. Cover({}) = {} /\ M.live \ M.live = {}
  BY DEF Cover
<1> QED BY <1>1 DEF Grown

(* process_inject_arguments gives new pieces only.                         *)
LEMMA InjectGrows ==
  ASSUME NEW M, Good(M), NEW argc \in Nat, 0 \notin Requests
  PROVE  Grown(M, process_inject_arguments(M, argc))
<1> DEFINE S == {X \in MemType : Grown(M, X)}
           next(X) == IF Empty \in {X.got[k] : k \in DOMAIN X.got} THEN X
                      ELSE process_malloc(X, 1)
           step == [n \in Nat |-> [X \in S |-> next(X)]]
           Is(f) == f = [i \in 0 .. (argc + 1) |->
                           IF i = 0 THEN M
                           ELSE IF Empty \in {f[i - 1].got[k] : k \in DOMAIN f[i - 1].got}
                                  THEN f[i - 1] ELSE process_malloc(f[i - 1], 1)]
           after == CHOOSE f : Is(f)
<1>0. 1 \in Requests /\ M \in S /\ argc + 1 \in Nat /\ argc + 1 \in 0 .. (argc + 1)
  BY MemoryAssumption, GrownReflexive DEF Good
<1>1. ASSUME NEW X \in S PROVE next(X) \in S
  <2>1. Grown(X, process_malloc(X, 1))
    BY <1>0, MallocGrows DEF Grown
  <2>2. Grown(M, process_malloc(X, 1))
    BY <2>1, GrownTransitive
  <2>3. process_malloc(X, 1) \in MemType
    BY <2>1 DEF Grown, Good
  <2> QED BY <2>2, <2>3
<1>2. step \in [Nat -> [S -> S]]
  BY <1>1
<1>3. PICK g : Iterates(g, S, M, step, argc + 1)
  <2> HIDE DEF S, step
  <2> QED BY <1>0, <1>2, Recursion
<1>4. /\ g \in [0 .. (argc + 1) -> S] /\ g[0] = M
      /\ \A i \in 1 .. (argc + 1) : g[i] = next(g[i - 1])
  <2> HIDE DEF next, S
  <2>1. /\ g \in [0 .. (argc + 1) -> S] /\ g[0] = M
        /\ \A i \in 1 .. (argc + 1) : g[i] = step[i][g[i - 1]]
    BY <1>3 DEF Iterates
  <2>2. ASSUME NEW i \in 1 .. (argc + 1) PROVE i \in Nat /\ g[i - 1] \in S
    BY <2>1
  <2> QED BY <2>1, <2>2
<1> HIDE DEF S
<1>5. Is(g)
  <2> SUFFICES ASSUME NEW i \in 0 .. (argc + 1)
               PROVE  g[i] = IF i = 0 THEN M ELSE next(g[i - 1])
    BY <1>4
  <2>1. i # 0 => i \in 1 .. (argc + 1)
    OBVIOUS
  <2> QED BY <1>4, <2>1
<1>6. Is(after)
  <2> HIDE DEF Is
  <2> QED BY <1>5
<1> HIDE DEF after
<1>7. \A i \in 0 .. (argc + 1) : after[i] \in S
  <2>0. /\ after[0] = M
        /\ \A i \in 1 .. (argc + 1) : after[i] = next(after[i - 1])
    <3>1. 0 \in 0 .. (argc + 1)
      BY <1>0
    <3>2. \A i \in 1 .. (argc + 1) : i \in 0 .. (argc + 1) /\ i # 0
      BY <1>0
    <3> QED BY <1>6, <3>1, <3>2
  <2> HIDE DEF next, Is
  <2> DEFINE T == {i \in 0 .. (argc + 1) : after[i] \notin S}
  <2> SUFFICES ASSUME T # {} PROVE FALSE
    OBVIOUS
  <2>1. T \subseteq Nat
    BY <1>0
  <2>2. PICK m \in T : \A y \in T : m <= y
    <3> HIDE DEF T
    <3> QED BY <2>1, NatMinimum
  <2>3. m # 0
    BY <1>0, <2>0
  <2>4. m \in 1 .. (argc + 1) /\ m - 1 \in 0 .. (argc + 1) /\ ~(m <= m - 1)
    BY <1>0, <2>3
  <2>5. after[m - 1] \in S
    BY <2>2, <2>4
  <2>6. after[m] \in S
    BY <1>1, <2>0, <2>4, <2>5
  <2> QED BY <2>6
<1>8. process_inject_arguments(M, argc) = IF argc = 0 THEN M ELSE after[argc + 1]
  BY DEF process_inject_arguments, after
<1> QED BY <1>0, <1>7, <1>8 DEF S

-----------------------------------------------------------------------------
(* The pieces that start at block ptr.                                     *)
At(D, ptr) == {a \in D : a[1] = ptr}

(* From M to N the pieces D of the array have gone, and their pages.       *)
Shrunk(M, N, D) ==
  /\ Good(N)
  /\ N.live = M.live \ D
  /\ Grants(N.allocs) = Grants(M.allocs) \ D
  /\ N.pages = M.pages \ Cover(D)

(* kfree of a piece that no array lists.                                   *)
LEMMA KfreeShrinks ==
  ASSUME NEW M, Good(M), NEW a \in M.live, a \notin Grants(M.allocs)
  PROVE  LET N == kfree_allocation(M, a)
         IN  /\ Good(N) /\ N.live = M.live \ {a} /\ N.allocs = M.allocs
             /\ N.pages = M.pages
<1> DEFINE N == kfree_allocation(M, a)
           E == heap_mark_blocks_free(M.entries, a[1])
<1>0. /\ M \in MemType /\ Sound(M.entries, M.live) /\ Grants(M.allocs) \subseteq M.live
      /\ M.live \subseteq Pieces /\ a \in Pieces
      /\ \A i, j \in Indexes : M.allocs[i] # Empty /\ M.allocs[i] = M.allocs[j] => i = j
  BY DEF Good, MemType
<1>1. M = [entries |-> M.entries, live |-> M.live, allocs |-> M.allocs,
           pages |-> M.pages, wild |-> M.wild, got |-> M.got]
  BY <1>0 DEF MemType
<1>2. a[1] # Null
  BY <1>0, PieceNotEmpty
<1>3. N = [entries |-> E, live |-> M.live \ {a}, allocs |-> M.allocs,
           pages |-> M.pages, wild |-> M.wild, got |-> M.got]
  BY <1>1, <1>2 DEF kfree_allocation
<1>4. Sound(E, M.live \ {a})
  BY <1>0, FreeSound
<1>5. E \in [Blocks -> SUBSET Flags]
  BY <1>4 DEF Sound
<1> HIDE DEF N, E
<1>6. N \in MemType
  BY <1>0, <1>3, <1>5 DEF MemType
<1>7. N.entries = E /\ N.live = M.live \ {a} /\ N.allocs = M.allocs /\ N.pages = M.pages
  BY <1>3
<1>8. Good(N)
  BY <1>0, <1>4, <1>6, <1>7 DEF Good
<1> QED BY <1>7, <1>8 DEF N

(* process_free takes back the piece at ptr, if the array lists one, and   *)
(* nothing else; with an empty entry and the null pointer it only calls    *)
(* kfree below the heap.                                                   *)
LEMMA FreeShrinks ==
  ASSUME NEW M, Good(M), NEW ptr
  PROVE  /\ Shrunk(M, process_free(M, ptr), At(Grants(M.allocs), ptr))
         /\ \A i \in Indexes :
              process_free(M, ptr).allocs[i]
                = IF M.allocs[i][1] = ptr THEN Empty ELSE M.allocs[i]
<1> DEFINE N == process_free(M, ptr)
           matches == {i \in Indexes : M.allocs[i][1] = ptr}
           k == First(matches)
           a == M.allocs[k]
           al == unjoin(M.allocs, ptr)
           D == At(Grants(M.allocs), ptr)
<1>0. /\ M \in MemType /\ Sound(M.entries, M.live) /\ Grants(M.allocs) \subseteq M.live
      /\ M.live \subseteq Pieces /\ M.allocs \in [Indexes -> Pieces \cup {Empty}]
      /\ M.pages \subseteq Int /\ M.wild \subseteq {Null}
      /\ \A i, j \in Indexes : M.allocs[i] # Empty /\ M.allocs[i] = M.allocs[j] => i = j
  BY DEF Good, MemType
<1>1. M = [entries |-> M.entries, live |-> M.live, allocs |-> M.allocs,
           pages |-> M.pages, wild |-> M.wild, got |-> M.got]
  BY <1>0 DEF MemType
<1>2. \A i \in Indexes : al[i] = IF M.allocs[i][1] = ptr THEN Empty ELSE M.allocs[i]
  BY DEF unjoin
<1>3. al \in [Indexes -> Pieces \cup {Empty}]
  BY <1>0 DEF unjoin
<1>4. Grants(al) = Grants(M.allocs) \ D
  <2> HIDE DEF al
  <2> QED BY <1>2 DEF Grants, At
<1>5. \A i, j \in Indexes : al[i] # Empty /\ al[i] = al[j] => i = j
  <2> HIDE DEF al
  <2> QED BY <1>0, <1>2
<1> HIDE DEF al
<1>6. CASE matches = {}
  <2>1. N = M
    BY <1>6 DEF process_free
  <2>2. D = {} /\ Cover({}) = {}
    BY <1>6 DEF At, Grants, Cover
  <2>3. \A i \in Indexes : M.allocs[i][1] # ptr
    BY <1>6
  <2> HIDE DEF D
  <2>4. Shrunk(M, M, D)
    BY <2>2 DEF Shrunk
  <2> HIDE DEF N
  <2> QED BY <2>1, <2>3, <2>4 DEF N, D
<1>7. CASE matches # {}
  <2>1. k \in matches
    <3>1. matches \subseteq Nat
      BY MemoryAssumption DEF Indexes
    <3> HIDE DEF matches
    <3>2. \E i \in matches : \A j \in matches : i <= j
      BY <1>7, <3>1, NatMinimum
    <3> QED BY <3>2 DEF First
  <2> HIDE DEF k
  <2>2. k \in Indexes /\ a[1] = ptr /\ a \in Pieces \cup {Empty}
    BY <1>0, <2>1
  <2> DEFINE P == [entries |-> M.entries, live |-> M.live, allocs |-> al,
                   pages |-> M.pages \ Span(a), wild |-> M.wild, got |-> M.got]
  <2>3. N = kfree_allocation(P, a)
    <3>1. PICK Q : /\ Q = [M EXCEPT !.pages = @ \ Span(a), !.allocs = unjoin(@, ptr)]
                   /\ N = kfree_allocation(Q, a)
      BY <1>7, Zenon DEF process_free, k
    <3> HIDE DEF a, N
    <3>2. Q = P
      BY <1>1, <3>1 DEF al
    <3> QED BY <3>1, <3>2
  <2> HIDE DEF a, N
  <2>4. P.entries = M.entries /\ P.live = M.live /\ P.allocs = al
        /\ P.pages = M.pages \ Span(a) /\ P.wild = M.wild /\ P.got = M.got
    OBVIOUS
  <2>5. P \in MemType
    BY <1>0, <1>3 DEF MemType
  <2>6. Grants(al) \subseteq M.live
    BY <1>0, <1>4
  <2> HIDE DEF P
  <2>7. Good(P)
    BY <1>0, <1>5, <2>4, <2>5, <2>6 DEF Good
  <2>8. CASE a = Empty
    <3>1. ptr = Null /\ Span(a) = {}
      <4>1. Empty[1] = -1 /\ Empty[2] = 0
        BY DEF Empty, Null
      <4> QED BY <2>2, <2>8, <4>1 DEF Span, Null
    <3>2. D = {} /\ Cover({}) = {}
      <4>1. \A b \in Grants(M.allocs) : b[1] # Null
        BY <1>0, PieceNotEmpty
      <4> QED BY <3>1, <4>1 DEF At, Cover
    <3>3. a[1] = Null
      BY <2>2, <3>1
    <3>4. P = [entries |-> P.entries, live |-> P.live, allocs |-> P.allocs,
               pages |-> P.pages, wild |-> P.wild, got |-> P.got]
      BY <2>5 DEF MemType
    <3>5. N = [entries |-> P.entries, live |-> P.live, allocs |-> P.allocs,
               pages |-> P.pages, wild |-> P.wild \cup {a[1]}, got |-> P.got]
      BY <2>3, <3>3, <3>4 DEF kfree_allocation
    <3>6. N \in MemType
      BY <2>5, <3>3, <3>5 DEF MemType
    <3>7. N.entries = P.entries /\ N.live = P.live /\ N.allocs = P.allocs /\ N.pages = P.pages
      BY <3>5
    <3>8. Good(N)
      BY <2>7, <3>6, <3>7 DEF Good
    <3> HIDE DEF D
    <3>9. Shrunk(M, N, D)
      BY <1>4, <2>4, <3>1, <3>2, <3>7, <3>8 DEF Shrunk
    <3>10. \A i \in Indexes : N.allocs[i] = IF M.allocs[i][1] = ptr THEN Empty ELSE M.allocs[i]
      BY <1>2, <2>4, <3>7
    <3> QED BY <3>9, <3>10 DEF N, D
  <2>9. CASE a # Empty
    <3>1. a \in Grants(M.allocs) /\ a \in M.live /\ a \in Pieces
      BY <1>0, <2>2, <2>9 DEF Grants, a
    <3>2. D = {a} /\ Cover({a}) = Span(a)
      <4>1. \A b \in Grants(M.allocs) : b[1] = a[1] => b = a
        BY <1>0, <3>1, SamePlace
      <4> QED BY <2>2, <3>1, <4>1 DEF At, Cover
    <3>3. a \notin Grants(P.allocs) /\ a \in P.live
      BY <1>4, <2>4, <3>1, <3>2
    <3> HIDE DEF D
    <3>4. Good(N) /\ N.live = P.live \ {a} /\ N.allocs = P.allocs /\ N.pages = P.pages
      BY <2>3, <2>7, <3>3, KfreeShrinks, Zenon
    <3>5. Shrunk(M, N, D)
      BY <1>4, <2>4, <3>2, <3>4 DEF Shrunk
    <3>6. \A i \in Indexes : N.allocs[i] = IF M.allocs[i][1] = ptr THEN Empty ELSE M.allocs[i]
      BY <1>2, <2>4, <3>4
    <3> QED BY <3>5, <3>6 DEF N, D
  <2> QED BY <2>8, <2>9
<1> QED BY <1>6, <1>7

(* What has gone from M to X are pieces of the array, and the array of X   *)
(* lists those that are left.                                              *)
Left(M, X) ==
  /\ Good(X)
  /\ X.live \subseteq M.live
  /\ M.live \ X.live \subseteq Grants(M.allocs)
  /\ Grants(X.allocs) = Grants(M.allocs) \cap X.live

(* process_terminate_allocations takes back every piece of the array.      *)
LEMMA TerminateFrees ==
  ASSUME NEW M, Good(M)
  PROVE  LET N == process_terminate_allocations(M)
         IN  /\ Good(N) /\ N.live = M.live \ Grants(M.allocs) /\ Grants(N.allocs) = {}
<1> DEFINE m == MaxAllocations
           S == {X \in MemType : Left(M, X)}
           next(X, i) == process_free(X, X.allocs[i - 1][1])
           step == [n \in Nat |-> [X \in S |-> next(X, n)]]
           Is(f) == f = [i \in 0 .. MaxAllocations |->
                           IF i = 0 THEN M
                           ELSE process_free(f[i - 1], f[i - 1].allocs[i - 1][1])]
           after == CHOOSE f : Is(f)
<1>0. m \in Nat /\ M \in S /\ m \in 0 .. m /\ Indexes = 0 .. (m - 1)
  BY MemoryAssumption DEF Good, Left, Indexes
<1>1. ASSUME NEW X \in S, NEW i PROVE next(X, i) \in S
  <2> DEFINE ptr == X.allocs[i - 1][1]
             N == process_free(X, ptr)
             D == At(Grants(X.allocs), ptr)
  <2>1. Shrunk(X, N, D)
    BY FreeShrinks DEF Left
  <2>2. D \subseteq Grants(X.allocs)
    BY DEF At
  <2> HIDE DEF D, N
  <2>3. Left(M, N)
    BY <2>1, <2>2 DEF Left, Shrunk
  <2>4. N \in MemType
    BY <2>1 DEF Shrunk, Good
  <2> QED BY <2>3, <2>4 DEF N
<1>2. step \in [Nat -> [S -> S]]
  <2> HIDE DEF next, S
  <2> QED BY <1>1
<1>3. PICK g : Iterates(g, S, M, step, m)
  <2> HIDE DEF S, step
  <2> QED BY <1>0, <1>2, Recursion
<1>4. /\ g \in [0 .. m -> S] /\ g[0] = M
      /\ \A i \in 1 .. m : g[i] = next(g[i - 1], i)
  <2> HIDE DEF next, S
  <2>1. /\ g \in [0 .. m -> S] /\ g[0] = M
        /\ \A i \in 1 .. m : g[i] = step[i][g[i - 1]]
    BY <1>3 DEF Iterates
  <2>2. ASSUME NEW i \in 1 .. m PROVE i \in Nat /\ g[i - 1] \in S
    BY <1>0, <2>1
  <2> QED BY <2>1, <2>2
<1>5. Is(g)
  <2> HIDE DEF S
  <2> SUFFICES ASSUME NEW i \in 0 .. m
               PROVE  g[i] = IF i = 0 THEN M ELSE next(g[i - 1], i)
    BY <1>4
  <2>1. i # 0 => i \in 1 .. m
    BY <1>0
  <2> QED BY <1>4, <2>1
<1>6. Is(after)
  <2> HIDE DEF Is
  <2> QED BY <1>5
<1> HIDE DEF after
<1>7. /\ after[0] = M
      /\ \A i \in 1 .. m : after[i] = process_free(after[i - 1], after[i - 1].allocs[i - 1][1])
  <2>1. 0 \in 0 .. m
    BY <1>0
  <2>2. \A i \in 1 .. m : i \in 0 .. m /\ i # 0
    BY <1>0
  <2> QED BY <1>6, <2>1, <2>2
<1> DEFINE Emptied(i) == after[i] \in S /\ \A j \in 0 .. (i - 1) : after[i].allocs[j] = Empty
<1>8. \A i \in 0 .. m : Emptied(i)
  <2> DEFINE T == {i \in 0 .. m : ~Emptied(i)}
  <2> SUFFICES ASSUME T # {} PROVE FALSE
    OBVIOUS
  <2>1. T \subseteq Nat
    BY <1>0
  <2>2. PICK i \in T : \A y \in T : i <= y
    <3> HIDE DEF T
    <3> QED BY <2>1, NatMinimum
  <2>3. i # 0
    BY <1>0, <1>7
  <2>4. i \in 1 .. m /\ i - 1 \in 0 .. m /\ ~(i <= i - 1) /\ i - 1 \in Indexes
    BY <1>0, <2>3
  <2> DEFINE X == after[i - 1]
             ptr == X.allocs[i - 1][1]
  <2>5. X \in S /\ \A j \in 0 .. (i - 2) : X.allocs[j] = Empty
    <3>1. Emptied(i - 1)
      BY <2>2, <2>4
    <3>2. (i - 1) - 1 = i - 2
      BY <2>4
    <3> QED BY <3>1, <3>2
  <2>6. after[i] = process_free(X, ptr) /\ after[i] = next(X, i)
    BY <1>7, <2>4
  <2>7. after[i] \in S
    <3> HIDE DEF X, next, S
    <3> QED BY <1>1, <2>5, <2>6
  <2>8. \A j \in Indexes : after[i].allocs[j] = IF X.allocs[j][1] = ptr THEN Empty ELSE X.allocs[j]
    <3>1. Good(X)
      BY <2>5 DEF Left
    <3> HIDE DEF X, ptr
    <3>2. \A j \in Indexes :
            process_free(X, ptr).allocs[j] = IF X.allocs[j][1] = ptr THEN Empty ELSE X.allocs[j]
      BY <3>1, FreeShrinks
    <3> QED BY <2>6, <3>2
  <2>9. ASSUME NEW j \in 0 .. (i - 1) PROVE after[i].allocs[j] = Empty
    <3>1. j \in Indexes /\ (j = i - 1 \/ j \in 0 .. (i - 2))
      BY <1>0, <2>4
    <3> QED BY <2>5, <2>8, <3>1
  <2> QED BY <2>2, <2>7, <2>9
<1> DEFINE N == process_terminate_allocations(M)
<1>9. N = after[m]
  BY DEF process_terminate_allocations, after
<1>10. Left(M, N) /\ \A j \in Indexes : N.allocs[j] = Empty
  BY <1>0, <1>8, <1>9
<1> HIDE DEF N
<1>11. Grants(N.allocs) = {}
  BY <1>10 DEF Grants
<1>12. Good(N) /\ N.live = M.live \ Grants(M.allocs)
  BY <1>10, <1>11 DEF Left
<1> QED BY <1>11, <1>12 DEF N

-----------------------------------------------------------------------------
(* What the variables hold.                                                *)
StateType ==
  /\ status \in [Procs -> {"new", "running", "ended"}]
  /\ allocations \in [Procs -> [Indexes -> Pieces \cup {Empty}]]
  /\ image \in [Procs -> {<<>>} \cup (Pieces \X Pieces)]
  /\ writable \in [Procs -> SUBSET Int]
  /\ passed \in [Procs -> SUBSET Pieces]
  /\ given \in [Procs -> SUBSET Pieces]
  /\ held \subseteq live /\ wild \subseteq {Null}

Owned(p) == Image(p) \cup given[p]

(* One process: its array, pages, arguments and image.                     *)
ProcessOK(p) ==
  /\ Owned(p) \subseteq live
  /\ Grants(allocations[p]) = given[p]
  /\ \A i, j \in Indexes :
       allocations[p][i] # Empty /\ allocations[p][i] = allocations[p][j] => i = j
  /\ writable[p] = Cover(Owned(p))
  /\ passed[p] \subseteq given[p]
  /\ Image(p) \cap given[p] = {}
  /\ status[p] # "running" => image[p] = <<>> /\ given[p] = {}
  /\ status[p] = "running" => image[p] # <<>> /\ image[p][1] # image[p][2]

(* The inductive invariant: the heap is sound, every process is in order,  *)
(* and every piece of the heap has an owner, and no second one.            *)
MInv ==
  /\ StateType
  /\ Sound(entries, live)
  /\ \A p \in Procs : ProcessOK(p)
  /\ \A p, q \in Procs : p # q => Owned(p) \cap Owned(q) = {}
  /\ \A p \in Procs : Owned(p) \cap held = {}
  /\ \A a \in live : a \in held \cup lost \/ \E p \in Procs : a \in Owned(p)

(* The two pieces of an image.                                             *)
LEMMA ImageElements ==
  /\ Elements(<<>>) = {}
  /\ \A a, b \in Pieces : Elements(<<a, b>>) = {a, b}
<1>1. Elements(<<>>) = {}
  BY DEF Elements
<1>2. ASSUME NEW a \in Pieces, NEW b \in Pieces PROVE Elements(<<a, b>>) = {a, b}
  <2>1. DOMAIN <<a, b>> = 1 .. 2 /\ 1 .. 2 = {1, 2}
    OBVIOUS
  <2>2. <<a, b>>[1] = a /\ <<a, b>>[2] = b
    OBVIOUS
  <2> QED BY <2>1, <2>2 DEF Elements
<1> QED BY <1>1, <1>2

(* What a system call of p starts from.                                    *)
LEMMA MemoryGood ==
  ASSUME MInv, NEW p \in Procs
  PROVE  /\ Good(Memory(p)) /\ Granted(Memory(p)) = {}
         /\ Memory(p).entries = entries /\ Memory(p).live = live
         /\ Memory(p).allocs = allocations[p] /\ Memory(p).pages = writable[p]
         /\ Memory(p).wild = wild
         /\ Grants(allocations[p]) = given[p]
<1>1. /\ Sound(entries, live) /\ ProcessOK(p) /\ allocations[p] \in [Indexes -> Pieces \cup {Empty}]
      /\ writable[p] \subseteq Int /\ wild \subseteq {Null}
      /\ entries \in [Blocks -> SUBSET Flags] /\ live \subseteq Pieces
  BY DEF MInv, StateType, Sound, Pieces
<1> DEFINE M == Memory(p)
<1>2. /\ M.entries = entries /\ M.live = live /\ M.allocs = allocations[p]
      /\ M.pages = writable[p] /\ M.wild = wild /\ M.got = <<>>
  BY DEF Memory
<1>3. M \in MemType
  <2>1. <<>> \in Seq(Pieces \cup {Empty})
    OBVIOUS
  <2> QED BY <1>1, <2>1 DEF Memory, MemType
<1> HIDE DEF M
<1>4. Grants(allocations[p]) = given[p] /\ given[p] \subseteq live
  BY <1>1 DEF ProcessOK, Owned
<1>5. Good(M)
  BY <1>1, <1>2, <1>3, <1>4 DEF Good, ProcessOK
<1>6. Granted(M) = {}
  <2>1. Granted(M) = Elements(M.got) \ {Empty}
    BY DEF Granted, Elements
  <2> QED BY <1>2, <2>1, ImageElements
<1> QED BY <1>2, <1>4, <1>5, <1>6 DEF M

(* A system call of p that leaves p with image I and the array of N, and   *)
(* took none but new pieces and p's own, keeps the invariant.              *)
LEMMA OwnStep ==
  ASSUME MInv, NEW p \in Procs, NEW N, Good(N), Store(p, N),
         NEW I \in {<<>>} \cup (Pieces \X Pieces), image' = [image EXCEPT ![p] = I],
         NEW st \in {"new", "running", "ended"}, status' = [status EXCEPT ![p] = st],
         given' \in [Procs -> SUBSET Pieces], given'[p] = Grants(N.allocs),
         \A q \in Procs \ {p} : given'[q] = given[q],
         passed' \in [Procs -> SUBSET Pieces], passed'[p] \subseteq given'[p],
         \A q \in Procs \ {p} : passed'[q] = passed[q],
         held' = held, held \subseteq N.live,
         \A q \in Procs \ {p} : Owned(q) \subseteq N.live,
         Elements(I) \subseteq N.live, Elements(I) \cap Grants(N.allocs) = {},
         N.pages = Cover(Elements(I) \cup Grants(N.allocs)),
         (Elements(I) \cup Grants(N.allocs)) \cap live \subseteq Owned(p),
         st # "running" => I = <<>> /\ Grants(N.allocs) = {},
         st = "running" => I # <<>> /\ I[1] # I[2],
         lost \subseteq lost',
         N.live \subseteq (live \ Owned(p)) \cup Elements(I) \cup Grants(N.allocs) \cup lost'
  PROVE  MInv'
<1>0. /\ StateType /\ Sound(entries, live)
      /\ \A q \in Procs : ProcessOK(q)
      /\ \A q, r \in Procs : q # r => Owned(q) \cap Owned(r) = {}
      /\ \A q \in Procs : Owned(q) \cap held = {}
  BY DEF MInv
<1>1. /\ entries' = N.entries /\ live' = N.live /\ wild' = N.wild
      /\ allocations' = [allocations EXCEPT ![p] = N.allocs]
      /\ writable' = [writable EXCEPT ![p] = N.pages]
  BY DEF Store
<1>2. /\ Sound(N.entries, N.live) /\ N.wild \subseteq {Null} /\ N.pages \subseteq Int
      /\ N.allocs \in [Indexes -> Pieces \cup {Empty}] /\ Grants(N.allocs) \subseteq N.live
      /\ \A i, j \in Indexes : N.allocs[i] # Empty /\ N.allocs[i] = N.allocs[j] => i = j
  BY DEF Good, MemType
<1>3. /\ allocations'[p] = N.allocs /\ writable'[p] = N.pages /\ image'[p] = I
      /\ status'[p] = st
      /\ \A q \in Procs \ {p} : /\ allocations'[q] = allocations[q] /\ writable'[q] = writable[q]
                                /\ image'[q] = image[q] /\ status'[q] = status[q]
  BY <1>0, <1>1 DEF StateType
<1>4. StateType'
  BY <1>0, <1>1, <1>2 DEF StateType
<1>5. /\ Owned(p)' = Elements(I) \cup Grants(N.allocs) /\ Image(p)' = Elements(I)
      /\ \A q \in Procs \ {p} : Owned(q)' = Owned(q) /\ Image(q)' = Image(q)
  BY <1>3 DEF Owned, Image, Elements
<1>6. ASSUME NEW q \in Procs PROVE ProcessOK(q)'
  <2>1. CASE q = p
    <3>1. /\ Grants(allocations'[p]) = given'[p] /\ Owned(p)' \subseteq live'
          /\ writable'[p] = Cover(Owned(p)') /\ Image(p)' \cap given'[p] = {}
      BY <1>1, <1>2, <1>3, <1>5
    <3>2. Cover(Owned(p)') = Cover(Owned(p))'
      BY DEF Cover, Span
    <3>3. \A i, j \in Indexes :
            allocations'[p][i] # Empty /\ allocations'[p][i] = allocations'[p][j] => i = j
      BY <1>2, <1>3
    <3>4. Grants(allocations[p])' = Grants(allocations'[p])
      BY DEF Grants, Indexes
    <3>5. ProcessOK(p)'
      BY <1>3, <3>1, <3>2, <3>3, <3>4 DEF ProcessOK
    <3> QED BY <2>1, <3>5
  <2>2. CASE q # p
    <3>1. /\ Owned(q)' \subseteq live' /\ ProcessOK(q) /\ q \in Procs \ {p}
      BY <1>0, <1>1, <1>5, <2>2
    <3> QED BY <1>3, <1>5, <3>1 DEF ProcessOK, Grants, Cover
  <2> QED BY <2>1, <2>2
<1>7. ASSUME NEW q \in Procs \ {p} PROVE Owned(p)' \cap Owned(q)' = {}
  <2>1. Owned(q) \subseteq live /\ Owned(p) \cap Owned(q) = {}
    BY <1>0 DEF ProcessOK
  <2> QED BY <1>5, <2>1
<1>8. \A q, r \in Procs : q # r => Owned(q)' \cap Owned(r)' = {}
  BY <1>0, <1>5, <1>7
<1>9. \A q \in Procs : Owned(q)' \cap held' = {}
  <2>1. held \subseteq live
    BY <1>0 DEF StateType
  <2> QED BY <1>0, <1>5, <2>1
<1>10. Sound(entries', live')
  BY <1>1, <1>2
<1>11. Sound(entries, live)'
  BY <1>10 DEF Sound, Span, IsFree
<1>12. ASSUME NEW a \in live', a \notin held' \cup lost'
       PROVE  \E q \in Procs : a \in Owned(q)'
  <2>1. CASE a \in Elements(I) \cup Grants(N.allocs)
    BY <1>5, <2>1
  <2>2. CASE a \in live \ Owned(p)
    <3>1. a \notin held \cup lost
      BY <1>12
    <3>2. PICK q \in Procs : a \in Owned(q)
      BY <2>2, <3>1 DEF MInv
    <3>3. q # p
      BY <2>2, <3>2
    <3> QED BY <1>5, <3>2, <3>3
  <2> QED BY <1>1, <1>12, <2>1, <2>2
<1>13. \A a \in live' : a \in held' \cup lost' \/ \E q \in Procs : a \in Owned(q)'
  BY <1>12
<1> QED BY <1>4, <1>6, <1>8, <1>9, <1>11, <1>13 DEF MInv

(* A process that ends leaves nothing behind, whatever it had before.      *)
LEMMA EndStep ==
  ASSUME MInv, NEW p \in Procs, NEW N, Good(N), Store(p, N),
         image' = [image EXCEPT ![p] = <<>>], status' = [status EXCEPT ![p] = "ended"],
         given' \in [Procs -> SUBSET Pieces], given'[p] = {},
         \A q \in Procs \ {p} : given'[q] = given[q],
         passed' \in [Procs -> SUBSET Pieces], passed'[p] = {},
         \A q \in Procs \ {p} : passed'[q] = passed[q],
         held' = held, held \subseteq N.live,
         \A q \in Procs \ {p} : Owned(q) \subseteq N.live,
         Grants(N.allocs) = {}, N.pages = {},
         lost \subseteq lost', N.live \subseteq (live \ Owned(p)) \cup lost'
  PROVE  MInv'
<1> DEFINE I == <<>>
           st == "ended"
<1>1. /\ Elements(I) = {} /\ I \in {<<>>} \cup (Pieces \X Pieces)
      /\ st \in {"new", "running", "ended"}
  BY ImageElements
<1>2. (st # "running" => I = <<>> /\ Grants(N.allocs) = {}) /\ st # "running"
  OBVIOUS
<1>3. image' = [image EXCEPT ![p] = I] /\ status' = [status EXCEPT ![p] = st]
  OBVIOUS
<1> HIDE DEF I, st
<1>4. /\ Elements(I) \subseteq N.live /\ Elements(I) \cap Grants(N.allocs) = {}
      /\ (Elements(I) \cup Grants(N.allocs)) \cap live \subseteq Owned(p)
      /\ given'[p] = Grants(N.allocs) /\ passed'[p] \subseteq given'[p]
  BY <1>1
<1>5. N.pages = Cover(Elements(I) \cup Grants(N.allocs))
  <2>1. Elements(I) \cup Grants(N.allocs) = {} /\ Cover({}) = {}
    BY <1>1 DEF Cover
  <2> QED BY <2>1
<1>6. st = "running" => I # <<>> /\ I[1] # I[2]
  BY <1>2
<1>7. N.live \subseteq (live \ Owned(p)) \cup Elements(I) \cup Grants(N.allocs) \cup lost'
  OBVIOUS
<1> QED BY <1>1, <1>2, <1>3, <1>4, <1>5, <1>6, <1>7, OwnStep

(* Image is the elements of the image, and what the invariant says of p.   *)
LEMMA ProcessFacts ==
  ASSUME MInv, NEW p \in Procs
  PROVE  /\ Image(p) = Elements(image[p]) /\ image[p] \in {<<>>} \cup (Pieces \X Pieces)
         /\ ProcessOK(p) /\ status[p] \in {"new", "running", "ended"}
         /\ Owned(p) = Image(p) \cup given[p]
         /\ given[p] \in SUBSET Pieces /\ passed[p] \in SUBSET Pieces
         /\ held \subseteq live /\ live \subseteq Pieces
         /\ \A q \in Procs \ {p} : Owned(q) \subseteq live /\ Owned(q) \cap Owned(p) = {}
         /\ Owned(p) \cap held = {}
<1>1. Image(p) = Elements(image[p])
  BY DEF Image, Elements
<1>2. \A q \in Procs \ {p} : Owned(q) \subseteq live /\ Owned(q) \cap Owned(p) = {}
  BY DEF MInv, ProcessOK
<1> QED BY <1>1, <1>2 DEF MInv, StateType, Owned, Sound, Pieces

(* Writing back what was there.                                            *)
LEMMA Unchanging ==
  ASSUME MInv, NEW p \in Procs
  PROVE  /\ image = [image EXCEPT ![p] = image[p]]
         /\ status = [status EXCEPT ![p] = status[p]]
         /\ allocations = [allocations EXCEPT ![p] = allocations[p]]
         /\ writable = [writable EXCEPT ![p] = writable[p]]
BY DEF MInv, StateType

(* Pages of a union.                                                       *)
LEMMA CoverUnion ==
  ASSUME NEW A, NEW B
  PROVE  Cover(A \cup B) = Cover(A) \cup Cover(B)
BY DEF Cover

(* Memory that a running process gets is new and its own: Malloc.          *)
LEMMA MallocStep ==
  ASSUME MInv, 0 \notin Requests, NEW p \in Procs, NEW n \in Requests, Malloc(p, n)
  PROVE  MInv'
<1> DEFINE M == Memory(p)
           N == process_malloc(M, n)
<1>1. /\ status[p] = "running" /\ Store(p, N)
      /\ given' = [given EXCEPT ![p] = @ \cup Granted(N)]
      /\ UNCHANGED <<status, image, passed, held, lost>>
  BY DEF Malloc
<1>2. /\ Good(M) /\ Granted(M) = {} /\ M.live = live /\ M.allocs = allocations[p]
      /\ M.pages = writable[p] /\ Grants(allocations[p]) = given[p]
  BY MemoryGood
<1>3. n > 0
  BY HeapAssumption
<1> HIDE DEF M
<1>4. Grown(M, N)
  BY <1>2, <1>3, MallocGrows
<1> HIDE DEF N
<1> DEFINE D == N.live \ live
           I == image[p]
<1>5. /\ Good(N) /\ live \subseteq N.live /\ Grants(N.allocs) = given[p] \cup D
      /\ N.pages = writable[p] \cup Cover(D) /\ Granted(N) = D
  BY <1>2, <1>4 DEF Grown
<1>6. /\ Image(p) = Elements(I) /\ I \in {<<>>} \cup (Pieces \X Pieces)
      /\ ProcessOK(p) /\ Owned(p) = Image(p) \cup given[p] /\ held \subseteq live
      /\ passed[p] \in SUBSET Pieces
      /\ \A q \in Procs \ {p} : Owned(q) \subseteq live
  BY ProcessFacts
<1>7. given' \in [Procs -> SUBSET Pieces] /\ given'[p] = Grants(N.allocs)
      /\ \A q \in Procs \ {p} : given'[q] = given[q]
  <2>1. D \subseteq Pieces /\ given \in [Procs -> SUBSET Pieces]
    BY <1>5 DEF MInv, StateType, Good, MemType
  <2> QED BY <1>1, <1>5, <2>1
<1>8. passed' \in [Procs -> SUBSET Pieces] /\ passed'[p] \subseteq given'[p]
      /\ \A q \in Procs \ {p} : passed'[q] = passed[q]
  BY <1>1, <1>5, <1>6, <1>7 DEF MInv, StateType, ProcessOK
<1>9. image' = [image EXCEPT ![p] = I] /\ status' = [status EXCEPT ![p] = "running"]
  BY <1>1, Unchanging
<1>10. Elements(I) \subseteq N.live /\ Elements(I) \cap Grants(N.allocs) = {}
       /\ held \subseteq N.live /\ \A q \in Procs \ {p} : Owned(q) \subseteq N.live
  BY <1>5, <1>6 DEF ProcessOK
<1>11. N.pages = Cover(Elements(I) \cup Grants(N.allocs))
  <2>1. Elements(I) \cup Grants(N.allocs) = Owned(p) \cup D
    BY <1>5, <1>6
  <2>2. writable[p] = Cover(Owned(p))
    BY <1>6 DEF ProcessOK
  <2> QED BY <1>5, <2>1, <2>2, CoverUnion
<1>12. (Elements(I) \cup Grants(N.allocs)) \cap live \subseteq Owned(p)
  BY <1>5, <1>6
<1>13. I # <<>> /\ I[1] # I[2]
  BY <1>1, <1>6 DEF ProcessOK
<1>14. held' = held /\ Store(p, N) /\ "running" \in {"new", "running", "ended"}
  BY <1>1
<1>15. /\ lost \subseteq lost'
       /\ N.live \subseteq (live \ Owned(p)) \cup Elements(I) \cup Grants(N.allocs) \cup lost'
  BY <1>1, <1>5, <1>6
<1> HIDE DEF I
<1> QED BY <1>5, <1>6, <1>7, <1>8, <1>9, <1>10, <1>11, <1>12, <1>13, <1>14, <1>15, OwnStep

(* Pages of pieces of a sound heap.                                        *)
LEMMA CoverMinus ==
  ASSUME NEW T, NEW L, Sound(T, L), NEW A \in SUBSET L, NEW D \in SUBSET A
  PROVE  Cover(A) \ Cover(D) = Cover(A \ D)
<1>1. \A a \in A \ D : \A b \in D : Span(a) \cap Span(b) = {}
  BY DEF Sound
<1> QED BY <1>1 DEF Cover

(* Memory that a process gives back is its own: Free.                      *)
LEMMA FreeStep ==
  ASSUME MInv, NEW p \in Procs, NEW ptr, Free(p, ptr)
  PROVE  MInv'
<1> DEFINE M == Memory(p)
           N == process_free(M, ptr)
           D == At(given[p], ptr)
           I == image[p]
<1>1. /\ status[p] = "running" /\ Store(p, N)
      /\ given' = [q \in Procs |-> given[q] \cap N.live]
      /\ passed' = [passed EXCEPT ![p] = {a \in @ : a[1] # ptr}]
      /\ UNCHANGED <<status, image, held, lost>>
  BY DEF Free
<1>2. /\ Good(M) /\ M.live = live /\ M.allocs = allocations[p]
      /\ M.pages = writable[p] /\ Grants(allocations[p]) = given[p]
  BY MemoryGood
<1> HIDE DEF M
<1>4. Shrunk(M, N, D)
  BY <1>2, FreeShrinks
<1> HIDE DEF N
<1>5. /\ Good(N) /\ N.live = live \ D /\ Grants(N.allocs) = given[p] \ D
      /\ N.pages = writable[p] \ Cover(D) /\ D \subseteq given[p]
  BY <1>2, <1>4 DEF Shrunk, At
<1>6. /\ Image(p) = Elements(I) /\ I \in {<<>>} \cup (Pieces \X Pieces)
      /\ ProcessOK(p) /\ Owned(p) = Image(p) \cup given[p] /\ held \subseteq live
      /\ Owned(p) \cap held = {}
      /\ \A q \in Procs \ {p} : Owned(q) \subseteq live /\ Owned(q) \cap Owned(p) = {}
  BY ProcessFacts
<1>6a. /\ Owned(p) \subseteq live /\ writable[p] = Cover(Owned(p)) /\ passed[p] \subseteq given[p]
       /\ Image(p) \cap given[p] = {} /\ I # <<>> /\ I[1] # I[2]
  BY <1>1, <1>6 DEF ProcessOK
<1>7. given' \in [Procs -> SUBSET Pieces] /\ given'[p] = Grants(N.allocs)
      /\ \A q \in Procs \ {p} : given'[q] = given[q]
  <2>1. given \in [Procs -> SUBSET Pieces]
    BY DEF MInv, StateType
  <2>2. given[p] \cap N.live = given[p] \ D
    BY <1>5, <1>6, <1>6a
  <2>3. ASSUME NEW q \in Procs \ {p} PROVE given[q] \cap N.live = given[q]
    <3>1. given[q] \subseteq Owned(q)
      BY DEF Owned
    <3> QED BY <1>5, <1>6, <3>1
  <2> QED BY <1>1, <1>5, <2>1, <2>2, <2>3
<1>8. passed' \in [Procs -> SUBSET Pieces] /\ passed'[p] \subseteq given'[p]
      /\ \A q \in Procs \ {p} : passed'[q] = passed[q]
  <2>1. passed \in [Procs -> SUBSET Pieces]
    BY DEF MInv, StateType
  <2>2. {a \in passed[p] : a[1] # ptr} \subseteq given[p] \ D
    BY <1>6a DEF At
  <2> QED BY <1>1, <1>5, <1>7, <2>1, <2>2
<1>9. image' = [image EXCEPT ![p] = I] /\ status' = [status EXCEPT ![p] = "running"]
  BY <1>1, Unchanging
<1>10. Elements(I) \subseteq N.live /\ Elements(I) \cap Grants(N.allocs) = {}
       /\ held \subseteq N.live /\ \A q \in Procs \ {p} : Owned(q) \subseteq N.live
  BY <1>5, <1>6, <1>6a
<1>11. N.pages = Cover(Elements(I) \cup Grants(N.allocs))
  <2>1. Elements(I) \cup Grants(N.allocs) = Owned(p) \ D
    BY <1>5, <1>6, <1>6a
  <2>2. Sound(entries, live) /\ D \in SUBSET Owned(p) /\ Owned(p) \in SUBSET live
    BY <1>5, <1>6, <1>6a DEF MInv
  <2> HIDE DEF D
  <2>3. Cover(Owned(p)) \ Cover(D) = Cover(Owned(p) \ D)
    BY <2>2, CoverMinus
  <2> QED BY <1>5, <1>6a, <2>1, <2>3
<1>12. (Elements(I) \cup Grants(N.allocs)) \cap live \subseteq Owned(p)
  BY <1>5, <1>6
<1>14. held' = held /\ Store(p, N) /\ "running" \in {"new", "running", "ended"}
  BY <1>1
<1>15. /\ lost \subseteq lost'
       /\ N.live \subseteq (live \ Owned(p)) \cup Elements(I) \cup Grants(N.allocs) \cup lost'
  BY <1>1, <1>5, <1>6
<1> HIDE DEF I, D
<1> QED BY <1>5, <1>6, <1>6a, <1>7, <1>8, <1>9, <1>10, <1>11, <1>12, <1>14, <1>15, OwnStep

(* A process that ends gives back everything: process_terminate.           *)
LEMMA TerminateStep ==
  ASSUME MInv, NEW p \in Procs, process_terminate(p)
  PROVE  MInv'
<1> DEFINE M == Memory(p)
           A == process_terminate_allocations(M)
           x == image[p][1]
           y == image[p][2]
           B == kfree_allocation(A, x)
           C == kfree_allocation(B, y)
<1>1. PICK N : /\ status[p] = "running" /\ N = [C EXCEPT !.pages = {}] /\ Store(p, N)
               /\ given' = [q \in Procs |-> given[q] \cap C.live]
               /\ passed' = [passed EXCEPT ![p] = {}]
               /\ image' = [image EXCEPT ![p] = <<>>]
               /\ status' = [status EXCEPT ![p] = "ended"]
               /\ held' = held /\ lost' = lost
  BY Zenon DEF process_terminate, process_free_image
<1>2. /\ Good(M) /\ M.live = live /\ M.allocs = allocations[p]
      /\ Grants(allocations[p]) = given[p]
  BY MemoryGood
<1>3. Good(A) /\ A.live = live \ given[p] /\ Grants(A.allocs) = {}
  <2> HIDE DEF M
  <2>1. Good(A) /\ A.live = M.live \ Grants(M.allocs) /\ Grants(A.allocs) = {}
    BY <1>2, TerminateFrees, Zenon
  <2> QED BY <1>2, <2>1
<1>4. /\ Image(p) = Elements(image[p]) /\ image[p] \in {<<>>} \cup (Pieces \X Pieces)
      /\ ProcessOK(p) /\ Owned(p) = Image(p) \cup given[p] /\ held \subseteq live
      /\ Owned(p) \cap held = {}
      /\ \A q \in Procs \ {p} : Owned(q) \subseteq live /\ Owned(q) \cap Owned(p) = {}
  BY ProcessFacts
<1>5. /\ Owned(p) \subseteq live /\ Image(p) \cap given[p] = {}
      /\ image[p] # <<>> /\ x # y
  BY <1>1, <1>4 DEF ProcessOK
<1>6. x \in Pieces /\ y \in Pieces /\ Image(p) = {x, y}
  <2>1. image[p] \in Pieces \X Pieces
    BY <1>4, <1>5
  <2>2. x \in Pieces /\ y \in Pieces /\ image[p] = <<x, y>>
    BY <2>1
  <2> HIDE DEF x, y
  <2> QED BY <1>4, <2>2, ImageElements
<1> HIDE DEF A, x, y
<1>7. Good(B) /\ B.live = A.live \ {x} /\ B.allocs = A.allocs
  <2>1. x \in A.live /\ x \notin Grants(A.allocs)
    BY <1>3, <1>4, <1>5, <1>6
  <2> QED BY <1>3, <2>1, KfreeShrinks, Zenon
<1> HIDE DEF B
<1>8. Good(C) /\ C.live = B.live \ {y} /\ C.allocs = B.allocs
  <2>1. y \in B.live /\ y \notin Grants(B.allocs)
    BY <1>3, <1>4, <1>5, <1>6, <1>7
  <2> QED BY <1>7, <2>1, KfreeShrinks, Zenon
<1> HIDE DEF C
<1>9. /\ Good(N) /\ N.live = live \ Owned(p) /\ Grants(N.allocs) = {} /\ N.pages = {}
      /\ C.live = N.live
  <2>1. C \in MemType
    BY <1>8 DEF Good
  <2>2. C = [entries |-> C.entries, live |-> C.live, allocs |-> C.allocs,
             pages |-> C.pages, wild |-> C.wild, got |-> C.got]
    BY <2>1 DEF MemType
  <2>3. N = [entries |-> C.entries, live |-> C.live, allocs |-> C.allocs,
             pages |-> {}, wild |-> C.wild, got |-> C.got]
    BY <1>1, <2>2
  <2>4. N \in MemType
    BY <2>1, <2>3 DEF MemType
  <2>5. /\ N.entries = C.entries /\ N.live = C.live /\ N.allocs = C.allocs /\ N.pages = {}
    BY <2>3
  <2>6. Good(N)
    BY <1>8, <2>4, <2>5 DEF Good
  <2> QED BY <1>3, <1>4, <1>6, <1>7, <1>8, <2>5, <2>6
<1>10. given' \in [Procs -> SUBSET Pieces] /\ given'[p] = {}
       /\ \A q \in Procs \ {p} : given'[q] = given[q]
  <2>1. given \in [Procs -> SUBSET Pieces]
    BY DEF MInv, StateType
  <2>2. given[p] \cap N.live = {}
    BY <1>4, <1>9
  <2>3. ASSUME NEW q \in Procs \ {p} PROVE given[q] \cap N.live = given[q]
    <3>1. given[q] \subseteq Owned(q)
      BY DEF Owned
    <3> QED BY <1>4, <1>9, <3>1
  <2> QED BY <1>1, <1>9, <2>1, <2>2, <2>3
<1>11. passed' \in [Procs -> SUBSET Pieces] /\ passed'[p] \subseteq given'[p]
       /\ \A q \in Procs \ {p} : passed'[q] = passed[q]
  <2>1. passed \in [Procs -> SUBSET Pieces]
    BY DEF MInv, StateType
  <2> QED BY <1>1, <2>1
<1>12. held \subseteq N.live /\ \A q \in Procs \ {p} : Owned(q) \subseteq N.live
  BY <1>4, <1>9
<1>13. passed'[p] = {}
  BY <1>1, <1>11 DEF MInv, StateType
<1>14. lost \subseteq lost' /\ N.live \subseteq (live \ Owned(p)) \cup lost'
  BY <1>1, <1>9
<1> QED BY <1>1, <1>9, <1>10, <1>11, <1>12, <1>13, <1>14, EndStep

(* A process that has not been loaded owns nothing.                        *)
LEMMA NewOwnsNothing ==
  ASSUME MInv, NEW p \in Procs, status[p] = "new"
  PROVE  /\ image[p] = <<>> /\ given[p] = {} /\ passed[p] = {} /\ writable[p] = {}
         /\ Owned(p) = {} /\ Grants(allocations[p]) = {}
<1>1. ProcessOK(p) /\ Owned(p) = Elements(image[p]) \cup given[p]
  BY ProcessFacts
<1>2. image[p] = <<>> /\ given[p] = {} /\ passed[p] = {} /\ Grants(allocations[p]) = {}
  BY <1>1 DEF ProcessOK
<1>3. Owned(p) = {} /\ Cover({}) = {}
  BY <1>1, <1>2, ImageElements DEF Cover
<1> QED BY <1>1, <1>2, <1>3 DEF ProcessOK

(* A process is loaded into memory of its own, with or without arguments:  *)
(* process_load.                                                           *)
LEMMA LoadStep ==
  ASSUME MInv, 0 \notin Requests, BssBlocks = 0, NEW p \in Procs,
         NEW argc \in Nat, process_load(p, argc)
  PROVE  MInv'
<1> DEFINE R == Memory(p)
           Second(t) == heap_mark_blocks_taken(entries, t, ImageBlocks)
           Loaded(t, l) == [Memory(p) EXCEPT
                              !.entries = heap_mark_blocks_taken(Second(t), l, StackBlocks),
                              !.live = @ \cup {<<t, ImageBlocks>>, <<l, StackBlocks>>},
                              !.pages = Span(<<t, ImageBlocks + BssBlocks>>)
                                          \cup Span(<<l, StackBlocks>>)]
           Final(t, l) == process_inject_arguments(Loaded(t, l), argc)
<1>1. PICK s \in Start(entries, ImageBlocks) : \E k \in Start(Second(s), StackBlocks) :
        /\ Store(p, Final(s, k))
        /\ image' = [image EXCEPT ![p] = <<<<s, ImageBlocks>>, <<k, StackBlocks>>>>]
        /\ given' = [given EXCEPT ![p] = Granted(Final(s, k))]
        /\ passed' = [passed EXCEPT ![p] = Passed(Final(s, k))]
  BY Zenon DEF process_load
<1> DEFINE x == <<s, ImageBlocks>>
           table == heap_mark_blocks_taken(entries, s, ImageBlocks)
<1>1a. PICK k \in Start(table, StackBlocks) :
        /\ Store(p, Final(s, k))
        /\ image' = [image EXCEPT ![p] = <<<<s, ImageBlocks>>, <<k, StackBlocks>>>>]
        /\ given' = [given EXCEPT ![p] = Granted(Final(s, k))]
        /\ passed' = [passed EXCEPT ![p] = Passed(Final(s, k))]
  BY <1>1
<1>2. PICK Q, M :
        /\ Q = [R EXCEPT !.entries = heap_mark_blocks_taken(table, k, StackBlocks),
                         !.live = @ \cup {x, <<k, StackBlocks>>},
                         !.pages = Span(<<s, ImageBlocks + BssBlocks>>)
                                     \cup Span(<<k, StackBlocks>>)]
        /\ M = process_inject_arguments(Q, argc)
        /\ Store(p, M)
        /\ image' = [image EXCEPT ![p] = <<x, <<k, StackBlocks>>>>]
        /\ given' = [given EXCEPT ![p] = Granted(M)]
        /\ passed' = [passed EXCEPT ![p] = Passed(M)]
  BY <1>1a, Zenon
<1> HIDE DEF Second, Loaded, Final
<1> DEFINE y == <<k, StackBlocks>>
           E == heap_mark_blocks_taken(table, k, StackBlocks)
           I == <<x, y>>
<1>3. /\ status[p] = "new" /\ status' = [status EXCEPT ![p] = "running"]
      /\ UNCHANGED <<held, lost>>
  BY DEF process_load
<1>4. /\ ImageBlocks \in Requests /\ ImageBlocks > 0 /\ ImageBlocks + BssBlocks = ImageBlocks
      /\ StackBlocks \in Requests /\ StackBlocks > 0
  <2>1. ImageBlocks \in Requests /\ StackBlocks \in Requests
    BY MemoryAssumption
  <2>2. ImageBlocks \in Nat /\ StackBlocks \in Nat /\ ImageBlocks # 0 /\ StackBlocks # 0
    BY <2>1, HeapAssumption
  <2> QED BY <2>1, <2>2
<1>5. /\ s \in Blocks /\ heap_get_start_block(entries, ImageBlocks, s)
      /\ k \in Blocks /\ heap_get_start_block(table, StackBlocks, k)
  BY DEF Start
<1>6. /\ Good(R) /\ Granted(R) = {} /\ R.entries = entries /\ R.live = live
      /\ R.allocs = allocations[p] /\ R.wild = wild
  BY MemoryGood
<1> HIDE DEF R
<1>7. Sound(entries, live) /\ live \subseteq Pieces
  BY ProcessFacts DEF MInv
<1>8. Sound(table, live \cup {x}) /\ x \notin live
  BY <1>4, <1>5, <1>7, TakeSound
<1>9. Sound(E, (live \cup {x}) \cup {y}) /\ y \notin live \cup {x}
  <2> HIDE DEF table, x
  <2> QED BY <1>4, <1>5, <1>8, TakeSound
<1>10. x \in Pieces /\ y \in Pieces
  BY <1>4, <1>5 DEF Pieces
<1>11. Span(x) \subseteq Int /\ Span(y) \subseteq Int
  <2> HIDE DEF x, y
  <2> QED BY <1>10, PieceType DEF Span, Pieces
<1> HIDE DEF E, table
<1>12. Q = [entries |-> E, live |-> live \cup {x, y}, allocs |-> R.allocs,
            pages |-> Span(x) \cup Span(y), wild |-> R.wild, got |-> R.got]
  <2>1. R = [entries |-> R.entries, live |-> R.live, allocs |-> R.allocs,
             pages |-> R.pages, wild |-> R.wild, got |-> R.got]
    BY <1>6 DEF Good, MemType
  <2>2. Q = [R EXCEPT !.entries = E, !.live = @ \cup {x, y}, !.pages = Span(x) \cup Span(y)]
    BY <1>2, <1>4 DEF E
  <2> HIDE DEF x, y
  <2> QED BY <1>6, <2>1, <2>2
<1>12a. M = process_inject_arguments(Q, argc) /\ Store(p, M) /\ image' = [image EXCEPT ![p] = I]
        /\ given' = [given EXCEPT ![p] = Granted(M)]
        /\ passed' = [passed EXCEPT ![p] = Passed(M)]
  BY <1>2
<1> HIDE DEF x, y
<1>13. /\ Q.entries = E /\ Q.live = live \cup {x, y} /\ Q.allocs = R.allocs
       /\ Q.pages = Span(x) \cup Span(y) /\ Q.wild = R.wild /\ Q.got = R.got
  BY <1>12
<1>14. Good(Q)
  <2>1. E \in [Blocks -> SUBSET Flags]
    BY <1>9 DEF Sound
  <2>2. /\ R.allocs \in [Indexes -> Pieces \cup {Empty}] /\ R.wild \subseteq {Null}
        /\ R.got \in Seq(Pieces \cup {Empty}) /\ Grants(R.allocs) \subseteq live
        /\ \A i, j \in Indexes : R.allocs[i] # Empty /\ R.allocs[i] = R.allocs[j] => i = j
    BY <1>6 DEF Good, MemType
  <2>3. Q \in MemType
    BY <1>7, <1>10, <1>11, <1>12, <2>1, <2>2 DEF MemType
  <2>4. (live \cup {x}) \cup {y} = live \cup {x, y}
    OBVIOUS
  <2>5. Sound(E, live \cup {x, y})
    BY <1>9, <2>4
  <2> QED BY <1>13, <2>2, <2>3, <2>5 DEF Good
<1>15. Grown(Q, M)
  BY <1>12a, <1>14, InjectGrows
<1>16. /\ image[p] = <<>> /\ Grants(allocations[p]) = {}
  BY <1>3, NewOwnsNothing
<1>17. Granted(Q) = {}
  BY <1>6, <1>13 DEF Granted
<1> DEFINE D == M.live \ Q.live
<1>18. /\ Good(M) /\ Q.live \subseteq M.live /\ Grants(M.allocs) = D
       /\ M.pages = Span(x) \cup Span(y) \cup Cover(D) /\ Granted(M) = D
  BY <1>6, <1>13, <1>15, <1>16, <1>17 DEF Grown
<1>19. D \subseteq Pieces
  BY <1>18 DEF Good, MemType
<1>20. I \in Pieces \X Pieces /\ I[1] = x /\ I[2] = y /\ x # y
  BY <1>9, <1>10
<1>21. Elements(I) = {x, y}
  BY <1>10, ImageElements
<1>22. given' \in [Procs -> SUBSET Pieces] /\ given'[p] = Grants(M.allocs)
       /\ \A q \in Procs \ {p} : given'[q] = given[q]
  <2>1. given \in [Procs -> SUBSET Pieces]
    BY DEF MInv, StateType
  <2> QED BY <1>12a, <1>18, <1>19, <2>1
<1>23. passed' \in [Procs -> SUBSET Pieces] /\ passed'[p] \subseteq given'[p]
       /\ \A q \in Procs \ {p} : passed'[q] = passed[q]
  <2>1. passed \in [Procs -> SUBSET Pieces]
    BY DEF MInv, StateType
  <2>2. Passed(M) \subseteq Granted(M)
    BY DEF Passed
  <2> QED BY <1>12a, <1>18, <1>19, <1>22, <2>1, <2>2
<1>24. held \subseteq M.live /\ \A q \in Procs \ {p} : Owned(q) \subseteq M.live
  <2>1. held \subseteq live /\ \A q \in Procs \ {p} : Owned(q) \subseteq live
    BY ProcessFacts
  <2> QED BY <1>13, <1>18, <2>1
<1>25. Elements(I) \subseteq M.live /\ Elements(I) \cap Grants(M.allocs) = {}
  BY <1>13, <1>18, <1>21
<1>26. M.pages = Cover(Elements(I) \cup Grants(M.allocs))
  <2>1. Cover({x, y} \cup D) = Cover({x, y}) \cup Cover(D)
    BY CoverUnion
  <2>2. Cover({x, y}) = Span(x) \cup Span(y)
    BY DEF Cover
  <2> HIDE DEF D
  <2> QED BY <1>18, <1>21, <2>1, <2>2
<1>27. (Elements(I) \cup Grants(M.allocs)) \cap live \subseteq Owned(p)
  BY <1>8, <1>9, <1>13, <1>18, <1>21
<1>28. I \in {<<>>} \cup (Pieces \X Pieces) /\ I # <<>> /\ I[1] # I[2]
       /\ "running" \in {"new", "running", "ended"}
  BY <1>20
<1>29. /\ lost \subseteq lost'
       /\ M.live \subseteq (live \ Owned(p)) \cup Elements(I) \cup Grants(M.allocs) \cup lost'
  <2>1. Owned(p) = {}
    BY <1>3, NewOwnsNothing
  <2> QED BY <1>3, <1>13, <1>18, <1>21, <2>1
<1> HIDE DEF I, D
<1> QED BY <1>3, <1>12a, <1>18, <1>22, <1>23, <1>24, <1>25, <1>26, <1>27, <1>28, <1>29, OwnStep

(* A process that cannot be loaded ends without memory of its own; what    *)
(* the loader took stays taken.                                            *)
LEMMA NotLoaded ==
  ASSUME MInv, NEW p \in Procs, status[p] = "new",
         NEW E, NEW L, Sound(E, L), live \subseteq L, entries' = E, live' = L,
         status' = [status EXCEPT ![p] = "ended"],
         UNCHANGED <<allocations, image, writable, passed, held, given, wild>>,
         lost \subseteq lost', L \subseteq live \cup lost'
  PROVE  MInv'
<1> DEFINE N == [entries |-> E, live |-> L, allocs |-> allocations[p],
                 pages |-> writable[p], wild |-> wild, got |-> <<>>]
<1>1. /\ image[p] = <<>> /\ given[p] = {} /\ passed[p] = {} /\ writable[p] = {}
      /\ Grants(allocations[p]) = {}
  BY NewOwnsNothing
<1>2. /\ N.entries = E /\ N.live = L /\ N.allocs = allocations[p]
      /\ N.pages = writable[p] /\ N.wild = wild
  OBVIOUS
<1>3. /\ allocations[p] \in [Indexes -> Pieces \cup {Empty}] /\ wild \subseteq {Null}
      /\ \A i, j \in Indexes :
           allocations[p][i] # Empty /\ allocations[p][i] = allocations[p][j] => i = j
      /\ E \in [Blocks -> SUBSET Flags] /\ L \subseteq Pieces
      /\ given \in [Procs -> SUBSET Pieces] /\ passed \in [Procs -> SUBSET Pieces]
  BY DEF MInv, StateType, ProcessOK, Sound, Pieces
<1>4. N \in MemType
  <2>1. <<>> \in Seq(Pieces \cup {Empty})
    OBVIOUS
  <2> QED BY <1>1, <1>3, <2>1 DEF MemType
<1> HIDE DEF N
<1>5. Good(N)
  BY <1>1, <1>2, <1>3, <1>4 DEF Good
<1>6. Store(p, N)
  BY <1>2, Unchanging DEF Store
<1>7. image' = [image EXCEPT ![p] = <<>>]
  BY <1>1, Unchanging
<1>8. held \subseteq N.live /\ \A q \in Procs \ {p} : Owned(q) \subseteq N.live
  <2>1. held \subseteq live /\ \A q \in Procs \ {p} : Owned(q) \subseteq live
    BY ProcessFacts
  <2> QED BY <1>2, <2>1
<1>9. /\ given' \in [Procs -> SUBSET Pieces] /\ given'[p] = {}
      /\ \A q \in Procs \ {p} : given'[q] = given[q]
      /\ passed' \in [Procs -> SUBSET Pieces] /\ passed'[p] = {}
      /\ \A q \in Procs \ {p} : passed'[q] = passed[q]
      /\ Grants(N.allocs) = {} /\ N.pages = {} /\ held' = held
  BY <1>1, <1>2, <1>3
<1>10. N.live \subseteq (live \ Owned(p)) \cup lost'
  BY <1>2, NewOwnsNothing
<1> QED BY <1>5, <1>6, <1>7, <1>8, <1>9, <1>10, EndStep

(* There is memory for the program and none for the stack.                 *)
LEMMA NoStackStep ==
  ASSUME MInv, 0 \notin Requests, NEW p \in Procs, process_load_ENOMEM(p)
  PROVE  MInv'
<1>1. ImageBlocks \in Requests /\ ImageBlocks > 0
  <2>1. ImageBlocks \in Requests
    BY MemoryAssumption
  <2> QED BY <2>1, HeapAssumption
<1>2. PICK s \in Start(entries, ImageBlocks) :
        /\ entries' = heap_mark_blocks_taken(entries, s, ImageBlocks)
        /\ live' = live \cup {<<s, ImageBlocks>>}
        /\ lost' = lost \cup {<<s, ImageBlocks>>}
  BY DEF process_load_ENOMEM
<1>3. s \in Blocks /\ heap_get_start_block(entries, ImageBlocks, s)
  BY DEF Start
<1> DEFINE E == heap_mark_blocks_taken(entries, s, ImageBlocks)
           L == live \cup {<<s, ImageBlocks>>}
<1>4. Sound(E, L)
  BY <1>1, <1>3, TakeSound DEF MInv
<1>5. /\ entries' = E /\ live' = L /\ live \subseteq L /\ status[p] = "new"
      /\ status' = [status EXCEPT ![p] = "ended"]
      /\ UNCHANGED <<allocations, image, writable, passed, held, given, wild>>
      /\ lost \subseteq lost' /\ L \subseteq live \cup lost'
  BY <1>2 DEF process_load_ENOMEM
<1> HIDE DEF E, L
<1> QED BY <1>4, <1>5, NotLoaded

(* There is no memory for the program, which is a raw binary.              *)
LEMMA NoImageStep ==
  ASSUME MInv, ~ElfWhenFull, NEW p \in Procs, process_load_NoImage(p)
  PROVE  MInv'
<1>1. Sound(entries, live) /\ live \subseteq live
  BY DEF MInv
<1>2. /\ entries' = entries /\ live' = live /\ status[p] = "new"
      /\ status' = [status EXCEPT ![p] = "ended"]
      /\ UNCHANGED <<allocations, image, writable, passed, held, given, wild>>
      /\ lost \subseteq lost' /\ live \subseteq live \cup lost'
  BY DEF process_load_NoImage
<1> QED BY <1>1, <1>2, NotLoaded

-----------------------------------------------------------------------------
(* A step of the rest of the kernel touches no piece of a process.         *)
LEMMA KernelStep ==
  ASSUME MInv, NEW E, NEW L, NEW H, Sound(E, L), entries' = E, live' = L, held' = H,
         H \subseteq L, \A p \in Procs : Owned(p) \subseteq L /\ Owned(p) \cap H = {},
         L \subseteq live \cup H, L \cap held \subseteq H,
         UNCHANGED <<status, allocations, image, writable, passed, given, wild, lost>>
  PROVE  MInv'
<1>1. StateType'
  BY DEF MInv, StateType
<1>2. \A p \in Procs : Owned(p)' = Owned(p) /\ Image(p)' = Image(p)
  BY DEF Owned, Image
<1>3. Sound(entries, live)'
  BY DEF Sound, Span, IsFree
<1>4. ASSUME NEW p \in Procs PROVE ProcessOK(p)'
  <2>1. ProcessOK(p) /\ Owned(p)' \subseteq live'
    BY <1>2 DEF MInv
  <2> QED BY <1>2, <2>1 DEF ProcessOK, Grants, Cover
<1>5. \A a \in live' : a \in held' \cup lost' \/ \E p \in Procs : a \in Owned(p)'
  BY <1>2 DEF MInv
<1> QED BY <1>1, <1>2, <1>3, <1>4, <1>5 DEF MInv

(* What a kernel step leaves alone.                                        *)
LEMMA OwnedFacts ==
  ASSUME MInv
  PROVE  /\ Sound(entries, live) /\ held \subseteq live
         /\ \A p \in Procs : Owned(p) \subseteq live /\ Owned(p) \cap held = {}
BY DEF MInv, StateType, ProcessOK

(* The kernel gets memory for itself that no process has.                  *)
LEMMA KernelAllocStep ==
  ASSUME MInv, NEW n \in Requests \ {0}, KernelAlloc(n)
  PROVE  MInv'
<1>1. n \in Requests /\ n > 0
  BY HeapAssumption
<1>2. PICK s \in Blocks :
         /\ heap_get_start_block(entries, n, s)
         /\ entries' = heap_mark_blocks_taken(entries, s, n)
         /\ live' = live \cup {<<s, n>>}
  BY DEF KernelAlloc, kmalloc
<1> DEFINE a == <<s, n>>
           E == heap_mark_blocks_taken(entries, s, n)
           L == live \cup {a}
           H == held \cup {a}
<1>3. Sound(E, L) /\ a \notin live
  BY <1>1, <1>2, OwnedFacts, TakeSound
<1>4. entries' = E /\ live' = L
      /\ UNCHANGED <<status, allocations, image, writable, passed, given, wild, lost>>
  BY <1>2 DEF KernelAlloc
<1> HIDE DEF E, a
<1>5. held' = H
  BY <1>3, <1>4 DEF KernelAlloc
<1>6. /\ H \subseteq L /\ L \subseteq live \cup H /\ L \cap held \subseteq H
      /\ \A p \in Procs : Owned(p) \subseteq L /\ Owned(p) \cap H = {}
  BY <1>3, OwnedFacts
<1> HIDE DEF L, H
<1> QED BY <1>3, <1>4, <1>5, <1>6, KernelStep

(* The kernel frees memory of its own.                                     *)
LEMMA KernelFreeStep ==
  ASSUME MInv, NEW a \in held, KernelFree(a)
  PROVE  MInv'
<1> DEFINE E == heap_mark_blocks_free(entries, a[1])
           L == live \ {a}
           H == held \ {a}
<1>1. entries' = E /\ live' = L /\ held' = H
      /\ UNCHANGED <<status, allocations, image, writable, passed, given, wild, lost>>
  BY DEF KernelFree, kfree
<1>2. Sound(E, L)
  BY OwnedFacts, FreeSound
<1>3. /\ H \subseteq L /\ L \subseteq live \cup H /\ L \cap held \subseteq H
      /\ \A p \in Procs : Owned(p) \subseteq L /\ Owned(p) \cap H = {}
  BY OwnedFacts
<1> HIDE DEF E, L, H
<1> QED BY <1>1, <1>2, <1>3, KernelStep

(* A step that changes nothing.                                            *)
LEMMA StutterStep ==
  ASSUME MInv, UNCHANGED mvars
  PROVE  MInv'
<1>1. /\ entries' = entries /\ live' = live /\ held' = held
      /\ UNCHANGED <<status, allocations, image, writable, passed, given, wild, lost>>
  BY DEF mvars, vars
<1> QED BY <1>1, OwnedFacts, KernelStep

(* Before the first process is loaded.                                     *)
LEMMA MemoryInit == MInit => MInv
<1> SUFFICES ASSUME MInit PROVE MInv
  OBVIOUS
<1>1. Sound(entries, live)
  BY InitHeapInv, HeapInvSound DEF MInit
<1>2. StateType
  BY DEF MInit, StateType
<1>3. ASSUME NEW p \in Procs
      PROVE  /\ status[p] = "new" /\ allocations[p] = [i \in Indexes |-> Empty]
             /\ image[p] = <<>> /\ writable[p] = {} /\ passed[p] = {} /\ given[p] = {}
  BY DEF MInit
<1>4. ASSUME NEW p \in Procs PROVE Image(p) = {} /\ Owned(p) = {}
  BY <1>3, ImageElements DEF Owned, Image, Elements
<1>5. ASSUME NEW p \in Procs PROVE ProcessOK(p)
  <2>1. Grants(allocations[p]) = {}
    BY <1>3 DEF Grants
  <2>2. Cover({}) = {}
    BY DEF Cover
  <2>3. \A i \in Indexes : allocations[p][i] = Empty
    BY <1>3
  <2> QED BY <1>3, <1>4, <2>1, <2>2, <2>3 DEF ProcessOK
<1>6. live = {} /\ held = {}
  BY DEF MInit, Init
<1> QED BY <1>1, <1>2, <1>4, <1>5, <1>6 DEF MInv

(* Every step keeps the invariant.                                         *)
LEMMA MemoryNext ==
  ASSUME 0 \notin Requests, BssBlocks = 0, ~ElfWhenFull, MInv, [MNext]_mvars
  PROVE  MInv'
<1>1. ASSUME NEW p \in Procs, NEW argc \in 0 .. MaxArguments, process_load(p, argc)
      PROVE  MInv'
  <2>1. argc \in Nat
    BY MemoryAssumption
  <2> QED BY <1>1, <2>1, LoadStep
<1>2. ASSUME NEW p \in Procs, process_load_ENOMEM(p) PROVE MInv'
  BY <1>2, NoStackStep
<1>3. ASSUME NEW p \in Procs, process_load_NoImage(p) PROVE MInv'
  BY <1>3, NoImageStep
<1>4. ASSUME NEW p \in Procs, process_terminate(p) PROVE MInv'
  BY <1>4, TerminateStep
<1>5. ASSUME NEW p \in Procs, NEW n \in Requests, Malloc(p, n) PROVE MInv'
  BY <1>5, MallocStep
<1>6. ASSUME NEW p \in Procs, NEW ptr \in Blocks \cup {Null}, Free(p, ptr) PROVE MInv'
  BY <1>6, FreeStep
<1>7. ASSUME NEW n \in Requests \ {0}, KernelAlloc(n) PROVE MInv'
  BY <1>7, KernelAllocStep
<1>8. ASSUME NEW a \in held, KernelFree(a) PROVE MInv'
  BY <1>8, KernelFreeStep
<1>9. CASE UNCHANGED mvars
  BY <1>9, StutterStep
<1> QED BY <1>1, <1>2, <1>3, <1>4, <1>5, <1>6, <1>7, <1>8, <1>9 DEF MNext

-----------------------------------------------------------------------------
(* The memory of processes keeps its invariant, as long as nobody asks for *)
(* 0 blocks, no segment is larger in memory than in the file and no ELF    *)
(* program is started without memory for it.  The code guarantees none of  *)
(* the three: README.md says what happens without each.                    *)
THEOREM MemoryInvariant ==
  ASSUME 0 \notin Requests, BssBlocks = 0, ~ElfWhenFull
  PROVE  MSpec => []MInv
BY MemoryInit, MemoryNext, PTL DEF MSpec

(* The type invariant: an array lists pieces that the heap has handed out  *)
(* and not taken back, and so do the images and the grants.                *)
THEOREM MemoryTypeCorrect ==
  ASSUME 0 \notin Requests, BssBlocks = 0, ~ElfWhenFull
  PROVE  MSpec => []MTypeOK
<1>1. MInv => MTypeOK
  <2> SUFFICES ASSUME MInv PROVE MTypeOK
    OBVIOUS
  <2>1. TypeOK
    BY DEF MInv, Sound, TypeOK
  <2>2. ASSUME NEW p \in Procs
        PROVE  /\ allocations[p] \in [Indexes -> live \cup {Empty}]
               /\ Image(p) \subseteq live /\ given[p] \subseteq live
    <3>1. /\ allocations[p] \in [Indexes -> Pieces \cup {Empty}]
          /\ Owned(p) \subseteq live /\ Grants(allocations[p]) = given[p]
      BY DEF MInv, StateType, ProcessOK
    <3>2. Image(p) \subseteq live /\ given[p] \subseteq live
      BY <3>1 DEF Owned
    <3>3. \A i \in Indexes : allocations[p][i] \in live \cup {Empty}
      BY <3>1, <3>2 DEF Grants
    <3> QED BY <3>1, <3>2, <3>3
  <2> QED BY <2>1, <2>2 DEF MInv, StateType, MTypeOK
<1> QED BY <1>1, MemoryInvariant, PTL

(* A process can write only the pages of its program, of its stack and of  *)
(* what process_malloc gave it and it still holds.                         *)
THEOREM MemoryWritesOnlyItsOwn ==
  ASSUME 0 \notin Requests, BssBlocks = 0, ~ElfWhenFull
  PROVE  MSpec => []WritesOnlyItsOwn
<1>1. MInv => WritesOnlyItsOwn
  BY DEF MInv, ProcessOK, Owned, Cover, WritesOnlyItsOwn
<1> QED BY <1>1, MemoryInvariant, PTL

(* Two processes never write the same page, and none writes a page of the  *)
(* kernel.                                                                 *)
THEOREM MemoryIsolation ==
  ASSUME 0 \notin Requests, BssBlocks = 0, ~ElfWhenFull
  PROVE  MSpec => []Isolation
<1>1. MInv => Isolation
  <2> SUFFICES ASSUME MInv PROVE Isolation
    OBVIOUS
  <2>1. /\ \A a, b \in live : a # b => Span(a) \cap Span(b) = {}
        /\ held \subseteq live
        /\ \A p \in Procs : Owned(p) \subseteq live /\ Owned(p) \cap held = {}
        /\ \A p, q \in Procs : p # q => Owned(p) \cap Owned(q) = {}
        /\ \A p \in Procs : writable[p] = Cover(Owned(p))
    BY OwnedFacts DEF MInv, Sound, ProcessOK
  <2>2. ASSUME NEW A \in SUBSET live, NEW B \in SUBSET live, A \cap B = {}
        PROVE  Cover(A) \cap Cover(B) = {}
    BY <2>1, <2>2 DEF Cover
  <2>3. ASSUME NEW p \in Procs, NEW q \in Procs \ {p}
        PROVE  writable[p] \cap writable[q] = {}
    BY <2>1, <2>2
  <2>4. ASSUME NEW p \in Procs, NEW a \in held PROVE writable[p] \cap Span(a) = {}
    <3>1. Span(a) = Cover({a}) /\ {a} \in SUBSET live /\ Owned(p) \cap {a} = {}
      BY <2>1 DEF Cover
    <3> QED BY <2>1, <2>2, <3>1
  <2> QED BY <2>3, <2>4 DEF Isolation
<1> QED BY <1>1, MemoryInvariant, PTL

(* The arguments a program was told of are in its array and in pages it    *)
(* can write, until it frees them itself.                                  *)
THEOREM MemoryArgumentsSound ==
  ASSUME 0 \notin Requests, BssBlocks = 0, ~ElfWhenFull
  PROVE  MSpec => []ArgumentsSound
<1>1. MInv => ArgumentsSound
  <2> SUFFICES ASSUME MInv, NEW p \in Procs, NEW a \in passed[p]
               PROVE  /\ a \in given[p] /\ Span(a) \subseteq writable[p]
                      /\ \E i \in Indexes : allocations[p][i] = a
    BY DEF ArgumentsSound
  <2>1. /\ a \in given[p] /\ a \in Owned(p) /\ writable[p] = Cover(Owned(p))
        /\ a \in Grants(allocations[p])
    <3>1. ProcessOK(p)
      BY DEF MInv
    <3>2. a \in given[p] /\ writable[p] = Cover(Owned(p)) /\ Grants(allocations[p]) = given[p]
      BY <3>1 DEF ProcessOK
    <3> QED BY <3>2 DEF Owned
  <2> QED BY <2>1 DEF Cover, Grants
<1> QED BY <1>1, MemoryInvariant, PTL

(* The array of a process lists each piece it holds exactly once.          *)
THEOREM MemoryArrayListsGrants ==
  ASSUME 0 \notin Requests, BssBlocks = 0, ~ElfWhenFull
  PROVE  MSpec => []ArrayListsGrants
<1>1. MInv => ArrayListsGrants
  <2> SUFFICES ASSUME MInv, NEW p \in Procs
               PROVE  LET used == {i \in Indexes : allocations[p][i] # Empty}
                      IN  /\ {allocations[p][i] : i \in used} = given[p]
                          /\ Cardinality(used) = Cardinality(given[p])
    BY DEF ArrayListsGrants
  <2> DEFINE used == {i \in Indexes : allocations[p][i] # Empty}
             f == [i \in used |-> allocations[p][i]]
  <2>1. /\ Grants(allocations[p]) = given[p]
        /\ \A i, j \in Indexes :
             allocations[p][i] # Empty /\ allocations[p][i] = allocations[p][j] => i = j
    BY DEF MInv, ProcessOK
  <2>2. {allocations[p][i] : i \in used} = given[p]
    BY <2>1 DEF Grants
  <2>3. IsFiniteSet(used)
    <3>1. IsFiniteSet(Indexes)
      <4>1. 0 \in Int /\ MaxAllocations - 1 \in Int
        BY MemoryAssumption
      <4> QED BY <4>1, FS_Interval DEF Indexes
    <3>2. used \in SUBSET Indexes
      OBVIOUS
    <3> HIDE DEF used
    <3> QED BY <3>1, <3>2, FS_Subset
  <2>4. f \in Bijection(used, given[p])
    <3>1. \A i, j \in used : f[i] = f[j] => i = j
      BY <2>1
    <3>2. f \in [used -> given[p]] /\ \A b \in given[p] : \E i \in used : f[i] = b
      BY <2>2
    <3> HIDE DEF f, used
    <3> QED BY <3>1, <3>2, Fun_IsBij
  <2> HIDE DEF f
  <2>5. Cardinality(used) = Cardinality(given[p])
    <3> HIDE DEF used
    <3>1. ExistsBijection(used, given[p])
      BY <2>4 DEF ExistsBijection
    <3> QED BY <2>3, <3>1, FS_Bijection
  <2> QED BY <2>2, <2>5
<1> QED BY <1>1, MemoryInvariant, PTL

(* A process that ends leaves nothing behind: what the heap has handed out *)
(* belongs to the kernel or to a process that runs, or it is a program     *)
(* that was loaded without finding a stack.                                *)
THEOREM MemoryEndedHoldsNothing ==
  ASSUME 0 \notin Requests, BssBlocks = 0, ~ElfWhenFull
  PROVE  MSpec => []EndedHoldsNothing
<1>1. MInv => EndedHoldsNothing
  <2> SUFFICES ASSUME MInv, NEW a \in live, a \notin held \cup lost
               PROVE  \E p \in Procs : status[p] = "running" /\ a \in Image(p) \cup given[p]
    BY DEF EndedHoldsNothing
  <2>1. PICK p \in Procs : a \in Owned(p)
    BY DEF MInv
  <2>2. /\ status[p] # "running" => image[p] = <<>> /\ given[p] = {}
        /\ Image(p) = Elements(image[p]) /\ Owned(p) = Image(p) \cup given[p]
    BY ProcessFacts DEF ProcessOK
  <2>3. status[p] = "running"
    BY <2>1, <2>2, ImageElements
  <2> QED BY <2>1, <2>2, <2>3
<1> QED BY <1>1, MemoryInvariant, PTL
=============================================================================
