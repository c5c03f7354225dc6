---------------------------- MODULE KernelProofs ----------------------------
(***************************************************************************)
(* The list of tasks, the context switch, the table of processes and the   *)
(* shells, for every number of tasks, processes, slots and shells.         *)
(***************************************************************************)
EXTENDS Kernel, Foundations, FunctionTheorems, FiniteSetTheorems, SequenceTheorems

-----------------------------------------------------------------------------
(* The list of tasks.                                                      *)

Lists == [head : Pointers, tail : Pointers, current : Pointers,
          next : [Tasks -> Pointers], prev : [Tasks -> Pointers]]

(* The links of L lead through the tasks A in the order s.                 *)
Linked(s, L, A) ==
  /\ s \in Seq(A)
  /\ \A i, j \in 1 .. Len(s) : s[i] = s[j] => i = j
  /\ \A t \in A : \E i \in 1 .. Len(s) : s[i] = t
  /\ s = <<>> => L.head = NULL
  /\ s # <<>> => L.head = s[1] /\ L.tail = s[Len(s)]
  /\ \A i \in 1 .. Len(s) : L.next[s[i]] = IF i = Len(s) THEN NULL ELSE s[i + 1]

(* The parts of a list that task_new changes.                              *)
LEMMA NewFields ==
  ASSUME NEW L \in Lists, NEW t \in Tasks, L.head # NULL => L.tail \in Tasks \ {t}
  PROVE  LET N == task_new(L, t)
         IN  /\ N \in Lists
             /\ L.head = NULL =>
                  /\ N.head = t /\ N.tail = t /\ N.current = t
                  /\ N.next = [L.next EXCEPT ![t] = NULL]
                  /\ N.prev = [L.prev EXCEPT ![t] = NULL]
             /\ L.head # NULL =>
                  /\ N.head = L.head /\ N.tail = t /\ N.current = L.current
                  /\ N.next = [L.next EXCEPT ![t] = NULL, ![L.tail] = t]
                  /\ N.prev = [L.prev EXCEPT ![t] = L.tail]
<1>1. NULL \notin Tasks /\ t \in Pointers /\ NULL \in Pointers
  BY TaskAssumption DEF Pointers
<1>2. L = [head |-> L.head, tail |-> L.tail, current |-> L.current,
           next |-> L.next, prev |-> L.prev]
      /\ L.next \in [Tasks -> Pointers] /\ L.prev \in [Tasks -> Pointers]
      /\ L.head \in Pointers /\ L.tail \in Pointers /\ L.current \in Pointers
  BY DEF Lists
<1>3. CASE L.head = NULL
  <2>1. task_new(L, t) = [head |-> t, tail |-> t, current |-> t,
                          next |-> [L.next EXCEPT ![t] = NULL],
                          prev |-> [L.prev EXCEPT ![t] = NULL]]
    BY <1>2, <1>3 DEF task_new
  <2> QED BY <1>1, <1>2, <1>3, <2>1 DEF Lists
<1>4. CASE L.head # NULL
  <2>1. task_new(L, t) = [head |-> L.head, tail |-> t, current |-> L.current,
                          next |-> [[L.next EXCEPT ![t] = NULL] EXCEPT ![L.tail] = t],
                          prev |-> [[L.prev EXCEPT ![t] = NULL] EXCEPT ![t] = L.tail]]
    BY <1>2, <1>4 DEF task_new
  <2>2. /\ [[L.prev EXCEPT ![t] = NULL] EXCEPT ![t] = L.tail] = [L.prev EXCEPT ![t] = L.tail]
        /\ [L.prev EXCEPT ![t] = L.tail] \in [Tasks -> Pointers]
    BY <1>1, <1>2
  <2>3. /\ [[L.next EXCEPT ![t] = NULL] EXCEPT ![L.tail] = t]
             = [L.next EXCEPT ![t] = NULL, ![L.tail] = t]
        /\ [[L.next EXCEPT ![t] = NULL] EXCEPT ![L.tail] = t] \in [Tasks -> Pointers]
    BY <1>1, <1>2
  <2> QED BY <1>1, <1>2, <1>4, <2>1, <2>2, <2>3 DEF Lists
<1> QED BY <1>3, <1>4

(* The parts of a list that task_list_remove changes.                      *)
LEMMA RemoveFields ==
  ASSUME NEW L \in Lists, NEW t \in Tasks
  PROVE  LET N == task_list_remove(L, t)
             p == L.prev[t]
         IN  /\ N \in Lists /\ N.prev = L.prev
             /\ N.next = IF p = NULL THEN L.next ELSE [L.next EXCEPT ![p] = L.next[t]]
             /\ N.head = IF t = L.head THEN N.next[t] ELSE L.head
             /\ N.tail = IF t = L.tail THEN p ELSE L.tail
             /\ N.current = IF t # L.current THEN L.current
                            ELSE IF N.next[t] = NULL THEN N.head ELSE N.next[t]
<1> DEFINE p == L.prev[t]
           A == IF L.prev[t] = NULL THEN L
                ELSE [L EXCEPT !.next[L.prev[t]] = L.next[t]]
           B == IF t = A.head THEN [A EXCEPT !.head = A.next[t]] ELSE A
           C == IF t = B.tail THEN [B EXCEPT !.tail = B.prev[t]] ELSE B
           D == IF t = C.current THEN [C EXCEPT !.current = task_get_next(C)] ELSE C
           next == IF p = NULL THEN L.next ELSE [L.next EXCEPT ![p] = L.next[t]]
           head == IF t = L.head THEN next[t] ELSE L.head
           tail == IF t = L.tail THEN p ELSE L.tail
           current == IF t # L.current THEN L.current
                      ELSE IF next[t] = NULL THEN head ELSE next[t]
<1>1. /\ L = [head |-> L.head, tail |-> L.tail, current |-> L.current,
              next |-> L.next, prev |-> L.prev]
      /\ L.next \in [Tasks -> Pointers] /\ L.prev \in [Tasks -> Pointers]
      /\ L.head \in Pointers /\ L.tail \in Pointers /\ L.current \in Pointers
      /\ p \in Pointers
  BY DEF Lists
<1>2. A = [head |-> L.head, tail |-> L.tail, current |-> L.current,
           next |-> next, prev |-> L.prev]
  BY <1>1
<1>3. next \in [Tasks -> Pointers]
  BY <1>1 DEF Pointers
<1>4. head \in Pointers /\ tail \in Pointers
  BY <1>1, <1>3
<1> HIDE DEF A, next
<1>5. B = [head |-> head, tail |-> L.tail, current |-> L.current,
           next |-> next, prev |-> L.prev]
  BY <1>2
<1> HIDE DEF B, head
<1>6. C = [head |-> head, tail |-> tail, current |-> L.current,
           next |-> next, prev |-> L.prev]
  BY <1>5
<1> HIDE DEF C, tail
<1>7. D = [head |-> head, tail |-> tail, current |-> current,
           next |-> next, prev |-> L.prev]
  <2>1. CASE t = L.current
    BY <1>6, <2>1 DEF task_get_next
  <2>2. CASE t # L.current
    BY <1>6, <2>2
  <2> QED BY <2>1, <2>2
<1>8. D \in Lists
  BY <1>1, <1>3, <1>4, <1>7 DEF Lists
<1>9. task_list_remove(L, t) = D
  BY DEF task_list_remove, A, B, C
<1> HIDE DEF D, current
<1>10. /\ D.prev = L.prev /\ D.next = next /\ D.head = head /\ D.tail = tail /\ D.current = current
  BY <1>7
<1>11. /\ D.next = IF p = NULL THEN L.next ELSE [L.next EXCEPT ![p] = L.next[t]]
       /\ D.head = IF t = L.head THEN D.next[t] ELSE L.head
       /\ D.tail = IF t = L.tail THEN p ELSE L.tail
       /\ D.current = IF t # L.current THEN L.current
                      ELSE IF D.next[t] = NULL THEN D.head ELSE D.next[t]
  <2>1. D.next = IF p = NULL THEN L.next ELSE [L.next EXCEPT ![p] = L.next[t]]
    BY <1>10 DEF next
  <2>2. D.head = IF t = L.head THEN D.next[t] ELSE L.head
    BY <1>10 DEF head
  <2>3. D.tail = IF t = L.tail THEN p ELSE L.tail
    BY <1>10 DEF tail
  <2>4. D.current = IF t # L.current THEN L.current
                    ELSE IF D.next[t] = NULL THEN D.head ELSE D.next[t]
    BY <1>10 DEF current
  <2> QED BY <2>1, <2>2, <2>3, <2>4
<1> QED BY <1>8, <1>9, <1>10, <1>11, Zenon

-----------------------------------------------------------------------------
(* The elements of a sequence with one more at its end.                    *)
LEMMA AppendElements ==
  ASSUME NEW S, NEW T, S \subseteq T, NEW s \in Seq(S), NEW x \in T
  PROVE  /\ Append(s, x) \in Seq(T) /\ Len(Append(s, x)) = Len(s) + 1
         /\ Len(s) \in Nat /\ Append(s, x) # <<>>
         /\ \A i \in 1 .. Len(s) : Append(s, x)[i] = s[i]
         /\ Append(s, x)[Len(s) + 1] = x
<1>1. s \in Seq(T) /\ Len(s) \in Nat
  OBVIOUS
<1> QED BY <1>1, AppendProperties

(* A sequence without its i-th element.                                    *)
Without(s, i) == [j \in 1 .. (Len(s) - 1) |-> IF j < i THEN s[j] ELSE s[j + 1]]

(* Without is the RemoveAt of the run queue.                               *)
LEMMA WithoutIsRemoveAt ==
  ASSUME NEW S, NEW s \in Seq(S), NEW i \in 1 .. Len(s)
  PROVE  Without(s, i) = Queue!RemoveAt(s, i)
<1> DEFINE a == SubSeq(s, 1, i - 1)
           b == SubSeq(s, i + 1, Len(s))
<1>0. Len(s) \in Nat /\ i \in Int /\ \A j \in 1 .. Len(s) : s[j] \in S
  OBVIOUS
<1>1. /\ a \in Seq(S) /\ Len(a) = i - 1
      /\ \A j \in 1 .. (i - 1) : a[j] = s[j]
  BY <1>0, SubSeqProperties
<1>2. /\ b \in Seq(S) /\ Len(b) = Len(s) - i
      /\ \A j \in 1 .. (Len(s) - i) : b[j] = s[i + j]
  BY <1>0, SubSeqProperties
<1> HIDE DEF a, b
<1>3. /\ a \o b \in Seq(S) /\ Len(a \o b) = Len(s) - 1
      /\ \A j \in 1 .. (Len(s) - 1) : (a \o b)[j] = IF j <= i - 1 THEN a[j] ELSE b[j - (i - 1)]
  <2>1. Len(a) + Len(b) = Len(s) - 1
    BY <1>0, <1>1, <1>2
  <2>2. a \in Seq(S) /\ b \in Seq(S)
    BY <1>1, <1>2
  <2>3. /\ a \o b \in Seq(S) /\ Len(a \o b) = Len(a) + Len(b)
        /\ \A j \in 1 .. (Len(a) + Len(b)) :
             (a \o b)[j] = IF j <= Len(a) THEN a[j] ELSE b[j - Len(a)]
    BY <2>2, ConcatProperties
  <2>4. Len(a) = i - 1
    BY <1>1
  <2> HIDE DEF a, b
  <2> QED BY <2>1, <2>3, <2>4
<1>4. ASSUME NEW j \in 1 .. (Len(s) - 1) PROVE (a \o b)[j] = Without(s, i)[j]
  <2>1. CASE j < i
    BY <1>0, <1>1, <1>3, <2>1 DEF Without
  <2>2. CASE j >= i
    <3>1. j - (i - 1) \in 1 .. (Len(s) - i) /\ i + (j - (i - 1)) = j + 1
      BY <1>0, <2>2
    <3>2. (a \o b)[j] = b[j - (i - 1)]
      BY <1>0, <1>3, <2>2
    <3>3. Without(s, i)[j] = s[j + 1]
      BY <1>0, <2>2 DEF Without
    <3>4. b[j - (i - 1)] = s[i + (j - (i - 1))]
      <4> DEFINE k == j - (i - 1)
      <4> HIDE DEF k
      <4>1. k \in 1 .. (Len(s) - i) => b[k] = s[i + k]
        BY <1>2
      <4> QED BY <3>1, <4>1 DEF k
    <3>5. s[i + (j - (i - 1))] = s[j + 1]
      BY <3>1
    <3> QED BY <3>2, <3>3, <3>4, <3>5
  <2>3. j < i \/ j >= i
    BY <1>0
  <2> QED BY <2>1, <2>2, <2>3
<1>5. Without(s, i) \in Seq(S) /\ Len(Without(s, i)) = Len(s) - 1
  BY <1>0 DEF Without
<1>6. Without(s, i) = a \o b
  BY <1>3, <1>4, <1>5, SeqEqual
<1> QED BY <1>6 DEF a, b, Queue!RemoveAt

-----------------------------------------------------------------------------
(* The last task of the order s, NULL if there is none.                    *)
LastOf(s) == IF s = <<>> THEN NULL ELSE s[Len(s)]

(* A new task joins at the end of the list.                                *)
LEMMA LinkedNew ==
  ASSUME NEW L \in Lists, NEW A \in SUBSET Tasks, NEW s, Linked(s, L, A),
         NEW t \in Tasks, t \notin A
  PROVE  /\ task_new(L, t) \in Lists
         /\ Linked(Append(s, t), task_new(L, t), A \cup {t})
         /\ s = <<>> => task_new(L, t).current = t /\ task_new(L, t).head = t
         /\ s # <<>> => /\ task_new(L, t).current = L.current
                        /\ task_new(L, t).head = L.head
         /\ task_new(L, t).prev = [L.prev EXCEPT ![t] = LastOf(s)]
<1> DEFINE N == task_new(L, t)
           q == Append(s, t)
           n == Len(s)
<1>0. /\ s \in Seq(A) /\ n \in Nat /\ NULL \notin Tasks
      /\ \A i \in 1 .. n : s[i] \in A /\ s[i] \in Tasks /\ s[i] # t
      /\ s = <<>> <=> n = 0
  BY TaskAssumption DEF Linked
<1>1. q \in Seq(A \cup {t}) /\ Len(q) = n + 1 /\ q # <<>>
      /\ (\A i \in 1 .. n : q[i] = s[i]) /\ q[n + 1] = t
  BY <1>0, AppendElements
<1>2. L.next \in [Tasks -> Pointers] /\ L.prev \in [Tasks -> Pointers]
  BY DEF Lists
<1>3. (\A i, j \in 1 .. Len(q) : q[i] = q[j] => i = j)
  <2> SUFFICES ASSUME NEW i \in 1 .. (n + 1), NEW j \in 1 .. (n + 1), q[i] = q[j]
               PROVE  i = j
    BY <1>1
  <2>1. CASE i = n + 1 \/ j = n + 1
    BY <1>0, <1>1, <2>1
  <2>2. CASE i \in 1 .. n /\ j \in 1 .. n
    BY <1>1, <2>2 DEF Linked
  <2> QED BY <1>0, <2>1, <2>2
<1>4. \A u \in A \cup {t} : \E i \in 1 .. Len(q) : q[i] = u
  <2> SUFFICES ASSUME NEW u \in A \cup {t} PROVE \E i \in 1 .. (n + 1) : q[i] = u
    BY <1>1
  <2>1. CASE u = t
    BY <1>0, <1>1, <2>1
  <2>2. CASE u \in A
    <3>1. PICK i \in 1 .. n : s[i] = u
      BY <2>2 DEF Linked
    <3>2. i \in 1 .. (n + 1) /\ q[i] = u
      BY <1>0, <1>1, <3>1
    <3> QED BY <3>2
  <2> QED BY <2>1, <2>2
<1>5. CASE s = <<>>
  <2>1. L.head = NULL
    BY <1>5 DEF Linked
  <2>2. /\ N \in Lists /\ N.head = t /\ N.tail = t /\ N.current = t
        /\ N.next = [L.next EXCEPT ![t] = NULL] /\ N.prev = [L.prev EXCEPT ![t] = NULL]
    BY <2>1, NewFields
  <2> HIDE DEF N, q
  <2>3. Len(q) = 1 /\ q[1] = t /\ n = 0
    BY <1>0, <1>1, <1>5
  <2>4. \A i \in 1 .. Len(q) : N.next[q[i]] = IF i = Len(q) THEN NULL ELSE q[i + 1]
    BY <1>2, <2>2, <2>3
  <2>5. Linked(q, N, A \cup {t})
    BY <1>1, <1>3, <1>4, <2>2, <2>3, <2>4 DEF Linked
  <2> QED BY <1>5, <2>2, <2>5 DEF N, q, LastOf
<1>6. CASE s # <<>>
  <2>1. L.head = s[1] /\ L.tail = s[n] /\ n > 0 /\ n \in 1 .. n
    BY <1>0, <1>6 DEF Linked
  <2>2. L.head # NULL /\ L.tail \in Tasks \ {t}
    BY <1>0, <2>1
  <2>3. /\ N \in Lists /\ N.head = L.head /\ N.tail = t /\ N.current = L.current
        /\ N.next = [L.next EXCEPT ![t] = NULL, ![L.tail] = t]
        /\ N.prev = [L.prev EXCEPT ![t] = L.tail]
    BY <2>2, NewFields, ZenonT(30)
  <2> HIDE DEF N, q
  <2>4. q[1] = N.head
    BY <1>0, <1>1, <2>1, <2>3
  <2>5. ASSUME NEW i \in 1 .. (n + 1)
        PROVE  N.next[q[i]] = IF i = n + 1 THEN NULL ELSE q[i + 1]
    <3>1. CASE i = n + 1
      BY <1>1, <1>2, <2>2, <2>3, <3>1
    <3>2. CASE i = n
      BY <1>0, <1>1, <1>2, <2>1, <2>2, <2>3, <3>2
    <3>3. CASE i \in 1 .. (n - 1)
      <4>1. /\ i \in 1 .. n /\ i + 1 \in 1 .. n /\ i # n /\ i # n + 1
        BY <1>0, <3>3
      <4>2. L.next[s[i]] = s[i + 1] /\ s[i] # L.tail /\ s[i] # t
        <5>1. L.next[s[i]] = IF i = n THEN NULL ELSE s[i + 1]
          BY <4>1 DEF Linked
        <5>2. s[i] = s[n] => i = n
          BY <2>1, <4>1 DEF Linked
        <5> QED BY <1>0, <2>1, <4>1, <5>1, <5>2
      <4>3. N.next[s[i]] = L.next[s[i]]
        BY <1>0, <1>2, <2>3, <4>1, <4>2
      <4> QED BY <1>1, <4>1, <4>2, <4>3
    <3> QED BY <1>0, <3>1, <3>2, <3>3
  <2>6. Linked(q, N, A \cup {t})
    <3>1. \A i \in 1 .. Len(q) : N.next[q[i]] = IF i = Len(q) THEN NULL ELSE q[i + 1]
      BY <1>1, <2>5
    <3>2. N.head = q[1] /\ N.tail = q[Len(q)]
      BY <1>1, <2>3, <2>4
    <3> QED BY <1>1, <1>3, <1>4, <3>1, <3>2 DEF Linked
  <2> QED BY <1>2, <1>6, <2>1, <2>3, <2>6 DEF N, q, LastOf
<1> QED BY <1>5, <1>6

(* The task that follows the current one, round and round.                 *)
LEMMA LinkedNext ==
  ASSUME NEW L \in Lists, NEW A \in SUBSET Tasks, NEW s, Linked(s, L, A),
         NEW i \in 1 .. Len(s), L.current = s[i]
  PROVE  /\ task_get_next(L) = IF i = Len(s) THEN s[1] ELSE s[i + 1]
         /\ task_get_next(L) \in A
<1>1. /\ Len(s) \in Nat /\ NULL \notin Tasks /\ s # <<>>
      /\ \A j \in 1 .. Len(s) : s[j] \in A
  BY TaskAssumption, SMTT(20) DEF Linked
<1>2. CASE i = Len(s)
  <2>1. L.next[L.current] = NULL /\ L.head = s[1] /\ 1 \in 1 .. Len(s)
    BY <1>1, <1>2 DEF Linked
  <2> QED BY <1>1, <1>2, <2>1 DEF task_get_next
<1>3. CASE i # Len(s)
  <2>1. L.next[L.current] = s[i + 1] /\ i + 1 \in 1 .. Len(s)
    BY <1>1, <1>3 DEF Linked
  <2>2. s[i + 1] # NULL
    BY <1>1, <2>1
  <2> QED BY <1>1, <1>3, <2>1, <2>2 DEF task_get_next
<1> QED BY <1>2, <1>3

(* The elements of a sequence without its i-th.                            *)
LEMMA WithoutElements ==
  ASSUME NEW S, NEW s \in Seq(S), NEW i \in 1 .. Len(s)
  PROVE  /\ Without(s, i) \in Seq(S) /\ Len(Without(s, i)) = Len(s) - 1
         /\ Len(s) \in Nat
         /\ \A j \in 1 .. (Len(s) - 1) : Without(s, i)[j] = IF j < i THEN s[j] ELSE s[j + 1]
<1>1. Len(s) \in Nat /\ Len(s) - 1 \in Nat
  OBVIOUS
<1>2. ASSUME NEW j \in 1 .. (Len(s) - 1)
      PROVE  (IF j < i THEN s[j] ELSE s[j + 1]) \in S
  <2>1. j \in 1 .. Len(s) /\ j + 1 \in 1 .. Len(s)
    BY <1>1
  <2> QED BY <2>1
<1> QED BY <1>1, <1>2 DEF Without

(* What removing the i-th task of the order s leaves of the list L: the    *)
(* order without it, and the task that followed as the current one.        *)
Removed(s, i, L, A) ==
  LET N == task_list_remove(L, s[i])
      q == Without(s, i)
  IN  /\ N \in Lists /\ Linked(q, N, A \ {s[i]}) /\ N.prev = L.prev
      /\ q = <<>> => N.current = NULL
      /\ q # <<>> => N.current = IF i > Len(q) THEN q[1] ELSE q[i]

(* A task that exits in order leaves the list, and the one behind it, or   *)
(* the head, becomes current.                                              *)
LEMMA LinkedRemove ==
  ASSUME NEW L \in Lists, NEW A \in SUBSET Tasks, NEW s, Linked(s, L, A),
         NEW i \in 1 .. Len(s), L.current = s[i],
         IF i = 1 THEN L.prev[s[i]] \notin A ELSE L.prev[s[i]] = s[i - 1]
  PROVE  Removed(s, i, L, A)
<1> DEFINE t == s[i]
           N == task_list_remove(L, s[i])
           q == Without(s, i)
           n == Len(s)
           p == L.prev[s[i]]
<1>0. /\ s \in Seq(A) /\ n \in Nat /\ NULL \notin Tasks /\ i \in Nat /\ t \in A /\ t \in Tasks
      /\ \A j \in 1 .. n : s[j] \in A /\ s[j] \in Tasks /\ s[j] # NULL
      /\ \A j, k \in 1 .. n : s[j] = s[k] => j = k
      /\ \A j \in 1 .. n : L.next[s[j]] = IF j = n THEN NULL ELSE s[j + 1]
      /\ L.head = s[1] /\ L.tail = s[n] /\ 1 \in 1 .. n /\ n \in 1 .. n
  <2>1. s \in Seq(A) /\ n \in Nat /\ NULL \notin Tasks /\ i \in Nat /\ 1 \in 1 .. n /\ n \in 1 .. n
    BY TaskAssumption DEF Linked
  <2>2. \A j \in 1 .. n : s[j] \in A /\ s[j] \in Tasks /\ s[j] # NULL
    BY <2>1
  <2>3. s # <<>>
    BY <2>1
  <2> QED BY <2>1, <2>2, <2>3 DEF Linked
<1>1. /\ q \in Seq(A) /\ Len(q) = n - 1
      /\ \A j \in 1 .. (n - 1) : q[j] = IF j < i THEN s[j] ELSE s[j + 1]
  BY <1>0, WithoutElements
<1>2. /\ N \in Lists /\ N.prev = L.prev
      /\ N.next = IF p = NULL THEN L.next ELSE [L.next EXCEPT ![p] = L.next[t]]
      /\ N.head = IF t = L.head THEN N.next[t] ELSE L.head
      /\ N.tail = IF t = L.tail THEN p ELSE L.tail
      /\ N.current = IF N.next[t] = NULL THEN N.head ELSE N.next[t]
  <2>1. t \in Tasks /\ t = L.current
    BY <1>0
  <2>2. /\ N \in Lists
        /\ N.next = IF p = NULL THEN L.next ELSE [L.next EXCEPT ![p] = L.next[t]]
        /\ N.head = IF t = L.head THEN N.next[t] ELSE L.head
        /\ N.tail = IF t = L.tail THEN p ELSE L.tail
        /\ N.current = IF t # L.current THEN L.current
                       ELSE IF N.next[t] = NULL THEN N.head ELSE N.next[t]
    BY <2>1, RemoveFields, ZenonT(30)
  <2>3. N.prev = L.prev
    BY <2>1, RemoveFields, ZenonT(30)
  <2> HIDE DEF N, t, p
  <2> QED BY <2>1, <2>2, <2>3
<1>3. L.next \in [Tasks -> Pointers] /\ (t = L.head <=> i = 1) /\ (t = L.tail <=> i = n)
  <2>1. L.next \in [Tasks -> Pointers]
    BY DEF Lists
  <2>2. /\ \A j, k \in 1 .. n : s[j] = s[k] => j = k
        /\ L.head = s[1] /\ L.tail = s[n] /\ 1 \in 1 .. n /\ n \in 1 .. n /\ i \in 1 .. n
    BY <1>0
  <2> QED BY <2>1, <2>2
<1>4. IF i = 1 THEN p \notin A ELSE p = s[i - 1]
  OBVIOUS
<1>4a. p \in Pointers
  BY <1>0 DEF Lists
<1> HIDE DEF N, q, p
<1>5. /\ i = 1 => \A j \in 1 .. n : N.next[s[j]] = L.next[s[j]]
      /\ i # 1 => /\ i - 1 \in 1 .. n /\ p = s[i - 1] /\ p # t
                 /\ N.next = [L.next EXCEPT ![s[i - 1]] = L.next[t]]
  <2>1. CASE i = 1
    <3>1. \A j \in 1 .. n : s[j] # p /\ s[j] \in Tasks
      BY <1>0, <1>4, <2>1
    <3>2. N.next = L.next \/ N.next = [L.next EXCEPT ![p] = L.next[t]]
      BY <1>2
    <3> HIDE DEF n, t
    <3> QED BY <1>3, <2>1, <3>1, <3>2
  <2>2. CASE i # 1
    <3>1. i - 1 \in 1 .. n /\ i - 1 # i
      BY <1>0, <2>2
    <3>2. p = s[i - 1] /\ p # NULL /\ p # t
      BY <1>0, <1>4, <2>2, <3>1
    <3> QED BY <1>2, <2>2, <3>1, <3>2
  <2> QED BY <2>1, <2>2
<1>6. N.next[t] = IF i = n THEN NULL ELSE s[i + 1]
  BY <1>0, <1>3, <1>5
<1>7. ASSUME NEW j \in 1 .. n, j # i
      PROVE  N.next[s[j]] = IF j = i - 1 THEN (IF i = n THEN NULL ELSE s[i + 1])
                            ELSE IF j = n THEN NULL ELSE s[j + 1]
  BY <1>0, <1>3, <1>5
<1>8. \A j \in 1 .. (n - 1) : q[j] \in A \ {t}
  <2> SUFFICES ASSUME NEW j \in 1 .. (n - 1) PROVE q[j] \in A /\ q[j] # t
    OBVIOUS
  <2>1. j \in 1 .. n /\ j + 1 \in 1 .. n
    BY <1>0
  <2>2. CASE j < i
    BY <1>0, <1>1, <2>1, <2>2
  <2>3. CASE ~(j < i)
    BY <1>0, <1>1, <2>1, <2>3
  <2> QED BY <2>2, <2>3
<1>9. q \in Seq(A \ {t})
  <2>1. q = [j \in 1 .. (n - 1) |-> q[j]] /\ n - 1 \in Nat
    BY <1>0, <1>1, LenProperties
  <2> QED BY <1>8, <2>1
<1>10. \A j, k \in 1 .. (n - 1) : q[j] = q[k] => j = k
  <2> SUFFICES ASSUME NEW j \in 1 .. (n - 1), NEW k \in 1 .. (n - 1), q[j] = q[k]
               PROVE  j = k
    OBVIOUS
  <2>1. j \in 1 .. n /\ j + 1 \in 1 .. n /\ k \in 1 .. n /\ k + 1 \in 1 .. n
    BY <1>0
  <2> DEFINE f(x) == IF x < i THEN x ELSE x + 1
  <2>2. f(j) \in 1 .. n /\ f(k) \in 1 .. n /\ s[f(j)] = s[f(k)]
    BY <1>1, <2>1
  <2>3. f(j) = f(k)
    BY <1>0, <2>2
  <2> QED BY <1>0, <2>1, <2>3
<1>11. ASSUME NEW u \in A \ {t} PROVE \E j \in 1 .. (n - 1) : q[j] = u
  <2>1. PICK k \in 1 .. n : s[k] = u
    BY DEF Linked
  <2>2. k # i
    BY <2>1
  <2>3. CASE k < i
    <3>1. k \in 1 .. (n - 1) /\ q[k] = u
      BY <1>0, <1>1, <2>1, <2>3
    <3> QED BY <3>1
  <2>4. CASE k > i
    <3>1. k - 1 \in 1 .. (n - 1) /\ ~(k - 1 < i) /\ (k - 1) + 1 = k
      BY <1>0, <2>4
    <3>2. q[k - 1] = s[(k - 1) + 1]
      BY <1>1, <3>1
    <3> QED BY <2>1, <3>1, <3>2
  <2> QED BY <1>0, <2>2, <2>3, <2>4
<1>12. q = <<>> <=> n = 1
  BY <1>0, <1>1
<1>13. n = 1 => N.head = NULL /\ N.current = NULL
  BY <1>0, <1>2, <1>3, <1>6
<1>14. n > 1 => N.head = q[1]
  <2> SUFFICES ASSUME n > 1 PROVE N.head = q[1]
    OBVIOUS
  <2>1. CASE i = 1
    BY <1>0, <1>1, <1>2, <1>3, <1>6, <2>1
  <2>2. CASE i # 1
    BY <1>0, <1>1, <1>2, <1>3, <2>2
  <2> QED BY <2>1, <2>2
<1>15. n > 1 => N.tail = q[n - 1]
  <2> SUFFICES ASSUME n > 1 PROVE N.tail = q[n - 1]
    OBVIOUS
  <2>0. n - 1 \in 1 .. (n - 1) /\ (n - 1) + 1 = n
    BY <1>0
  <2>1. CASE i = n
    BY <1>0, <1>1, <1>2, <1>3, <1>4, <2>0, <2>1
  <2>2. CASE i # n
    <3>1. ~(n - 1 < i)
      BY <1>0, <2>2
    <3>2. q[n - 1] = s[(n - 1) + 1]
      BY <1>1, <2>0, <3>1
    <3> QED BY <1>0, <1>2, <1>3, <2>0, <2>2, <3>2
  <2> QED BY <2>1, <2>2
<1>16. ASSUME NEW j \in 1 .. (n - 1)
       PROVE  N.next[q[j]] = IF j = n - 1 THEN NULL ELSE q[j + 1]
  <2>1. j \in Nat /\ j >= 1 /\ j <= n - 1 /\ n \in Nat /\ i \in Nat /\ i >= 1 /\ i <= n
    BY <1>0
  <2>2. CASE j < i - 1
    <3>1. /\ j \in 1 .. n /\ j # i /\ j # i - 1 /\ j # n /\ j # n - 1 /\ j < i
          /\ j + 1 \in 1 .. (n - 1) /\ j + 1 < i
      BY <2>1, <2>2
    <3>2. q[j] = s[j] /\ q[j + 1] = s[j + 1]
      BY <1>1, <3>1
    <3>3. N.next[s[j]] = s[j + 1]
      BY <1>7, <3>1
    <3> QED BY <3>1, <3>2, <3>3
  <2>3. CASE j = i - 1
    <3>1. j \in 1 .. n /\ j # i /\ j < i /\ (i = n <=> j = n - 1)
      BY <2>1, <2>3
    <3>2. q[j] = s[j]
      BY <1>1, <3>1
    <3>3. N.next[s[j]] = IF i = n THEN NULL ELSE s[i + 1]
      BY <1>7, <2>3, <3>1
    <3>4. i # n => q[j + 1] = s[i + 1]
      <4> SUFFICES ASSUME i # n PROVE q[j + 1] = s[i + 1]
        OBVIOUS
      <4>1. j + 1 = i /\ i \in 1 .. (n - 1) /\ ~(i < i)
        BY <2>1, <2>3
      <4>2. q[i] = s[i + 1]
        BY <1>1, <4>1
      <4> QED BY <4>1, <4>2
    <3> QED BY <3>1, <3>2, <3>3, <3>4
  <2>4. CASE j >= i
    <3>1. j + 1 \in 1 .. n /\ j + 1 # i /\ j + 1 # i - 1 /\ ~(j < i) /\ (j + 1 = n <=> j = n - 1)
      BY <2>1, <2>4
    <3>2. q[j] = s[j + 1]
      BY <1>1, <3>1
    <3>3. N.next[s[j + 1]] = IF j + 1 = n THEN NULL ELSE s[(j + 1) + 1]
      BY <1>7, <3>1
    <3>4. j # n - 1 => q[j + 1] = s[(j + 1) + 1]
      <4>1. j # n - 1 => j + 1 \in 1 .. (n - 1) /\ ~(j + 1 < i)
        BY <2>1, <2>4
      <4> QED BY <1>1, <4>1
    <3> QED BY <3>1, <3>2, <3>3, <3>4
  <2> QED BY <2>1, <2>2, <2>3, <2>4
<1>17. Linked(q, N, A \ {t})
  <2>1. q = <<>> => N.head = NULL
    BY <1>12, <1>13
  <2>2. q # <<>> => N.head = q[1] /\ N.tail = q[Len(q)]
    BY <1>0, <1>1, <1>12, <1>14, <1>15
  <2>3. \A j \in 1 .. Len(q) : N.next[q[j]] = IF j = Len(q) THEN NULL ELSE q[j + 1]
    BY <1>1, <1>16
  <2>4. /\ \A j, k \in 1 .. Len(q) : q[j] = q[k] => j = k
        /\ \A u \in A \ {t} : \E j \in 1 .. Len(q) : q[j] = u
    BY <1>1, <1>10, <1>11
  <2> QED BY <1>9, <2>1, <2>2, <2>3, <2>4 DEF Linked
<1>18. n > 1 => N.current = IF i > Len(q) THEN q[1] ELSE q[i]
  <2> SUFFICES ASSUME n > 1 PROVE N.current = IF i > Len(q) THEN q[1] ELSE q[i]
    OBVIOUS
  <2>1. CASE i = n
    BY <1>0, <1>1, <1>2, <1>6, <1>14, <2>1
  <2>2. CASE i # n
    <3>1. i \in 1 .. (n - 1) /\ ~(i < i) /\ ~(i > Len(q)) /\ i + 1 \in 1 .. n
      BY <1>0, <1>1, <2>2
    <3>2. q[i] = s[i + 1]
      BY <1>1, <3>1
    <3> QED BY <1>0, <1>2, <1>6, <2>2, <3>1, <3>2
  <2> QED BY <2>1, <2>2
<1>19. /\ q = <<>> => N.current = NULL
       /\ q # <<>> => N.current = IF i > Len(q) THEN q[1] ELSE q[i]
  <2>0. n \in Nat /\ 1 \in 1 .. n
    BY <1>0, Zenon
  <2> HIDE DEF n
  <2>1. n = 1 \/ n > 1
    BY <2>0
  <2> QED BY <1>12, <1>13, <1>18, <2>1
<1>20. N \in Lists /\ Linked(q, N, A \ {s[i]})
  BY <1>2, <1>17
<1> QED BY <1>2, <1>19, <1>20, Zenon DEF N, q, Removed

-----------------------------------------------------------------------------
(* Walk follows the list in its order: it is the sequence of the links.    *)
LEMMA WalkIsOrder ==
  ASSUME NEW L \in Lists, NEW A \in SUBSET Tasks, NEW s, Linked(s, L, A)
  PROVE  Walk(L) = s /\ Len(s) = Cardinality(A)
<1> DEFINE n == Len(s)
           m == Cardinality(Tasks)
           node(k) == IF k < n THEN s[k + 1] ELSE NULL
           Is(f) == f = [k \in 0 .. m |->
                           IF k = 0 THEN L.head
                           ELSE IF f[k - 1] = NULL THEN NULL ELSE L.next[f[k - 1]]]
           step == CHOOSE f : Is(f)
<1>0. /\ n \in Nat /\ NULL \notin Tasks /\ IsFiniteSet(Tasks) /\ s \in Seq(A)
      /\ \A i \in 1 .. n : s[i] \in A /\ s[i] \in Tasks
  BY TaskAssumption DEF Linked
<1>1. n = Cardinality(A)
  <2>0. s \in [1 .. n -> A]
    BY <1>0, LenProperties
  <2>1. s \in Bijection(1 .. n, A)
    <3>1. /\ \A i, j \in 1 .. n : s[i] = s[j] => i = j
          /\ \A t \in A : \E i \in 1 .. n : s[i] = t
      BY DEF Linked
    <3> HIDE DEF n
    <3> QED BY <2>0, <3>1, Fun_IsBij
  <2>2. ExistsBijection(1 .. n, A)
    BY <2>1 DEF ExistsBijection
  <2>3. IsFiniteSet(1 .. n) /\ Cardinality(1 .. n) = n
    BY <1>0, FS_Interval
  <2> QED BY <2>2, <2>3, FS_Bijection
<1>2. m \in Nat /\ n <= m
  BY <1>0, <1>1, FS_CardinalityType, FS_Subset
<1> DEFINE fn == [k \in 0 .. m |-> node(k)]
<1>3. ASSUME NEW k \in 1 .. m
      PROVE  node(k) = IF node(k - 1) = NULL THEN NULL ELSE L.next[node(k - 1)]
  <2>1. CASE k - 1 < n
    <3>1. k \in 1 .. n /\ (k - 1) + 1 = k
      BY <1>0, <1>2, <2>1
    <3>2. node(k - 1) = s[k] /\ s[k] # NULL
      BY <1>0, <2>1, <3>1
    <3>3. L.next[s[k]] = IF k = n THEN NULL ELSE s[k + 1]
      BY <3>1 DEF Linked
    <3>4. k = n <=> ~(k < n)
      BY <1>0, <3>1
    <3> QED BY <3>2, <3>3, <3>4
  <2>2. CASE ~(k - 1 < n)
    <3>1. ~(k < n)
      BY <1>0, <1>2, <2>2
    <3> QED BY <2>2, <3>1
  <2> QED BY <2>1, <2>2
<1>4. node(0) = L.head
  <2>1. CASE n = 0
    BY <1>0, <2>1 DEF Linked
  <2>2. CASE n # 0
    BY <1>0, <2>2 DEF Linked
  <2> QED BY <2>1, <2>2
<1> HIDE DEF node
<1>5. Is(fn)
  <2> SUFFICES ASSUME NEW k \in 0 .. m
               PROVE  fn[k] = IF k = 0 THEN L.head
                              ELSE IF fn[k - 1] = NULL THEN NULL ELSE L.next[fn[k - 1]]
    OBVIOUS
  <2>1. CASE k = 0
    BY <1>2, <1>4, <2>1
  <2>2. CASE k # 0
    <3>1. k \in 1 .. m /\ k - 1 \in 0 .. m
      BY <1>2, <2>2
    <3> QED BY <1>3, <2>2, <3>1
  <2> QED BY <2>1, <2>2
<1>6. Is(step)
  <2> HIDE DEF Is, fn
  <2> QED BY <1>5
<1> HIDE DEF step
<1>7. \A k \in 0 .. m : step[k] = node(k)
  <2> DEFINE T == {k \in 0 .. m : step[k] # node(k)}
  <2> SUFFICES ASSUME T # {} PROVE FALSE
    OBVIOUS
  <2>1. PICK k \in T : \A y \in T : k <= y
    <3>1. T \subseteq Nat
      BY <1>2
    <3> HIDE DEF T
    <3> QED BY <3>1, NatMinimum
  <2>2. k \in 0 .. m /\ step[k] # node(k)
    OBVIOUS
  <2>3. CASE k = 0
    BY <1>4, <1>6, <2>2, <2>3
  <2>4. CASE k # 0
    <3>1. k \in 1 .. m /\ k - 1 \in 0 .. m
      BY <1>2, <2>2, <2>4
    <3>2. k - 1 \notin T
      BY <1>2, <2>1, <3>1
    <3>3. step[k - 1] = node(k - 1)
      BY <3>1, <3>2
    <3>4. step[k] = IF step[k - 1] = NULL THEN NULL ELSE L.next[step[k - 1]]
      BY <1>6, <2>2, <2>4
    <3> QED BY <1>3, <2>2, <3>1, <3>3, <3>4
  <2> QED BY <2>3, <2>4
<1>8. Cardinality({k \in 0 .. m : step[k] # NULL}) = n
  <2>1. {k \in 0 .. m : step[k] # NULL} = 0 .. (n - 1)
    <3>1. ASSUME NEW k \in 0 .. m PROVE step[k] # NULL <=> k < n
      <4>1. k < n => k + 1 \in 1 .. n
        BY <1>0
      <4> QED BY <1>0, <1>7, <4>1 DEF node
    <3> QED BY <1>0, <1>2, <3>1
  <2>2. Cardinality(0 .. (n - 1)) = n
    <3>1. n - 1 \in Int /\ 0 \in Int
      BY <1>0
    <3>2. Cardinality(0 .. (n - 1)) = IF 0 > n - 1 THEN 0 ELSE (n - 1) - 0 + 1
      BY <3>1, FS_Interval
    <3> QED BY <1>0, <3>2
  <2> QED BY <2>1, <2>2
<1>9. Walk(L) = [i \in 1 .. n |-> step[i - 1]]
  BY <1>8 DEF Walk, step
<1>10. ASSUME NEW i \in 1 .. n PROVE step[i - 1] = s[i]
  <2>1. i - 1 \in 0 .. m /\ i - 1 < n /\ (i - 1) + 1 = i
    BY <1>0, <1>2
  <2> QED BY <1>7, <2>1 DEF node
<1>11. s = [i \in 1 .. n |-> s[i]]
  BY <1>0, LenProperties
<1> QED BY <1>1, <1>9, <1>10, <1>11

-----------------------------------------------------------------------------
(* Conversely, a walk that meets each task of A once is the order of the   *)
(* links: the task that it meets last leads nowhere, and none leads back.  *)
LEMMA WalkLinks ==
  ASSUME NEW L \in Lists, NEW A \in SUBSET Tasks, NEW w, w = Walk(L),
         Len(w) = Cardinality(A), {w[i] : i \in DOMAIN w} = A
  PROVE  /\ Len(w) \in Nat /\ DOMAIN w = 1 .. Len(w)
         /\ \A i, j \in 1 .. Len(w) : w[i] = w[j] => i = j
         /\ \A t \in A : \E i \in 1 .. Len(w) : w[i] = t
         /\ w # <<>> => L.head = w[1]
         /\ \A i \in 1 .. Len(w) : L.next[w[i]] = IF i = Len(w) THEN NULL ELSE w[i + 1]
<1> DEFINE m == Cardinality(Tasks)
           Is(f) == f = [k \in 0 .. m |->
                           IF k = 0 THEN L.head
                           ELSE IF f[k - 1] = NULL THEN NULL ELSE L.next[f[k - 1]]]
           step == CHOOSE f : Is(f)
           S == {k \in 0 .. m : step[k] # NULL}
           n == Cardinality(S)
<1>0. /\ m \in Nat /\ NULL \notin Tasks /\ L.head \in Pointers /\ IsFiniteSet(A)
      /\ L.next \in [Tasks -> Pointers] /\ Cardinality(A) \in Nat /\ Cardinality(A) <= m
      /\ NULL \in Pointers
  BY TaskAssumption, FS_CardinalityType, FS_Subset DEF Lists, Pointers
<1>1. Is(step)
  <2> DEFINE Next1 == [p \in Pointers |-> IF p = NULL THEN NULL ELSE L.next[p]]
             G == [k \in Nat |-> Next1]
  <2>1. G \in [Nat -> [Pointers -> Pointers]]
    BY <1>0 DEF Pointers
  <2> HIDE DEF G
  <2>2. PICK f : Iterates(f, Pointers, L.head, G, m)
    BY <1>0, <2>1, Recursion
  <2>3. Is(f)
    <3>1. /\ f \in [0 .. m -> Pointers] /\ f[0] = L.head
          /\ \A k \in 1 .. m : f[k] = G[k][f[k - 1]]
      BY <2>2 DEF Iterates
    <3>2. ASSUME NEW k \in 0 .. m
          PROVE  f[k] = IF k = 0 THEN L.head
                        ELSE IF f[k - 1] = NULL THEN NULL ELSE L.next[f[k - 1]]
      <4>1. CASE k = 0
        BY <3>1, <4>1
      <4>2. CASE k # 0
        <5>1. k \in 1 .. m /\ k - 1 \in 0 .. m /\ k \in Nat
          BY <1>0, <4>2
        <5>2. f[k - 1] \in Pointers
          BY <3>1, <5>1
        <5> QED BY <3>1, <4>2, <5>1, <5>2 DEF G
      <4> QED BY <4>1, <4>2
    <3> QED BY <3>1, <3>2
  <2> HIDE DEF Is
  <2> QED BY <2>3
<1> HIDE DEF step
<1>2. /\ step[0] = L.head
      /\ \A k \in 1 .. m : step[k] = IF step[k - 1] = NULL THEN NULL ELSE L.next[step[k - 1]]
  BY <1>0, <1>1
<1>3. \A k \in 0 .. m : step[k] \in Pointers
  <2> DEFINE P == {k \in Nat : k <= m => step[k] \in Pointers}
  <2>1. 0 \in P
    BY <1>0, <1>2
  <2>2. ASSUME NEW k \in Nat, k \in P PROVE k + 1 \in P
    <3> SUFFICES ASSUME k + 1 <= m PROVE step[k + 1] \in Pointers
      OBVIOUS
    <3>1. k + 1 \in 1 .. m /\ (k + 1) - 1 = k /\ step[k] \in Pointers
      BY <1>0, <2>2
    <3>2. step[k + 1] = IF step[k] = NULL THEN NULL ELSE L.next[step[k]]
      BY <1>2, <3>1
    <3> QED BY <1>0, <3>1, <3>2 DEF Pointers
  <2>3. Nat \subseteq P
    <3> HIDE DEF P
    <3> QED BY <2>1, <2>2, NatInductionSet
  <2> QED BY <1>0, <2>3
<1>4. /\ w = [i \in 1 .. n |-> step[i - 1]] /\ IsFiniteSet(S) /\ n \in Nat
  <2>1. w = [i \in 1 .. n |-> step[i - 1]]
    BY DEF Walk, step
  <2>2. IsFiniteSet(0 .. m) /\ S \subseteq 0 .. m
    BY <1>0, FS_Interval
  <2>3. IsFiniteSet(S)
    BY <2>2, FS_Subset
  <2> HIDE DEF S
  <2> QED BY <2>1, <2>3, FS_CardinalityType
<1>5. Len(w) = n /\ DOMAIN w = 1 .. n /\ (\A i \in 1 .. n : w[i] = step[i - 1]) /\ n <= m
  <2> HIDE DEF S, n
  <2>1. DOMAIN w = 1 .. n
    BY <1>4
  <2>2. Len(w) = n
    BY <1>4, <2>1, LenProperties
  <2> QED BY <1>0, <1>4, <2>1, <2>2
(* The steps that lead to a task are the first ones, down to any of them.  *)
<1>6. ASSUME NEW k \in S PROVE 0 .. k \subseteq S
  <2> DEFINE P == {d \in Nat : d <= k => k - d \in S}
  <2>0. k \in 0 .. m /\ k \in Nat
    BY <1>0
  <2>1. 0 \in P
    BY <2>0
  <2>2. ASSUME NEW d \in Nat, d \in P PROVE d + 1 \in P
    <3> SUFFICES ASSUME d + 1 <= k PROVE k - (d + 1) \in S
      OBVIOUS
    <3>1. k - d \in 1 .. m /\ k - d \in S /\ k - (d + 1) \in 0 .. m /\ (k - d) - 1 = k - (d + 1)
      BY <1>0, <2>0, <2>2
    <3>2. step[k - d] = IF step[(k - d) - 1] = NULL THEN NULL ELSE L.next[step[(k - d) - 1]]
      BY <1>2, <3>1
    <3> QED BY <3>1, <3>2
  <2>3. Nat \subseteq P
    <3> HIDE DEF P
    <3> QED BY <2>1, <2>2, NatInductionSet
  <2> SUFFICES ASSUME NEW j \in 0 .. k PROVE j \in S
    OBVIOUS
  <2>4. k - j \in Nat /\ k - j <= k /\ k - (k - j) = j
    BY <2>0
  <2>5. k - j \in P
    BY <2>3, <2>4
  <2> QED BY <2>4, <2>5
<1>7. ASSUME NEW k \in 0 .. m PROVE k \in S <=> k < n
  <2>0. k \in Nat /\ Cardinality(0 .. k) = k + 1 /\ Cardinality(0 .. (k - 1)) = k
        /\ IsFiniteSet(0 .. (k - 1))
    <3>1. k \in Int /\ k - 1 \in Int /\ 0 \in Int /\ k >= 0
      BY <1>0
    <3>2. Cardinality(0 .. k) = (IF 0 > k THEN 0 ELSE k - 0 + 1)
          /\ Cardinality(0 .. (k - 1)) = (IF 0 > k - 1 THEN 0 ELSE (k - 1) - 0 + 1)
          /\ IsFiniteSet(0 .. (k - 1))
      BY <3>1, FS_Interval
    <3> QED BY <3>1, <3>2
  <2>1. ASSUME k \in S PROVE k < n
    <3>1. 0 .. k \subseteq S
      BY <1>6, <2>1
    <3> HIDE DEF S
    <3>2. Cardinality(0 .. k) <= n
      BY <1>4, <3>1, FS_Subset
    <3> QED BY <1>4, <2>0, <3>2
  <2>2. ASSUME k \notin S PROVE ~(k < n)
    <3>1. S \subseteq 0 .. (k - 1)
      <4> SUFFICES ASSUME NEW j \in S, ~(j \in 0 .. (k - 1)) PROVE FALSE
        OBVIOUS
      <4>1. j \in 0 .. m
        OBVIOUS
      <4>2. k \in 0 .. j
        BY <1>0, <4>1
      <4>3. 0 .. j \subseteq S
        BY <1>6
      <4> QED BY <2>2, <4>2, <4>3
    <3> HIDE DEF S
    <3>2. n <= Cardinality(0 .. (k - 1))
      BY <2>0, <3>1, FS_Subset
    <3> QED BY <1>4, <2>0, <3>2
  <2> QED BY <2>1, <2>2
<1>8. \A k \in 0 .. m : step[k] # NULL <=> k < n
  BY <1>7
<1> HIDE DEF S, n
<1>9. \A i, j \in 1 .. n : w[i] = w[j] => i = j
  <2>1. w \in [1 .. n -> A]
    BY <1>4, <1>5
  <2>2. \A t \in A : \E i \in 1 .. n : w[i] = t
    BY <1>5
  <2>3. w \in Surjection(1 .. n, A)
    BY <2>1, <2>2, Fun_IsSurj
  <2>4. IsFiniteSet(1 .. n) /\ Cardinality(1 .. n) = n
    BY <1>4, FS_Interval
  <2>5. w \in Injection(1 .. n, A)
    BY <1>5, <2>3, <2>4, FS_Surjection
  <2> QED BY <2>5 DEF Injection, IsInjective
<1>10. w # <<>> => L.head = w[1]
  <2>1. ASSUME w # <<>> PROVE n # 0
    BY <1>4, <2>1
  <2> QED BY <1>2, <1>4, <1>5, <2>1
<1>11. ASSUME NEW i \in 1 .. n
       PROVE  L.next[w[i]] = IF i = n THEN NULL ELSE w[i + 1]
  <2>1. /\ i \in 1 .. m /\ i \in 0 .. m /\ i - 1 \in 0 .. m /\ i - 1 < n
    BY <1>0, <1>4, <1>5
  <2>2. w[i] = step[i - 1] /\ step[i - 1] # NULL /\ step[i] = L.next[w[i]]
    BY <1>2, <1>5, <1>8, <2>1
  <2>3. CASE i = n
    <3>1. step[i] = NULL
      BY <1>4, <1>8, <2>1, <2>3
    <3> QED BY <2>2, <2>3, <3>1
  <2>4. CASE i # n
    <3>1. i + 1 \in 1 .. n /\ (i + 1) - 1 = i
      BY <1>4, <2>4
    <3>2. w[i + 1] = step[i]
      BY <1>5, <3>1
    <3> QED BY <2>2, <2>4, <3>2
  <2> QED BY <2>3, <2>4
<1>12. \A t \in A : \E i \in 1 .. n : w[i] = t
  BY <1>5
<1> QED BY <1>4, <1>5, <1>9, <1>10, <1>11, <1>12

-----------------------------------------------------------------------------
(* While tasks exit in order: the links are right, the current task is one *)
(* of them, and every task that does not run has its registers saved.      *)
Ordered ==
  /\ TypeOK /\ intact
  /\ \E s : Linked(s, list, alive)
  /\ alive = {} => list.current = NULL
  /\ alive # {} => list.current \in alive
  /\ \A t \in alive : list.prev[t] # t
  /\ mode = "boot" => list.current = list.head
  /\ mode = "user" => alive # {}
  /\ mode = "boot" => \A t \in alive : registers[t].gp = at[t].gp
  /\ ContextIntact

(* The inductive invariant: no task exits before the first one runs, and   *)
(* until one exits out of order all is as it should be.                    *)
TaskInv ==
  /\ TypeOK
  /\ mode = "boot" => intact
  /\ intact => Ordered

(* The chain of the tasks, in terms of the links.                          *)
LEMMA ChainLinked ==
  ASSUME Ordered
  PROVE  /\ list \in Lists /\ alive \in SUBSET Tasks
         /\ Linked(Chain, list, alive) /\ Len(Chain) = Cardinality(alive)
         /\ Chain \in Seq(alive) /\ Len(Chain) \in Nat /\ DOMAIN Chain = 1 .. Len(Chain)
         /\ Chain = <<>> <=> alive = {}
<1>1. list \in Lists /\ alive \in SUBSET Tasks
  BY DEF Ordered, TypeOK, Lists
<1>2. PICK s : Linked(s, list, alive)
  BY DEF Ordered
<1>3. Chain = s /\ Len(s) = Cardinality(alive)
  BY <1>1, <1>2, WalkIsOrder DEF Chain
<1>4. Chain \in Seq(alive) /\ Len(Chain) \in Nat /\ DOMAIN Chain = 1 .. Len(Chain)
  BY <1>2, <1>3 DEF Linked
<1>5. Chain = <<>> <=> alive = {}
  <2>1. ASSUME alive = {} PROVE Chain = <<>>
    <3>1. ASSUME Chain # <<>> PROVE FALSE
      <4>1. 1 \in 1 .. Len(Chain) /\ Chain[1] \in alive
        BY <1>4, <3>1
      <4> QED BY <2>1, <4>1
    <3> QED BY <3>1
  <2>2. ASSUME Chain = <<>> PROVE alive = {}
    <3>1. \A t \in alive : \E i \in 1 .. 0 : Chain[i] = t
      BY <1>2, <1>3, <2>2 DEF Linked
    <3> QED BY <3>1
  <2> QED BY <2>1, <2>2
<1> QED BY <1>1, <1>2, <1>3, <1>4, <1>5

(* The chain after a step.                                                 *)
LEMMA ChainPrime ==
  ASSUME list' \in Lists, alive' \in SUBSET Tasks, NEW q, Linked(q, list', alive')
  PROVE  Chain' = q
BY WalkIsOrder DEF Chain

(* What the processor has after task_return.                               *)
LEMMA ReturnType ==
  ASSUME NEW t \in Tasks, NEW saved \in Context, task_return(t, saved)
  PROVE  /\ cpu' \in [gp : Values, flags : FlagValues, cr3 : Pointers]
         /\ cpu'.cr3 = t /\ cpu'.gp = saved.gp
BY DEF task_return, Context, Pointers

(* What the tasks have saved after an interrupt of the running one.        *)
LEMMA SaveState ==
  ASSUME Ordered, mode = "user"
  PROVE  /\ task_save_state \in [Tasks -> Context]
         /\ \A t \in alive : task_save_state[t].gp = at[t].gp
         /\ list.current \in alive /\ list.current \in Tasks
         /\ cpu.cr3 = list.current /\ cpu.gp = at[list.current].gp
<1>1. /\ list.current \in alive /\ alive \subseteq Tasks
      /\ registers \in [Tasks -> Context]
      /\ cpu \in [gp : Values, flags : FlagValues, cr3 : Pointers]
      /\ cpu.cr3 = list.current /\ cpu.gp = at[list.current].gp
      /\ \A t \in alive \ {list.current} : registers[t].gp = at[t].gp
  BY DEF Ordered, TypeOK, ContextIntact
<1>2. [gp |-> cpu.gp, flags |-> cpu.flags] \in Context
  BY <1>1 DEF Context
<1> QED BY <1>1, <1>2 DEF task_save_state

(* A list that has tasks is not empty at its head.                         *)
LEMMA HeadAlive ==
  ASSUME Ordered, alive # {}
  PROVE  list.head \in alive /\ list.tail \in alive /\ list.head = Chain[1]
<1>1. Linked(Chain, list, alive) /\ Chain # <<>> /\ Chain \in Seq(alive)
  BY ChainLinked
<1>2. 1 \in 1 .. Len(Chain) /\ Len(Chain) \in 1 .. Len(Chain)
  BY <1>1
<1>3. list.head = Chain[1] /\ list.tail = Chain[Len(Chain)]
  BY <1>1 DEF Linked
<1> QED BY <1>1, <1>2, <1>3

-----------------------------------------------------------------------------
(* The last task of the chain is the back of the queue.                    *)
LEMMA QueueBack == Queue!Back = LastOf(Chain)
BY DEF Queue!Back, LastOf

(* The list that a new task joins.                                         *)
LEMMA ListNew ==
  ASSUME Ordered, NEW t \in Tasks, t \notin alive
  PROVE  /\ task_new(list, t) \in Lists
         /\ Linked(Append(Chain, t), task_new(list, t), alive \cup {t})
         /\ Chain = <<>> => task_new(list, t).current = t /\ task_new(list, t).head = t
         /\ Chain # <<>> => /\ task_new(list, t).current = list.current
                            /\ task_new(list, t).head = list.head
         /\ task_new(list, t).prev = [list.prev EXCEPT ![t] = LastOf(Chain)]
<1>1. list \in Lists /\ alive \in SUBSET Tasks /\ Linked(Chain, list, alive)
  BY ChainLinked
<1> QED BY <1>1, LinkedNew, SMTT(60)

(* No task is created behind itself.                                       *)
LEMMA PrevOfNew ==
  ASSUME Ordered, NEW t \in Tasks, t \notin alive, list \in Lists,
         list'.prev = [list.prev EXCEPT ![t] = LastOf(Chain)],
         alive' \subseteq alive \cup {t}
  PROVE  \A u \in alive' : list'.prev[u] # u
<1>1. /\ \A u \in alive : list.prev[u] # u
      /\ alive \subseteq Tasks /\ list.prev \in [Tasks -> Pointers]
  BY DEF Ordered, TypeOK, Lists
<1>2. LastOf(Chain) # t
  <2>1. Chain \in Seq(alive) /\ Len(Chain) \in Nat
    BY ChainLinked
  <2>2. Chain # <<>> => Chain[Len(Chain)] \in alive
    BY <2>1
  <2> QED BY <2>2, TaskAssumption DEF LastOf
<1> QED BY <1>1, <1>2

(* A task that is created joins the list: BootTask.                        *)
LEMMA BootTaskStep ==
  ASSUME Ordered, NEW t \in Tasks, BootTask(t)
  PROVE  Ordered' /\ Queue!Add(t)
<1>0. /\ TypeOK /\ list \in Lists /\ alive \in SUBSET Tasks /\ Linked(Chain, list, alive)
      /\ Chain \in Seq(alive) /\ DOMAIN Chain = 1 .. Len(Chain) /\ (Chain = <<>> <=> alive = {})
  BY ChainLinked DEF Ordered
<1>1. /\ mode = "boot" /\ t \notin alive /\ list' = task_new(list, t)
      /\ alive' = alive \cup {t} /\ UNCHANGED <<cpu, c, mode, intact>>
      /\ registers' = [registers EXCEPT ![t] = Zeroed]
      /\ at' = [at EXCEPT ![t] = Zeroed]
  BY DEF BootTask
<1>2. /\ list' \in Lists /\ Linked(Append(Chain, t), list', alive')
      /\ Chain = <<>> => list'.current = t /\ list'.head = t
      /\ Chain # <<>> => list'.current = list.current /\ list'.head = list.head
      /\ list'.prev = [list.prev EXCEPT ![t] = LastOf(Chain)]
  BY <1>0, <1>1, ListNew
<1>2a. \A u \in alive' : list'.prev[u] # u
  BY <1>0, <1>1, <1>2, PrevOfNew
<1>3. Zeroed \in Context
  BY TaskAssumption DEF Zeroed, Context
<1>4. TypeOK'
  BY <1>0, <1>1, <1>2, <1>3 DEF TypeOK, Lists
<1>5. list'.current \in alive' /\ list'.current = list'.head
  BY <1>0, <1>1, <1>2 DEF Ordered
<1>6. \A u \in alive' : registers'[u].gp = at'[u].gp
  BY <1>0, <1>1, <1>3 DEF Ordered, TypeOK, Zeroed
<1>7. Ordered'
  <2>1. mode' = "boot"
    BY <1>1
  <2>2. ContextIntact'
    BY <2>1 DEF ContextIntact
  <2>3. alive' # {}
    BY <1>1
  <2> QED BY <1>1, <1>2, <1>2a, <1>4, <1>5, <1>6, <2>1, <2>2, <2>3 DEF Ordered
<1>8. Chain' = Append(Chain, t)
  BY <1>0, <1>1, <1>2, ChainPrime
<1>9. \A i \in DOMAIN Chain : Chain[i] # t
  BY <1>0, <1>1
<1>10. list'.current = IF Chain = <<>> THEN t ELSE list.current
  BY <1>2
<1> QED BY <1>0, <1>1, <1>2, <1>7, <1>8, <1>9, <1>10, QueueBack DEF Queue!Add, Queue!InQueue

(* After the boot sequence nothing is asked of the head of the list.       *)
LEMMA StepInv ==
  ASSUME TypeOK', intact', NEW q, Linked(q, list', alive'), mode' # "boot",
         \A t \in alive' : list'.prev[t] # t,
         alive' = {} => list'.current = NULL, alive' # {} => list'.current \in alive',
         mode' = "user" => alive' # {}, ContextIntact'
  PROVE  Ordered'
BY DEF Ordered

(* The first task runs, or there is none: task_run_first_ever_task.        *)
LEMMA RunFirstStep ==
  ASSUME Ordered, task_run_first_ever_task
  PROVE  Ordered' /\ UNCHANGED Queue!vars
<1>0. /\ TypeOK /\ list \in Lists /\ alive \in SUBSET Tasks /\ Linked(Chain, list, alive)
      /\ NULL \notin Tasks
  BY ChainLinked, TaskAssumption DEF Ordered
<1>1. /\ mode = "boot" /\ UNCHANGED <<alive, registers, at, c, intact>> /\ intact
      /\ \A t \in alive : list.prev[t] # t
  BY DEF task_run_first_ever_task, Ordered
<1>2. CASE list.current = NULL
  <2>1. mode' = "panic" /\ list' = list /\ cpu' = cpu
    BY <1>2 DEF task_run_first_ever_task
  <2>2. TypeOK'
    BY <1>0, <1>1, <2>1 DEF TypeOK
  <2>3. Chain' = Chain
    BY <2>1 DEF Chain
  <2>4. alive = {} /\ Linked(Chain, list', alive')
    BY <1>0, <1>1, <1>2, <2>1 DEF Ordered
  <2>5. ContextIntact'
    BY <2>1 DEF ContextIntact
  <2>6. Ordered'
    BY <1>1, <1>2, <2>1, <2>2, <2>4, <2>5, StepInv
  <2> QED BY <1>1, <2>1, <2>3, <2>6 DEF Queue!vars
<1>3. CASE list.current # NULL
  <2>1. /\ mode' = "user" /\ list' = [list EXCEPT !.current = list.head]
        /\ task_return(list.head, registers[list.head])
    BY <1>3 DEF task_run_first_ever_task
  <2>2. list' = list
    <3>1. list.current = list.head
      BY <1>1 DEF Ordered
    <3> QED BY <1>0, <2>1, <3>1 DEF Lists
  <2>3. alive # {} /\ list.head \in alive /\ list.current = list.head
    BY <1>1, <1>3 DEF Ordered
  <2>4. registers[list.head] \in Context /\ list.head \in Tasks
    BY <1>0, <2>3 DEF TypeOK
  <2>5. /\ cpu' \in [gp : Values, flags : FlagValues, cr3 : Pointers]
        /\ cpu'.cr3 = list.head /\ cpu'.gp = registers[list.head].gp
    BY <2>1, <2>4, ReturnType
  <2>6. TypeOK'
    <3>1. mode' \in {"boot", "user", "panic", "crash"}
      BY <2>1
    <3>2. list'.current \in Tasks
      BY <2>2, <2>3, <2>4
    <3> QED BY <1>0, <1>1, <2>2, <2>5, <3>1, <3>2 DEF TypeOK
  <2>7. ContextIntact'
    BY <1>1, <2>1, <2>2, <2>3, <2>5 DEF ContextIntact, Ordered
  <2>8. Linked(Chain, list', alive') /\ Chain' = Chain
    BY <1>0, <1>1, <2>2 DEF Chain
  <2>9. Ordered'
    BY <1>1, <2>1, <2>2, <2>3, <2>6, <2>7, <2>8, StepInv
  <2> QED BY <1>1, <2>2, <2>8, <2>9 DEF Queue!vars
<1> QED BY <1>2, <1>3

(* A task that runs changes its own registers only: UserStep.              *)
LEMMA UserStepStep ==
  ASSUME Ordered, UserStep
  PROVE  Ordered' /\ UNCHANGED Queue!vars
<1>0. /\ TypeOK /\ Linked(Chain, list, alive) /\ list.current \in alive /\ alive # {}
      /\ list.current \in Tasks /\ mode = "user" /\ cpu.cr3 = list.current
      /\ UNCHANGED <<list, alive, registers, c, mode, intact>> /\ intact
      /\ \A t \in alive : list.prev[t] # t
  BY ChainLinked, SaveState DEF Ordered, UserStep
<1>1. PICK x \in Context : /\ cpu' = [cpu EXCEPT !.gp = x.gp, !.flags = x.flags]
                           /\ at' = [at EXCEPT ![list.current] = x]
  BY <1>0 DEF UserStep
<1>2. /\ cpu' \in [gp : Values, flags : FlagValues, cr3 : Pointers]
      /\ cpu'.cr3 = cpu.cr3 /\ cpu'.gp = x.gp
  BY <1>0, <1>1 DEF TypeOK, Context
<1>3. at' \in [Tasks -> Context] /\ at'[list.current] = x
      /\ \A t \in Tasks \ {list.current} : at'[t] = at[t]
  BY <1>0, <1>1 DEF TypeOK
<1>4. TypeOK'
  BY <1>0, <1>2, <1>3 DEF TypeOK
<1>5. ContextIntact'
  BY <1>0, <1>2, <1>3 DEF ContextIntact, Ordered, TypeOK
<1>6. Linked(Chain, list', alive') /\ Chain' = Chain
  BY <1>0 DEF Chain
<1>7. Ordered'
  BY <1>0, <1>4, <1>5, <1>6, StepInv
<1> QED BY <1>0, <1>6, <1>7 DEF Queue!vars

(* An interrupt or a command that only saves the caller's registers.       *)
LEMMA SaveOnlyStep ==
  ASSUME Ordered, mode = "user", mode' \in {"user", "panic", "crash"},
         registers' = task_save_state, UNCHANGED <<list, alive, cpu, at, intact>>,
         c' \in 0 .. Delay
  PROVE  Ordered' /\ UNCHANGED Queue!vars
<1>0. /\ TypeOK /\ Linked(Chain, list, alive) /\ list.current \in alive /\ alive # {}
      /\ intact /\ \A t \in alive : list.prev[t] # t
  BY ChainLinked, SaveState DEF Ordered
<1>1. /\ task_save_state \in [Tasks -> Context]
      /\ \A t \in alive : task_save_state[t].gp = at[t].gp
      /\ cpu.cr3 = list.current /\ cpu.gp = at[list.current].gp
  BY SaveState
<1>2. TypeOK'
  BY <1>0, <1>1 DEF TypeOK
<1>3. ContextIntact'
  BY <1>1 DEF ContextIntact
<1>4. Linked(Chain, list', alive') /\ Chain' = Chain
  BY <1>0 DEF Chain
<1>5. Ordered'
  BY <1>0, <1>2, <1>3, <1>4, StepInv
<1> QED BY <1>4, <1>5 DEF Queue!vars

(* task_next and task_page with a task of the system: it runs.             *)
LEMMA NextRuns ==
  ASSUME NEW L, NEW A, A \subseteq Tasks, L.current # NULL, task_get_next(L) \in A,
         task_next(L, A)
  PROVE  /\ list' = [L EXCEPT !.current = task_get_next(L)]
         /\ task_return(task_get_next(L), registers'[task_get_next(L)])
         /\ mode' = "user"
<1>1. task_get_next(L) # NULL
  BY TaskAssumption
<1> QED BY <1>1 DEF task_next, Resumes

LEMMA PageRuns ==
  ASSUME TypeOK, NEW L, NEW A, L.current \in A, L.current = cpu.cr3, task_page(L, A)
  PROVE  list' = L /\ cpu' = cpu /\ mode' = "user"
BY DEF task_page, Resumes, TypeOK

(* The place of the current task in the list.                              *)
LEMMA CurrentPlace ==
  ASSUME Ordered, alive # {}
  PROVE  /\ Queue!IndexOf(list.current) \in 1 .. Len(Chain)
         /\ Chain[Queue!IndexOf(list.current)] = list.current
<1>1. list.current \in alive /\ Linked(Chain, list, alive)
  BY ChainLinked DEF Ordered
<1>2. \E i \in 1 .. Len(Chain) : Chain[i] = list.current
  BY <1>1 DEF Linked
<1> QED BY <1>2 DEF Queue!IndexOf

(* Another task runs with the links unchanged.                             *)
LEMMA LinkedCurrent ==
  ASSUME NEW L \in Lists, NEW A, NEW s, Linked(s, L, A), NEW t \in Tasks
  PROVE  /\ [L EXCEPT !.current = t] \in Lists
         /\ Linked(s, [L EXCEPT !.current = t], A)
         /\ [L EXCEPT !.current = t].current = t
         /\ [L EXCEPT !.current = t].prev = L.prev
<1> DEFINE N == [L EXCEPT !.current = t]
<1>1. /\ N \in Lists /\ N.current = t /\ N.head = L.head /\ N.tail = L.tail
      /\ N.next = L.next /\ N.prev = L.prev
  BY DEF Lists, Pointers
<1> HIDE DEF N
<1>2. Linked(s, N, A)
  BY <1>1 DEF Linked
<1> QED BY <1>1, <1>2 DEF N

(* Another task gets the processor: what task_switch and task_return leave. *)
LEMMA SwitchInv ==
  ASSUME Ordered, mode = "user", mode' = "user", intact', c' \in 0 .. Delay,
         NEW t \in Tasks, t \in alive', alive' \subseteq Tasks,
         NEW q, list' \in Lists, Linked(q, list', alive'), list'.current = t,
         \A u \in alive' : list'.prev[u] # u,
         registers' \in [Tasks -> Context], at' \in [Tasks -> Context],
         \A u \in alive' : registers'[u].gp = at'[u].gp,
         task_return(t, registers'[t])
  PROVE  Ordered'
<1>1. /\ cpu' \in [gp : Values, flags : FlagValues, cr3 : Pointers]
      /\ cpu'.cr3 = t /\ cpu'.gp = registers'[t].gp
  BY ReturnType
<1>2. TypeOK'
  BY <1>1 DEF TypeOK, Lists
<1>3. ContextIntact'
  BY <1>1 DEF ContextIntact
<1> QED BY <1>2, <1>3, StepInv

(* A tick only counts, or the next task in the list runs: idt_clock.       *)
LEMMA ClockStep ==
  ASSUME Ordered, idt_clock
  PROVE  Ordered' /\ (Queue!Tick \/ UNCHANGED Queue!vars)
<1>0. /\ TypeOK /\ list \in Lists /\ alive \in SUBSET Tasks /\ Linked(Chain, list, alive)
      /\ mode = "user" /\ registers' = task_save_state /\ UNCHANGED <<alive, at, intact>>
      /\ intact /\ (\A t \in alive : list.prev[t] # t)
      /\ alive # {} /\ c \in Nat /\ c <= Delay /\ Delay \in Nat /\ Chain # <<>>
      /\ at \in [Tasks -> Context]
  BY ChainLinked, TaskAssumption DEF Ordered, idt_clock, TypeOK
<1>1. CASE c < Delay
  <2>1. c' = c + 1 /\ UNCHANGED <<list, cpu, mode>>
    BY <1>1 DEF idt_clock
  <2>2. c' \in 0 .. Delay
    BY <1>0, <1>1, <2>1
  <2> QED BY <1>0, <2>1, <2>2, SaveOnlyStep
<1>2. CASE ~(c < Delay)
  <2> DEFINE t == task_get_next(list)
             i == Queue!IndexOf(list.current)
  <2>1. task_next(list, alive) /\ c' = c
    BY <1>2 DEF idt_clock
  <2>2. i \in 1 .. Len(Chain) /\ Chain[i] = list.current
    BY <1>0, CurrentPlace
  <2>3. t = (IF i = Len(Chain) THEN Chain[1] ELSE Chain[i + 1]) /\ t \in alive
    BY <1>0, <2>2, LinkedNext
  <2>4. i = Len(Chain) <=> i >= Len(Chain)
    BY <2>2
  <2>5. t \in Tasks /\ list.current # NULL
    BY <1>0, <2>3, TaskAssumption DEF Ordered
  <2>5a. /\ list' = [list EXCEPT !.current = t] /\ task_return(t, registers'[t])
         /\ mode' = "user"
    BY <1>0, <2>1, <2>3, <2>5, NextRuns
  <2> HIDE DEF t
  <2>6. /\ list' \in Lists /\ Linked(Chain, list', alive') /\ list'.current = t
        /\ list'.prev = list.prev
    BY <1>0, <2>5, <2>5a, LinkedCurrent
  <2>7. /\ registers' \in [Tasks -> Context]
        /\ \A u \in alive' : registers'[u].gp = at'[u].gp
    BY <1>0, SaveState
  <2>8. c' \in 0 .. Delay
    BY <1>0, <2>1
  <2>9. t \in alive' /\ alive' \subseteq Tasks /\ at' \in [Tasks -> Context]
    BY <1>0, <2>3
  <2>10. Ordered'
    BY <1>0, <2>5, <2>5a, <2>6, <2>7, <2>8, <2>9, SwitchInv
  <2>11. Chain' = Chain
    BY <1>0, <2>6, ChainPrime
  <2>12. Queue!Tick
    <3>1. list'.current = Queue!Following(Chain, Queue!IndexOf(list.current))
      BY <2>3, <2>4, <2>6 DEF Queue!Following
    <3> QED BY <1>0, <2>6, <2>11, <3>1 DEF Queue!Tick
  <2> QED BY <2>10, <2>12
<1> QED BY <1>1, <1>2

(* What a task that is created while another runs does to the rest.        *)
LEMMA CreatedType ==
  ASSUME Ordered, mode = "user", NEW t \in Tasks, t \notin alive,
         alive' = alive \cup {t}, registers' = [task_save_state EXCEPT ![t] = Zeroed],
         at' = [at EXCEPT ![t] = Zeroed]
  PROVE  /\ registers' \in [Tasks -> Context] /\ at' \in [Tasks -> Context]
         /\ \A u \in alive' : registers'[u].gp = at'[u].gp
         /\ registers'[t] = Zeroed /\ at'[list.current] = at[list.current]
         /\ alive' \subseteq Tasks /\ alive' # {} /\ alive # {}
         /\ list.current \in alive /\ list.current \in Tasks
<1>1. /\ at \in [Tasks -> Context] /\ alive \subseteq Tasks /\ alive # {}
  BY DEF Ordered, TypeOK
<1>2. Zeroed \in Context
  BY TaskAssumption DEF Zeroed, Context
<1>3. /\ task_save_state \in [Tasks -> Context]
      /\ \A u \in alive : task_save_state[u].gp = at[u].gp
      /\ list.current \in alive /\ list.current \in Tasks
  BY SaveState
<1>4. \A u \in alive : u # t /\ registers'[u] = task_save_state[u] /\ at'[u] = at[u]
  BY <1>1, <1>3
<1>5. registers'[t] = Zeroed /\ at'[t] = Zeroed
  BY <1>1, <1>3
<1> QED BY <1>1, <1>2, <1>3, <1>4, <1>5

(* A program that is started runs at once: process_load_start.             *)
LEMMA LoadStartStep ==
  ASSUME Ordered, NEW t \in Tasks, process_load_start(t)
  PROVE  Ordered' /\ Queue!Start(t)
<1>0. /\ TypeOK /\ list \in Lists /\ alive \in SUBSET Tasks /\ Linked(Chain, list, alive)
      /\ Chain \in Seq(alive) /\ DOMAIN Chain = 1 .. Len(Chain)
      /\ mode = "user" /\ t \notin alive /\ UNCHANGED <<c, mode, intact>> /\ c \in 0 .. Delay
      /\ intact
      /\ list' = [task_new(list, t) EXCEPT !.current = t]
      /\ alive' = alive \cup {t} /\ registers' = [task_save_state EXCEPT ![t] = Zeroed]
      /\ at' = [at EXCEPT ![t] = Zeroed] /\ task_return(t, Zeroed)
  BY ChainLinked DEF Ordered, process_load_start, TypeOK
<1>1. /\ registers' \in [Tasks -> Context] /\ at' \in [Tasks -> Context]
      /\ \A u \in alive' : registers'[u].gp = at'[u].gp
      /\ registers'[t] = Zeroed /\ alive' \subseteq Tasks
  BY <1>0, CreatedType
<1>2. /\ task_new(list, t) \in Lists /\ Linked(Append(Chain, t), task_new(list, t), alive')
      /\ task_new(list, t).prev = [list.prev EXCEPT ![t] = LastOf(Chain)]
  BY <1>0, ListNew
<1>3. /\ list' \in Lists /\ Linked(Append(Chain, t), list', alive') /\ list'.current = t
      /\ list'.prev = [list.prev EXCEPT ![t] = LastOf(Chain)]
  BY <1>0, <1>2, LinkedCurrent
<1>3a. \A u \in alive' : list'.prev[u] # u
  BY <1>0, <1>3, PrevOfNew
<1>4. t \in alive' /\ task_return(t, registers'[t]) /\ mode' = "user" /\ c' \in 0 .. Delay
  BY <1>0, <1>1
<1>5. Ordered'
  BY <1>0, <1>1, <1>3, <1>3a, <1>4, SwitchInv
<1>6. Chain' = Append(Chain, t)
  BY <1>1, <1>3, ChainPrime
<1>7. \A i \in DOMAIN Chain : Chain[i] # t
  BY <1>0
<1> QED BY <1>0, <1>3, <1>5, <1>6, <1>7, QueueBack DEF Queue!Start, Queue!InQueue

(* A program that is loaded and not started waits its turn:                *)
(* process_load_only.                                                      *)
LEMMA LoadOnlyStep ==
  ASSUME Ordered, NEW t \in Tasks, process_load_only(t)
  PROVE  Ordered' /\ Queue!Add(t)
<1>0. /\ TypeOK /\ list \in Lists /\ alive \in SUBSET Tasks /\ Linked(Chain, list, alive)
      /\ Chain \in Seq(alive) /\ DOMAIN Chain = 1 .. Len(Chain)
      /\ mode = "user" /\ t \notin alive /\ UNCHANGED <<c, intact>> /\ Chain # <<>> /\ intact
      /\ task_page(task_new(list, t), alive')
      /\ alive' = alive \cup {t} /\ registers' = [task_save_state EXCEPT ![t] = Zeroed]
      /\ at' = [at EXCEPT ![t] = Zeroed]
  BY ChainLinked DEF Ordered, process_load_only
<1>1. /\ registers' \in [Tasks -> Context] /\ at' \in [Tasks -> Context]
      /\ \A u \in alive' : registers'[u].gp = at'[u].gp
      /\ alive' \subseteq Tasks /\ alive' # {} /\ list.current \in alive
      /\ at'[list.current] = at[list.current]
  BY <1>0, CreatedType
<1>2a. cpu.cr3 = list.current /\ cpu.gp = at[list.current].gp
  BY <1>0, SaveState
<1>2b. /\ task_new(list, t) \in Lists
       /\ Linked(Append(Chain, t), task_new(list, t), alive \cup {t})
       /\ task_new(list, t).current = list.current
       /\ task_new(list, t).prev = [list.prev EXCEPT ![t] = LastOf(Chain)]
  BY <1>0, ListNew
<1>2c. list' = task_new(list, t) /\ cpu' = cpu /\ mode' = "user"
  BY <1>0, <1>1, <1>2a, <1>2b, PageRuns
<1>2. /\ list' \in Lists /\ Linked(Append(Chain, t), list', alive')
      /\ list'.current = list.current
      /\ list'.prev = [list.prev EXCEPT ![t] = LastOf(Chain)]
  BY <1>0, <1>2b, <1>2c
<1>2d. \A u \in alive' : list'.prev[u] # u
  BY <1>0, <1>2, PrevOfNew
<1>3. TypeOK'
  BY <1>0, <1>1, <1>2, <1>2c DEF TypeOK, Lists
<1>4. ContextIntact'
  BY <1>0, <1>1, <1>2, <1>2a, <1>2c DEF ContextIntact
<1>5. Ordered'
  BY <1>0, <1>1, <1>2, <1>2c, <1>2d, <1>3, <1>4, StepInv
<1>6. Chain' = Append(Chain, t)
  BY <1>1, <1>2, ChainPrime
<1>7. \A i \in DOMAIN Chain : Chain[i] # t
  BY <1>0
<1> QED BY <1>0, <1>2, <1>5, <1>6, <1>7, QueueBack DEF Queue!Add, Queue!InQueue

(* Removing the task that was just created restores the order.             *)
LEMMA LinkedUndo ==
  ASSUME NEW L \in Lists, NEW A \in SUBSET Tasks, NEW s, Linked(s, L, A), s # <<>>,
         NEW t \in Tasks, t \notin A, L.current \in A
  PROVE  LET N == task_list_remove(task_new(L, t), t)
         IN  /\ N \in Lists /\ Linked(s, N, A) /\ N.current = L.current
             /\ N.prev = [L.prev EXCEPT ![t] = LastOf(s)]
<1> DEFINE M == task_new(L, t)
           N == task_list_remove(M, t)
           n == Len(s)
<1>0. /\ s \in Seq(A) /\ n \in Nat /\ n # 0 /\ NULL \notin Tasks
      /\ 1 \in 1 .. n /\ n \in 1 .. n /\ \A i \in 1 .. n : s[i] \in A
      /\ L.head = s[1] /\ L.tail = s[n] /\ L.next \in [Tasks -> Pointers]
      /\ L.prev \in [Tasks -> Pointers]
  BY TaskAssumption DEF Linked, Lists
<1>1. L.head \in Tasks \ {t} /\ L.tail \in Tasks \ {t} /\ L.head # NULL /\ L.tail # NULL
  BY <1>0
<1>2. /\ M \in Lists /\ M.head = L.head /\ M.tail = t /\ M.current = L.current
      /\ M.next = [L.next EXCEPT ![t] = NULL, ![L.tail] = t]
      /\ M.prev = [L.prev EXCEPT ![t] = L.tail]
  BY <1>1, NewFields, ZenonT(30)
<1>3. M.prev[t] = L.tail /\ M.next[t] = NULL
  BY <1>0, <1>1, <1>2
<1> HIDE DEF M
<1>4. /\ N \in Lists /\ N.prev = M.prev
      /\ N.next = IF M.prev[t] = NULL THEN M.next
                  ELSE [M.next EXCEPT ![M.prev[t]] = M.next[t]]
      /\ N.head = IF t = M.head THEN N.next[t] ELSE M.head
      /\ N.tail = IF t = M.tail THEN M.prev[t] ELSE M.tail
      /\ N.current = IF t # M.current THEN M.current
                     ELSE IF N.next[t] = NULL THEN N.head ELSE N.next[t]
  BY <1>2, RemoveFields, Zenon
<1> HIDE DEF N
<1>5. /\ N.next = [M.next EXCEPT ![L.tail] = NULL]
      /\ N.head = L.head /\ N.tail = L.tail
  BY <1>1, <1>2, <1>3, <1>4
<1>5a. t # M.current
  BY <1>2
<1>5b. N.current = L.current
  BY <1>2, <1>4, <1>5a
<1>6. ASSUME NEW i \in 1 .. n PROVE N.next[s[i]] = IF i = n THEN NULL ELSE s[i + 1]
  <2>0. \A j, k \in 1 .. n : s[j] = s[k] => j = k
    BY DEF Linked
  <2>1. s[i] \in Tasks \ {t} /\ (s[i] = s[n] => i = n)
    BY <1>0, <2>0
  <2>2. L.next[s[i]] = IF i = n THEN NULL ELSE s[i + 1]
    BY DEF Linked
  <2>3. CASE i = n
    BY <1>0, <1>1, <1>2, <1>5, <2>3
  <2>4. CASE i # n
    BY <1>0, <1>1, <1>2, <1>5, <2>1, <2>2, <2>4
  <2> QED BY <2>3, <2>4
<1>7. Linked(s, N, A)
  BY <1>0, <1>5, <1>6 DEF Linked
<1>8. N.prev = [L.prev EXCEPT ![t] = LastOf(s)]
  BY <1>0, <1>2, <1>4 DEF LastOf
<1> QED BY <1>4, <1>5b, <1>7, <1>8 DEF N, M

(* A load that fails after its task was created leaves the run queue as it *)
(* was: process_load_fails.                                                *)
LEMMA LoadFailsStep ==
  ASSUME Ordered, NEW t \in Tasks, process_load_fails(t)
  PROVE  Ordered' /\ Queue!Refuse(t)
<1>0. /\ TypeOK /\ list \in Lists /\ alive \in SUBSET Tasks /\ Linked(Chain, list, alive)
      /\ Chain \in Seq(alive) /\ DOMAIN Chain = 1 .. Len(Chain)
      /\ mode = "user" /\ t \notin alive /\ UNCHANGED <<alive, at, c, intact>> /\ intact
      /\ task_page(task_list_remove(task_new(list, t), t), alive)
      /\ Chain # <<>> /\ alive # {}
      /\ registers' = task_save_state
  BY ChainLinked DEF Ordered, process_load_fails
<1>1. /\ task_save_state \in [Tasks -> Context] /\ list.current \in alive
      /\ \A u \in alive : task_save_state[u].gp = at[u].gp
      /\ cpu.cr3 = list.current /\ cpu.gp = at[list.current].gp
  BY <1>0, SaveState
<1> DEFINE N == task_list_remove(task_new(list, t), t)
<1>2a. /\ N \in Lists /\ Linked(Chain, N, alive) /\ N.current = list.current
       /\ N.prev = [list.prev EXCEPT ![t] = LastOf(Chain)]
  BY <1>0, <1>1, LinkedUndo, SMTT(30)
<1>2b. task_page(N, alive)
  BY <1>0
<1> HIDE DEF N
<1>2c. list' = N /\ cpu' = cpu /\ mode' = "user"
  BY <1>0, <1>1, <1>2a, <1>2b, PageRuns
<1>2. /\ list' \in Lists /\ Linked(Chain, list', alive) /\ list'.current = list.current
      /\ list'.prev = [list.prev EXCEPT ![t] = LastOf(Chain)]
  BY <1>2a, <1>2c
<1>2d. \A u \in alive' : list'.prev[u] # u
  BY <1>0, <1>2, PrevOfNew
<1>3. TypeOK'
  BY <1>0, <1>1, <1>2, <1>2c DEF TypeOK, Lists
<1>4. ContextIntact'
  BY <1>0, <1>1, <1>2, <1>2c DEF ContextIntact
<1>5. Linked(Chain, list', alive')
  BY <1>0, <1>2
<1>6. Ordered'
  BY <1>0, <1>1, <1>2, <1>2c, <1>2d, <1>3, <1>4, <1>5, StepInv
<1>7. Chain' = Chain
  BY <1>0, <1>2, <1>5, ChainPrime
<1>8. \A i \in DOMAIN Chain : Chain[i] # t
  BY <1>0
<1> QED BY <1>0, <1>2, <1>6, <1>7, <1>8, QueueBack DEF Queue!Refuse, Queue!InQueue

(* InOrder, in terms of the place of the task in the list.                 *)
LEMMA PrevInOrder ==
  ASSUME Ordered, NEW i \in 1 .. Len(Chain)
  PROVE  InOrder(Chain[i]) <=> IF i = 1 THEN list.prev[Chain[i]] \notin alive
                               ELSE list.prev[Chain[i]] = Chain[i - 1]
<1> DEFINE t == Chain[i]
           n == Len(Chain)
<1>0. /\ Linked(Chain, list, alive) /\ n \in Nat /\ NULL \notin Tasks /\ alive \subseteq Tasks
      /\ \A j \in 1 .. n : Chain[j] \in alive
      /\ \A j, k \in 1 .. n : Chain[j] = Chain[k] => j = k
      /\ Chain # <<>> /\ 1 \in 1 .. n
  <2>1. /\ Linked(Chain, list, alive) /\ n \in Nat /\ NULL \notin Tasks
        /\ alive \subseteq Tasks /\ Chain \in Seq(alive)
    BY ChainLinked, TaskAssumption
  <2>2. \A j, k \in 1 .. n : Chain[j] = Chain[k] => j = k
    BY <2>1 DEF Linked
  <2>3. 1 \in 1 .. n /\ Chain # <<>>
    BY <2>1
  <2> QED BY <2>1, <2>2, <2>3
<1>1. list.head = Chain[1]
  BY <1>0 DEF Linked
<1>2. CASE i = 1
  BY <1>1, <1>2 DEF InOrder
<1>3. CASE i # 1
  <2>1. t # list.head
    BY <1>0, <1>1, <1>3
  <2>2. InOrder(t) <=> list.prev[t] \in alive /\ list.next[list.prev[t]] = t
    BY <2>1 DEF InOrder
  <2>3. ASSUME NEW k \in 1 .. n PROVE list.next[Chain[k]] = t <=> k = i - 1
    <3>1. list.next[Chain[k]] = IF k = n THEN NULL ELSE Chain[k + 1]
      BY <1>0 DEF Linked
    <3>2. t # NULL
      BY <1>0
    <3>3. CASE k = n
      BY <1>0, <3>1, <3>2, <3>3
    <3>4. CASE k # n
      <4>1. k + 1 \in 1 .. n
        BY <1>0, <3>4
      <4>2. Chain[k + 1] = t <=> k + 1 = i
        BY <1>0, <4>1
      <4> QED BY <3>1, <3>4, <4>2
    <3> QED BY <3>3, <3>4
  <2>4. i - 1 \in 1 .. n
    BY <1>0, <1>3
  <2>5. InOrder(t) => list.prev[t] = Chain[i - 1]
    <3> SUFFICES ASSUME InOrder(t) PROVE list.prev[t] = Chain[i - 1]
      OBVIOUS
    <3>1. PICK k \in 1 .. n : Chain[k] = list.prev[t]
      BY <1>0, <2>2 DEF Linked
    <3> QED BY <2>2, <2>3, <3>1
  <2>6. list.prev[t] = Chain[i - 1] => InOrder(t)
    BY <1>0, <2>2, <2>3, <2>4
  <2> QED BY <1>3, <2>5, <2>6
<1> QED BY <1>2, <1>3

(* A task exits in order exactly if the queue finds that it does.          *)
LEMMA QueueInOrder ==
  ASSUME Ordered, alive # {}
  PROVE  Queue!ExitsInOrder <=> InOrder(list.current)
<1> DEFINE i == Queue!IndexOf(list.current)
<1>1. i \in 1 .. Len(Chain) /\ Chain[i] = list.current
  BY CurrentPlace
<1>2. Linked(Chain, list, alive) /\ DOMAIN Chain = 1 .. Len(Chain) /\ Chain \in Seq(alive)
  BY ChainLinked
<1>3. ASSUME NEW p PROVE Queue!InQueue(p) <=> p \in alive
  <2>1. (\E k \in DOMAIN Chain : Chain[k] = p) <=> p \in alive
    <3>1. \A k \in 1 .. Len(Chain) : Chain[k] \in alive
      BY <1>2
    <3>2. p \in alive => \E k \in 1 .. Len(Chain) : Chain[k] = p
      BY <1>2 DEF Linked
    <3> QED BY <1>2, <3>1, <3>2
  <2> QED BY <2>1 DEF Queue!InQueue
<1>4. InOrder(Chain[i]) <=> IF i = 1 THEN list.prev[Chain[i]] \notin alive
                            ELSE list.prev[Chain[i]] = Chain[i - 1]
  <2> HIDE DEF i
  <2> QED BY <1>1, PrevInOrder
<1>5. Queue!ExitsInOrder <=> IF i = 1 THEN ~Queue!InQueue(list.prev[list.current])
                             ELSE list.prev[list.current] = Chain[i - 1]
  BY DEF Queue!ExitsInOrder
<1> HIDE DEF i
<1> QED BY <1>1, <1>3, <1>4, <1>5

(* A task that exits in order leaves the list, and the task after the one  *)
(* that followed it runs: exit.                                            *)
LEMMA ExitStep ==
  ASSUME Ordered, exit \/ exit_panics, intact'
  PROVE  Ordered' /\ Queue!Exit
<1> DEFINE t == list.current
           i == Queue!IndexOf(list.current)
           L == task_list_remove(list, t)
           q == Without(Chain, i)
           j == IF i > Len(q) THEN 1 ELSE i
<1>0. /\ TypeOK /\ list \in Lists /\ alive \in SUBSET Tasks /\ Linked(Chain, list, alive)
      /\ mode = "user" /\ UNCHANGED <<at, c>> /\ Chain # <<>> /\ alive # {}
      /\ Chain \in Seq(alive) /\ InOrder(t) /\ intact /\ UNCHANGED intact
      /\ alive' = alive \ {t} /\ registers' = task_save_state
      /\ at \in [Tasks -> Context] /\ c \in 0 .. Delay
      /\ \A u \in alive : list.prev[u] # u
  <2>1. process_terminate
    BY DEF exit, exit_panics
  <2>2. at' = at /\ intact /\ InOrder(t) /\ intact' = intact
    BY <2>1 DEF process_terminate
  <2> QED BY <2>1, <2>2, ChainLinked DEF Ordered, process_terminate, TypeOK
<1>1. i \in 1 .. Len(Chain) /\ Chain[i] = t
  BY <1>0, CurrentPlace
<1>2. IF i = 1 THEN list.prev[Chain[i]] \notin alive ELSE list.prev[Chain[i]] = Chain[i - 1]
  <2> HIDE DEF i
  <2> QED BY <1>0, <1>1, PrevInOrder
<1>3. /\ L \in Lists /\ Linked(q, L, alive') /\ (q = <<>> => L.current = NULL)
      /\ (q # <<>> => L.current = IF i > Len(q) THEN q[1] ELSE q[i])
      /\ L.prev = list.prev
  <2>0. i \in 1 .. Len(Chain) /\ list.current = Chain[i]
    BY <1>1
  <2> HIDE DEF i
  <2>1. LET N == task_list_remove(list, Chain[i])
        IN  /\ N \in Lists /\ Linked(q, N, alive \ {Chain[i]}) /\ N.prev = list.prev
            /\ q = <<>> => N.current = NULL
            /\ q # <<>> => N.current = IF i > Len(q) THEN q[1] ELSE q[i]
    <3>1. Removed(Chain, i, list, alive)
      BY <1>0, <1>2, <2>0, LinkedRemove
    <3> QED BY <3>1 DEF Removed
  <2> QED BY <1>0, <1>1, <2>1
<1>4. q = Queue!RemoveAt(Chain, i) /\ q \in Seq(alive') /\ Len(q) \in Nat
  BY <1>0, <1>1, <1>3, WithoutIsRemoveAt DEF Linked
<1>5. q = <<>> <=> alive = {t}
  <2>1. q = <<>> => alive' = {}
    BY <1>3 DEF Linked
  <2>2. alive' = {} => q = <<>>
    <3>1. ASSUME q # <<>> PROVE alive' # {}
      <4>1. 1 \in 1 .. Len(q)
        BY <1>4, <3>1
      <4>2. q[1] \in alive'
        BY <1>4, <4>1
      <4> QED BY <4>2
    <3> QED BY <3>1
  <2>3. t \in alive
    BY <1>0 DEF Ordered
  <2> QED BY <1>0, <2>1, <2>2, <2>3
<1>6. /\ registers' \in [Tasks -> Context] /\ at' \in [Tasks -> Context]
      /\ \A u \in alive' : registers'[u].gp = at'[u].gp
  BY <1>0, SaveState
<1>7. alive' \subseteq Tasks /\ c' \in 0 .. Delay /\ intact' = TRUE
  BY <1>0 DEF TypeOK
<1>7a. Queue!ExitsInOrder
  BY <1>0, QueueInOrder
<1>7b. exit => task_next(L, alive')
  BY <1>0 DEF exit
<1>7c. exit_panics => alive = {t} /\ list' = L /\ mode' = "panic" /\ cpu' = cpu
  BY <1>0 DEF exit_panics
<1> HIDE DEF t, i, q, L
<1>8. CASE alive = {t}
  <2>1. mode' \in {"panic", "crash"} /\ list' = L /\ cpu' = cpu
    <3>1. CASE exit
      <4>1. L.current = NULL
        BY <1>3, <1>5, <1>8
      <4> QED BY <1>7b, <3>1, <4>1 DEF task_next
    <3> QED BY <1>7c, <3>1
  <2>2. TypeOK'
    BY <1>0, <1>3, <1>6, <1>7, <2>1 DEF TypeOK, Lists
  <2>3. /\ list'.current = NULL /\ alive' = {} /\ Linked(q, list', alive')
        /\ list'.prev = list.prev
    BY <1>0, <1>3, <1>5, <1>8, <2>1
  <2>4. ContextIntact'
    BY <2>1 DEF ContextIntact
  <2>5. Ordered'
    BY <1>7, <2>1, <2>2, <2>3, <2>4, StepInv
  <2>6. Chain' = q
    BY <1>3, <1>7, <2>1, <2>3, ChainPrime
  <2>7. Queue!Exit
    BY <1>0, <1>4, <1>5, <1>7a, <1>8, <2>3, <2>6 DEF Queue!Exit, i
  <2> QED BY <2>5, <2>7
<1>9. CASE alive # {t}
  <2> DEFINE u == task_get_next(L)
  <2>2. q # <<>> /\ j \in 1 .. Len(q) /\ L.current = q[j]
    BY <1>1, <1>3, <1>4, <1>5, <1>9
  <2> HIDE DEF j
  <2>3. u = (IF j = Len(q) THEN q[1] ELSE q[j + 1]) /\ u \in alive'
    BY <1>3, <1>7, <2>2, LinkedNext
  <2>3a. L.current # NULL
    <3>1. q[j] \in alive'
      BY <1>4, <2>2
    <3> QED BY <1>7, <2>2, <3>1, TaskAssumption
  <2>1. /\ list' = [L EXCEPT !.current = u] /\ task_return(u, registers'[u])
        /\ mode' = "user"
    BY <1>7, <1>7b, <1>7c, <1>9, <2>3, <2>3a, NextRuns
  <2>4. j = Len(q) <=> j >= Len(q)
    BY <1>4, <2>2
  <2> HIDE DEF u
  <2>5. u \in Tasks /\ mode' = "user"
    BY <1>0, <1>7, <2>1, <2>3
  <2>6. /\ list' \in Lists /\ Linked(q, list', alive') /\ list'.current = u
        /\ list'.prev = list.prev
    BY <1>3, <2>1, <2>5, LinkedCurrent
  <2>6a. \A v \in alive' : list'.prev[v] # v
    BY <1>0, <2>6
  <2>7. Ordered'
    BY <1>0, <1>6, <1>7, <2>1, <2>3, <2>5, <2>6, <2>6a, SwitchInv
  <2>8. Chain' = q
    BY <1>7, <2>6, ChainPrime
  <2>9. list'.current = Queue!Following(q, j)
    BY <2>3, <2>4, <2>6 DEF Queue!Following
  <2>10. Queue!Exit
    BY <1>0, <1>4, <1>7a, <2>2, <2>6, <2>8, <2>9, Zenon DEF Queue!Exit, i, j
  <2> QED BY <2>7, <2>10
<1> QED BY <1>8, <1>9

(* A task that exits out of order breaks the queue.                        *)
LEMMA BreakStep ==
  ASSUME Ordered, exit \/ exit_panics, ~intact'
  PROVE  Queue!Break
<1>1. mode = "user" /\ intact' = (intact /\ InOrder(list.current)) /\ intact
  BY DEF exit, exit_panics, process_terminate, Ordered
<1>2. alive # {} /\ intact' = FALSE /\ ~InOrder(list.current)
  BY <1>1 DEF Ordered
<1>3. Chain # <<>>
  BY <1>2, ChainLinked
<1> QED BY <1>2, <1>3, QueueInOrder DEF Queue!Break

-----------------------------------------------------------------------------
(* The types, whether the list is intact or not.                           *)

LEMMA NewType ==
  ASSUME NEW L \in Lists, NEW t \in Tasks
  PROVE  task_new(L, t) \in Lists
<1>1. L = [head |-> L.head, tail |-> L.tail, current |-> L.current,
           next |-> L.next, prev |-> L.prev]
      /\ L.next \in [Tasks -> Pointers] /\ L.prev \in [Tasks -> Pointers]
      /\ L.head \in Pointers /\ L.tail \in Pointers /\ L.current \in Pointers
      /\ t \in Pointers /\ NULL \in Pointers
  BY DEF Lists, Pointers
<1>2. CASE L.head = NULL
  <2>1. task_new(L, t) = [head |-> t, tail |-> t, current |-> t,
                          next |-> [L.next EXCEPT ![t] = NULL],
                          prev |-> [L.prev EXCEPT ![t] = NULL]]
    BY <1>1, <1>2 DEF task_new
  <2> QED BY <1>1, <2>1 DEF Lists
<1>3. CASE L.head # NULL
  <2> DEFINE next == [L.next EXCEPT ![t] = NULL]
             prev == [L.prev EXCEPT ![t] = NULL]
  <2>1. task_new(L, t) = [head |-> L.head, tail |-> t, current |-> L.current,
                          next |-> [next EXCEPT ![L.tail] = t],
                          prev |-> [prev EXCEPT ![t] = L.tail]]
    BY <1>1, <1>3 DEF task_new
  <2>2. next \in [Tasks -> Pointers] /\ prev \in [Tasks -> Pointers]
    BY <1>1
  <2> HIDE DEF next, prev
  <2>3. /\ [next EXCEPT ![L.tail] = t] \in [Tasks -> Pointers]
        /\ [prev EXCEPT ![t] = L.tail] \in [Tasks -> Pointers]
    BY <1>1, <2>2
  <2> QED BY <1>1, <2>1, <2>3 DEF Lists
<1> QED BY <1>2, <1>3

(* task_next and task_page leave a task to run, or the system stops.       *)
LEMMA NextTypes ==
  ASSUME TypeOK, NEW L \in Lists, NEW A \in SUBSET Tasks, task_next(L, A),
         registers' \in [Tasks -> Context]
  PROVE  /\ list' \in Lists /\ cpu' \in [gp : Values, flags : FlagValues, cr3 : Pointers]
         /\ mode' \in {"user", "panic", "crash"}
         /\ mode' = "user" => list'.current \in Tasks
<1> DEFINE t == task_get_next(L)
<1>1. CASE list' = L /\ cpu' = cpu /\ mode' \in {"panic", "crash"}
  BY <1>1 DEF TypeOK
<1>2. CASE /\ L.current # NULL /\ t # NULL /\ list' = [L EXCEPT !.current = t]
           /\ task_return(t, registers'[t]) /\ mode' \in Resumes(t, A)
  <2>1. t \in Tasks
    <3>1. /\ L.next \in [Tasks -> Pointers] /\ L.head \in Pointers /\ L.current \in Tasks
      BY <1>2 DEF Lists, Pointers
    <3> QED BY <1>2, <3>1 DEF task_get_next, Pointers
  <2>2. cpu' \in [gp : Values, flags : FlagValues, cr3 : Pointers]
    BY <1>2, <2>1, ReturnType
  <2>3. list' \in Lists /\ list'.current = t
    BY <1>2, <2>1 DEF Lists, Pointers
  <2>4. mode' \in {"user", "crash"}
    BY <1>2 DEF Resumes
  <2> QED BY <2>1, <2>2, <2>3, <2>4
<1> QED BY <1>1, <1>2 DEF task_next

LEMMA PageTypes ==
  ASSUME TypeOK, NEW L \in Lists, NEW A \in SUBSET Tasks, task_page(L, A)
  PROVE  /\ list' \in Lists /\ cpu' \in [gp : Values, flags : FlagValues, cr3 : Pointers]
         /\ mode' \in {"user", "crash"}
         /\ mode' = "user" => list'.current \in Tasks
<1>1. /\ L.current \in Pointers /\ list' = L /\ mode' \in Resumes(L.current, A)
      /\ cpu' = [cpu EXCEPT !.cr3 = L.current]
  BY DEF task_page, Lists
<1>2. cpu' \in [gp : Values, flags : FlagValues, cr3 : Pointers]
  BY <1>1 DEF TypeOK
<1>3. mode' \in {"user", "crash"} /\ (L.current = NULL => mode' = "crash")
  BY <1>1, TaskAssumption DEF Resumes
<1> QED BY <1>1, <1>2, <1>3 DEF Pointers

(* Once the first task runs, every step keeps the types, and a list that   *)
(* is broken stays so.                                                     *)
LEMMA TypeNext ==
  ASSUME TypeOK, mode = "user", Next
  PROVE  TypeOK' /\ mode' # "boot" /\ (intact' => intact)
<1> DEFINE Cpus == [gp : Values, flags : FlagValues, cr3 : Pointers]
<1>0. /\ list \in Lists /\ alive \in SUBSET Tasks /\ registers \in [Tasks -> Context]
      /\ at \in [Tasks -> Context] /\ cpu \in Cpus /\ c \in 0 .. Delay
      /\ intact \in BOOLEAN /\ list.current \in Tasks /\ Delay \in Nat
      /\ Zeroed \in Context
  BY TaskAssumption DEF TypeOK, Lists, Zeroed, Context
<1>1. task_save_state \in [Tasks -> Context]
  <2>1. [gp |-> cpu.gp, flags |-> cpu.flags] \in Context
    BY <1>0 DEF Context
  <2> QED BY <1>0, <2>1 DEF task_save_state
<1>2. ASSUME list' \in Lists, alive' \in SUBSET Tasks, registers' \in [Tasks -> Context],
             at' \in [Tasks -> Context], cpu' \in Cpus, c' \in 0 .. Delay,
             intact' \in BOOLEAN, intact' => intact,
             mode' \in {"user", "panic", "crash"}, mode' = "user" => list'.current \in Tasks
      PROVE  TypeOK' /\ mode' # "boot" /\ (intact' => intact)
  BY <1>2 DEF TypeOK, Lists
<1> HIDE DEF Cpus
<1>3. ASSUME NEW t \in Tasks, process_load_start(t)
      PROVE  TypeOK' /\ mode' # "boot" /\ (intact' => intact)
  <2>1. /\ list' = [task_new(list, t) EXCEPT !.current = t] /\ alive' = alive \cup {t}
        /\ registers' = [task_save_state EXCEPT ![t] = Zeroed]
        /\ at' = [at EXCEPT ![t] = Zeroed] /\ task_return(t, Zeroed)
        /\ UNCHANGED <<c, mode, intact>>
    BY <1>3 DEF process_load_start
  <2>2. task_new(list, t) \in Lists
    BY <1>0, NewType
  <2>3. list' \in Lists /\ list'.current = t
    BY <2>1, <2>2 DEF Lists, Pointers
  <2>4. cpu' \in Cpus
    BY <1>0, <2>1, ReturnType DEF Cpus
  <2>5. registers' \in [Tasks -> Context] /\ at' \in [Tasks -> Context]
    BY <1>0, <1>1, <2>1
  <2> QED BY <1>0, <1>2, <2>1, <2>3, <2>4, <2>5
<1>4. ASSUME NEW t \in Tasks, process_load_only(t)
      PROVE  TypeOK' /\ mode' # "boot" /\ (intact' => intact)
  <2>1. /\ task_page(task_new(list, t), alive \cup {t}) /\ alive' = alive \cup {t}
        /\ registers' = [task_save_state EXCEPT ![t] = Zeroed]
        /\ at' = [at EXCEPT ![t] = Zeroed] /\ UNCHANGED <<c, intact>>
    BY <1>4 DEF process_load_only
  <2>2. task_new(list, t) \in Lists /\ alive \cup {t} \in SUBSET Tasks
    BY <1>0, NewType
  <2>3. /\ list' \in Lists /\ cpu' \in Cpus /\ mode' \in {"user", "crash"}
        /\ mode' = "user" => list'.current \in Tasks
    BY <2>1, <2>2, PageTypes DEF Cpus
  <2>4. registers' \in [Tasks -> Context] /\ at' \in [Tasks -> Context]
    BY <1>0, <1>1, <2>1
  <2> QED BY <1>0, <1>2, <2>1, <2>2, <2>3, <2>4
<1>5. ASSUME NEW t \in Tasks, process_load_fails(t)
      PROVE  TypeOK' /\ mode' # "boot" /\ (intact' => intact)
  <2>1. /\ task_page(task_list_remove(task_new(list, t), t), alive)
        /\ registers' = task_save_state /\ UNCHANGED <<alive, at, c, intact>>
    BY <1>5 DEF process_load_fails
  <2>2. task_list_remove(task_new(list, t), t) \in Lists
    BY <1>0, NewType, RemoveFields, Zenon
  <2>3. /\ list' \in Lists /\ cpu' \in Cpus /\ mode' \in {"user", "crash"}
        /\ mode' = "user" => list'.current \in Tasks
    BY <1>0, <2>1, <2>2, PageTypes DEF Cpus
  <2> QED BY <1>0, <1>1, <1>2, <2>1, <2>3
<1>6. CASE UserStep
  <2>1. PICK x \in Context : /\ cpu' = [cpu EXCEPT !.gp = x.gp, !.flags = x.flags]
                             /\ at' = IF intact THEN [at EXCEPT ![list.current] = x] ELSE at
    BY <1>6 DEF UserStep
  <2>2. cpu' \in Cpus /\ at' \in [Tasks -> Context]
    BY <1>0, <2>1 DEF Context, Cpus
  <2>3. UNCHANGED <<list, alive, registers, c, mode, intact>>
    BY <1>6 DEF UserStep
  <2> QED BY <1>0, <1>2, <2>2, <2>3
<1>7. CASE idt_clock
  <2>1. registers' = task_save_state /\ UNCHANGED <<alive, at, intact>>
    BY <1>7 DEF idt_clock
  <2>2. CASE c < Delay
    <3>1. c' = c + 1 /\ UNCHANGED <<list, cpu, mode>>
      BY <1>7, <2>2 DEF idt_clock
    <3>2. c' \in 0 .. Delay
      BY <1>0, <2>2, <3>1
    <3> QED BY <1>0, <1>1, <1>2, <2>1, <3>1, <3>2
  <2>3. CASE ~(c < Delay)
    <3>1. task_next(list, alive) /\ c' = c
      BY <1>7, <2>3 DEF idt_clock
    <3>2. /\ list' \in Lists /\ cpu' \in Cpus /\ mode' \in {"user", "panic", "crash"}
          /\ mode' = "user" => list'.current \in Tasks
      BY <1>0, <1>1, <2>1, <3>1, NextTypes DEF Cpus
    <3> QED BY <1>0, <1>1, <1>2, <2>1, <3>1, <3>2
  <2> QED BY <2>2, <2>3
<1>8. CASE exit \/ exit_panics
  <2> DEFINE L == task_list_remove(list, list.current)
             A == alive \ {list.current}
  <2>1. /\ registers' = task_save_state /\ alive' = A /\ UNCHANGED c
        /\ intact' = (intact /\ InOrder(list.current))
        /\ at' = at \/ at' = [t \in Tasks |-> Zeroed]
    BY <1>8 DEF exit, exit_panics, process_terminate
  <2>2. L \in Lists /\ A \in SUBSET Tasks
    BY <1>0, RemoveFields, Zenon
  <2>3. exit => task_next(L, A)
    BY DEF exit
  <2>4. exit_panics => list' = L /\ mode' = "panic" /\ cpu' = cpu
    BY DEF exit_panics
  <2> HIDE DEF L, A
  <2>5. /\ list' \in Lists /\ cpu' \in Cpus /\ mode' \in {"user", "panic", "crash"}
        /\ mode' = "user" => list'.current \in Tasks
    <3>1. CASE exit
      BY <1>1, <2>1, <2>2, <2>3, <3>1, NextTypes DEF Cpus
    <3>2. CASE exit_panics
      BY <1>0, <2>2, <2>4, <3>2
    <3> QED BY <1>8, <3>1, <3>2
  <2>6. intact' \in BOOLEAN /\ (intact' => intact)
    BY <2>1
  <2>7. at' \in [Tasks -> Context]
    <3>1. [t \in Tasks |-> Zeroed] \in [Tasks -> Context]
      BY TaskAssumption DEF Zeroed, Context
    <3> QED BY <1>0, <2>1, <3>1
  <2> QED BY <1>0, <1>1, <1>2, <2>1, <2>2, <2>5, <2>6, <2>7
<1>9. ASSUME NEW t \in Tasks PROVE ~BootTask(t)
  BY DEF BootTask
<1>10. ~task_run_first_ever_task /\ ~Stopped
  BY DEF task_run_first_ever_task, Stopped
<1> QED BY <1>3, <1>4, <1>5, <1>6, <1>7, <1>8, <1>9, <1>10 DEF Next

-----------------------------------------------------------------------------
(* Before the first shell is made there is no task.                        *)
LEMMA TaskInit ==
  ASSUME Init
  PROVE  TaskInv /\ Queue!Init
<1>1. TypeOK
  <2>1. Zeroed \in Context /\ NULL \in Pointers
    BY TaskAssumption DEF Zeroed, Context, Pointers
  <2> QED BY <2>1, TaskAssumption DEF Init, TypeOK
<1>2. /\ list.head = NULL /\ list.current = NULL /\ alive = {} /\ mode = "boot"
      /\ intact = TRUE /\ list.prev = [t \in Tasks |-> NULL]
  BY DEF Init
<1>3. Linked(<<>>, list, alive)
  BY <1>2 DEF Linked
<1>4. Ordered
  <2>1. ContextIntact
    BY <1>2 DEF ContextIntact
  <2>2. \E s : Linked(s, list, alive)
    BY <1>3
  <2> QED BY <1>1, <1>2, <2>1, <2>2 DEF Ordered
<1>5. Chain = <<>>
  BY <1>2, <1>4, ChainLinked
<1>6. TaskInv
  BY <1>1, <1>2, <1>4 DEF TaskInv
<1> QED BY <1>2, <1>5, <1>6 DEF Queue!Init

(* While the list is intact, every step that leaves it intact is a step of *)
(* the run queue or none of its business.                                  *)
LEMMA OrderedNext ==
  ASSUME Ordered, Next, intact'
  PROVE  Ordered' /\ [Queue!Next]_(Queue!vars)
<1>0. intact
  BY DEF Ordered
<1>1. ASSUME NEW t \in Tasks, BootTask(t) PROVE Ordered' /\ [Queue!Next]_(Queue!vars)
  BY <1>0, <1>1, BootTaskStep DEF Queue!Next
<1>2. ASSUME NEW t \in Tasks, process_load_start(t)
      PROVE  Ordered' /\ [Queue!Next]_(Queue!vars)
  BY <1>0, <1>2, LoadStartStep DEF Queue!Next
<1>3. ASSUME NEW t \in Tasks, process_load_only(t)
      PROVE  Ordered' /\ [Queue!Next]_(Queue!vars)
  BY <1>0, <1>3, LoadOnlyStep DEF Queue!Next
<1>4. ASSUME NEW t \in Tasks, process_load_fails(t)
      PROVE  Ordered' /\ [Queue!Next]_(Queue!vars)
  BY <1>0, <1>4, LoadFailsStep DEF Queue!Next
<1>5. CASE task_run_first_ever_task
  BY <1>5, RunFirstStep
<1>6. CASE UserStep
  BY <1>6, UserStepStep
<1>7. CASE idt_clock
  BY <1>0, <1>7, ClockStep DEF Queue!Next
<1>8. CASE exit \/ exit_panics
  BY <1>0, <1>8, ExitStep DEF Queue!Next
<1>9. CASE Stopped
  <2>1. UNCHANGED vars
    BY <1>9 DEF Stopped
  <2>2. Chain' = Chain
    BY <2>1 DEF vars, Chain
  <2>3. Ordered'
    BY <2>1 DEF vars, Ordered, TypeOK, ContextIntact
  <2> QED BY <2>1, <2>2, <2>3 DEF vars, Queue!vars
<1> QED BY <1>1, <1>2, <1>3, <1>4, <1>5, <1>6, <1>7, <1>8, <1>9 DEF Next

(* Every step keeps the invariant, and is a step of the run queue, which   *)
(* an exit out of order breaks.                                            *)
LEMMA TaskNext ==
  ASSUME TaskInv, [Next]_vars
  PROVE  TaskInv' /\ [Queue!Next]_(Queue!vars)
<1>1. CASE UNCHANGED vars
  <2>1. Chain' = Chain
    BY <1>1 DEF vars, Chain
  <2>2. TaskInv'
    BY <1>1 DEF vars, TaskInv, Ordered, TypeOK, ContextIntact
  <2> QED BY <1>1, <2>1, <2>2 DEF vars, Queue!vars
<1>2. CASE Next /\ intact /\ intact'
  <2>1. Ordered' /\ [Queue!Next]_(Queue!vars)
    BY <1>2, OrderedNext DEF TaskInv
  <2> QED BY <1>2, <2>1 DEF TaskInv, Ordered
<1>3. CASE Next /\ intact /\ ~intact'
  <2>1. exit \/ exit_panics
    BY <1>3 DEF Next, BootTask, process_load_start, process_load_only, process_load_fails,
                task_run_first_ever_task, UserStep, idt_clock, Stopped, vars
  <2>2. Queue!Break
    BY <1>3, <2>1, BreakStep DEF TaskInv
  <2>3. mode = "user"
    BY <2>1 DEF exit, exit_panics, process_terminate
  <2>4. TypeOK' /\ mode' # "boot"
    BY <1>3, <2>3, TypeNext DEF TaskInv
  <2>5. TaskInv'
    BY <1>3, <2>4 DEF TaskInv
  <2> QED BY <1>3, <2>2, <2>5 DEF Queue!Next
<1>4. CASE Next /\ ~intact
  <2>1. TypeOK /\ mode # "boot"
    BY <1>4 DEF TaskInv
  <2>2. CASE mode = "user"
    <3>1. TypeOK' /\ mode' # "boot" /\ ~intact' /\ intact' \in BOOLEAN
      BY <1>4, <2>1, <2>2, TypeNext DEF TypeOK
    <3> QED BY <1>4, <3>1 DEF TaskInv, Queue!Next
  <2>3. CASE mode # "user"
    <3>1. UNCHANGED vars
      BY <1>4, <2>1, <2>3 DEF Next, BootTask, process_load_start, process_load_only,
         process_load_fails, task_run_first_ever_task, UserStep, idt_clock, exit, exit_panics,
         process_terminate, Stopped
    <3> QED BY <1>1, <3>1
  <2> QED BY <2>2, <2>3
<1> QED BY <1>1, <1>2, <1>3, <1>4

(* However tasks are created, fail to load and exit: the types are right,  *)
(* and until a task exits out of order the links and contexts are, too.    *)
THEOREM TaskListInvariant == Spec => []TaskInv
<1>1. Init => TaskInv
  BY TaskInit
<1>2. TaskInv /\ [Next]_vars => TaskInv'
  BY TaskNext
<1> QED BY <1>1, <1>2, PTL DEF Spec

(* The pointers of the list lead to tasks and the registers hold values,   *)
(* for any number of tasks, register values and ticks before a switch,     *)
(* whether the list is intact or broken.                                   *)
THEOREM TaskListTypeCorrect == Spec => []TypeOK
<1>1. TaskInv => TypeOK
  BY DEF TaskInv
<1> QED BY <1>1, TaskListInvariant, PTL

(* The links say what Sound asks of them.                                  *)
LEMMA SoundLinks ==
  ASSUME Ordered
  PROVE  Sound
<1>1. /\ Linked(Chain, list, alive) /\ Len(Chain) = Cardinality(alive)
      /\ Chain \in Seq(alive) /\ DOMAIN Chain = 1 .. Len(Chain)
      /\ Chain = <<>> <=> alive = {}
  BY ChainLinked
<1>2. {Chain[i] : i \in DOMAIN Chain} = alive
  <2>1. \A t \in alive : \E i \in 1 .. Len(Chain) : Chain[i] = t
    BY <1>1 DEF Linked
  <2> QED BY <1>1, <2>1
<1>3. alive # {} => list.tail = Chain[Len(Chain)]
  BY <1>1 DEF Linked
<1>4. mode = "user" => list.current \in alive
  BY DEF Ordered
<1> QED BY <1>1, <1>2, <1>3, <1>4 DEF Sound

(* The list that task_next walks has each task of the system once and ends *)
(* at task_tail, until a task exits out of order.                          *)
THEOREM TaskListSound == Spec => []ListSound
<1>1. TaskInv => ListSound
  BY SoundLinks DEF TaskInv, ListSound
<1> QED BY <1>1, TaskListInvariant, PTL

(* A task is resumed with the general registers it was stopped with and in *)
(* its own page directory, until a task exits out of order.                *)
THEOREM TaskContextIntact == Spec => []ContextIntact
<1>1. TaskInv => ContextIntact
  BY DEF TaskInv, Ordered, ContextIntact
<1> QED BY <1>1, TaskListInvariant, PTL

(* The linked list of task.c implements the run queue: creation adds at    *)
(* the end, the clock goes round, a task that exits in order hands on      *)
(* twice, and only an exit that finds another task than its prev before it *)
(* breaks the queue.                                                       *)
THEOREM TaskListIsRunQueue == Spec => ImplementsRunQueue
<1>1. Init => Queue!Init
  BY TaskInit
<1>2. TaskInv /\ [Next]_vars => [Queue!Next]_(Queue!vars)
  BY TaskNext
<1> QED BY <1>1, <1>2, TaskListInvariant, PTL DEF Spec, ImplementsRunQueue, Queue!Spec

(* A task that exits out of order leaves a list that is not sound: either  *)
(* the task before it still leads to it, or, if it was the first, the one  *)
(* its prev leads to now leads back to the new head.                       *)
LEMMA BreakUnsound ==
  ASSUME Ordered, exit, ~intact', TypeOK'
  PROVE  ~Sound'
<1> SUFFICES ASSUME Sound' PROVE FALSE
  OBVIOUS
<1> DEFINE t == list.current
           p == list.prev[t]
           N == task_list_remove(list, t)
           n == Len(Chain)
<1>0. /\ list \in Lists /\ alive \in SUBSET Tasks /\ Linked(Chain, list, alive)
      /\ Chain \in Seq(alive) /\ n \in Nat /\ NULL \notin Tasks
      /\ t \in alive /\ t \in Tasks /\ p \in Pointers /\ p # t
      /\ list.next \in [Tasks -> Pointers]
      /\ alive' = alive \ {t} /\ list' \in Lists /\ ~InOrder(t)
  <2>1. /\ list \in Lists /\ alive \in SUBSET Tasks /\ Linked(Chain, list, alive)
        /\ Chain \in Seq(alive) /\ n \in Nat
    BY ChainLinked
  <2>2. /\ intact /\ mode = "user" /\ alive' = alive \ {t} /\ intact' = (intact /\ InOrder(t))
    BY DEF Ordered, exit, process_terminate
  <2>3. t \in alive /\ p # t
    BY <2>2 DEF Ordered
  <2>4. list' \in Lists
    BY DEF TypeOK, Lists
  <2> QED BY <2>1, <2>2, <2>3, <2>4, TaskAssumption DEF Lists
<1>1. list'.next = N.next /\ list'.head = N.head
  <2>1. N \in Lists
    BY <1>0, RemoveFields
  <2>2. list' = N \/ list' = [N EXCEPT !.current = task_get_next(N)]
    BY DEF exit, task_next
  <2> HIDE DEF N
  <2> QED BY <2>1, <2>2 DEF Lists
<1>2. /\ N.next = IF p = NULL THEN list.next ELSE [list.next EXCEPT ![p] = list.next[t]]
      /\ N.head = IF t = list.head THEN N.next[t] ELSE list.head
  BY <1>0, RemoveFields
<1>3. ASSUME NEW x \in alive'
      PROVE  list'.next[x] \in alive' \cup {NULL} /\ list'.next[x] # list'.head
  <2> DEFINE w == Chain'
             A == alive'
             m == Len(w)
  <2>1. A \in SUBSET Tasks /\ w = Walk(list') /\ Len(w) = Cardinality(A)
        /\ {w[i] : i \in DOMAIN w} = A
    BY <1>0 DEF Sound, Chain
  <2> HIDE DEF w, A, m
  <2>2. /\ Len(w) \in Nat /\ DOMAIN w = 1 .. Len(w)
        /\ \A i, j \in 1 .. Len(w) : w[i] = w[j] => i = j
        /\ \A u \in A : \E i \in 1 .. Len(w) : w[i] = u
        /\ w # <<>> => list'.head = w[1]
        /\ \A i \in 1 .. Len(w) : list'.next[w[i]] = IF i = Len(w) THEN NULL ELSE w[i + 1]
    BY <1>0, <2>1, WalkLinks
  <2>3. PICK i \in 1 .. Len(w) : w[i] = x
    BY <2>2 DEF A
  <2>4. 1 \in 1 .. Len(w) /\ w # <<>> /\ \A j \in 1 .. Len(w) : w[j] \in A /\ w[j] # NULL
    BY <1>0, <2>1, <2>2, <2>3
  <2>5. CASE i = Len(w)
    BY <2>2, <2>3, <2>4, <2>5
  <2>6. CASE i # Len(w)
    <3>0. Len(w) \in Nat /\ i \in 1 .. Len(w)
      BY <2>2
    <3> DEFINE k == Len(w)
    <3> HIDE DEF k
    <3>1. i + 1 \in 1 .. Len(w) /\ i + 1 # 1
      <4>1. k \in Nat /\ i \in 1 .. k /\ i # k => i + 1 \in 1 .. k /\ i + 1 # 1
        OBVIOUS
      <4> QED BY <2>6, <3>0, <4>1 DEF k
    <3>2. list'.next[x] = w[i + 1] /\ w[i + 1] # w[1]
      BY <2>2, <2>3, <2>4, <2>6, <3>1
    <3> QED BY <2>2, <2>4, <3>1, <3>2 DEF A
  <2> QED BY <2>5, <2>6
<1>4. PICK i \in 1 .. n : Chain[i] = t
  BY <1>0 DEF Linked
<1>5. ~(IF i = 1 THEN p \notin alive ELSE p = Chain[i - 1])
  <2>1. InOrder(Chain[i]) <=> IF i = 1 THEN list.prev[Chain[i]] \notin alive
                              ELSE list.prev[Chain[i]] = Chain[i - 1]
    BY PrevInOrder
  <2> QED BY <1>0, <1>4, <2>1
<1> HIDE DEF t, p, N
<1>6. CASE i = 1
  <2>1. p \in alive' /\ p # NULL /\ p \in Tasks
    BY <1>0, <1>5, <1>6
  <2>2. list.head = t
    BY <1>0, <1>4, <1>6 DEF Linked
  <2>3. N.next[p] = list.next[t] /\ N.next[t] = list.next[t] /\ N.head = N.next[t]
    BY <1>0, <1>2, <2>1, <2>2
  <2> QED BY <1>1, <1>3, <2>1, <2>3
<1>7. CASE i # 1
  <2> DEFINE x == Chain[i - 1]
  <2>1. i - 1 \in 1 .. n /\ (i - 1) + 1 = i /\ i - 1 # n
    BY <1>0, <1>7
  <2>2. x \in alive /\ x # t /\ list.next[x] = t
    <3>1. \A j, k \in 1 .. n : Chain[j] = Chain[k] => j = k
      BY <1>0 DEF Linked
    <3>2. i - 1 # i
      BY <2>1
    <3>3. list.next[x] = IF i - 1 = n THEN NULL ELSE Chain[(i - 1) + 1]
      BY <1>0, <2>1 DEF Linked
    <3>4. x \in alive
      BY <1>0, <2>1
    <3> QED BY <1>4, <2>1, <3>1, <3>2, <3>3, <3>4
  <2> HIDE DEF x
  <2>3. p # x
    BY <1>5, <1>7 DEF x
  <2>4. N.next[x] = t
    BY <1>0, <1>2, <2>2, <2>3
  <2>5. x \in alive' /\ t \notin alive' /\ t # NULL
    BY <1>0, <2>2
  <2> QED BY <1>1, <1>3, <2>4, <2>5
<1> QED BY <1>6, <1>7

(* An exit leaves the list sound exactly if the prev of the task leads to  *)
(* the task before it, or is none of the tasks if it was the first: with   *)
(* any number of tasks, a stale prev always does harm.                     *)
THEOREM TaskListBreaksExactly == Spec => BreaksExactly
<1>1. Ordered => Sound
  BY SoundLinks
<1>2. Ordered' => Sound'
  BY <1>1, PTL
<1>3. TaskInv /\ [Next]_vars => [exit /\ intact => (Sound' <=> intact')]_vars
  <2> SUFFICES ASSUME TaskInv, [Next]_vars, exit, intact PROVE Sound' <=> intact'
    OBVIOUS
  <2>1. TaskInv' /\ Ordered
    BY TaskNext DEF TaskInv
  <2>2. intact' => Sound'
    BY <1>2, <2>1 DEF TaskInv
  <2>3. ~intact' => ~Sound'
    BY <2>1, BreakUnsound DEF TaskInv
  <2> QED BY <2>2, <2>3, Zenon
<1> QED BY <1>3, TaskListInvariant, PTL DEF Spec, BreaksExactly

-----------------------------------------------------------------------------
(* Processes and shells.                                                   *)

(* The inductive invariant of the kernel: that of the tasks, the table in  *)
(* step with them while tasks exit in order, only loaded processes in the  *)
(* table, and a current shell from the first shell on.                     *)
KInv ==
  /\ TaskInv
  /\ KTypeOK
  /\ TableMatchesTasks
  /\ Running \subseteq loaded
  /\ \A i \in ShellIds : shells[i] # NULL => current_shell \in ShellIds

(* The table before any process is loaded.                                 *)
LEMMA KernelInit ==
  ASSUME KInit
  PROVE  KInv
<1>0. /\ NULL \notin Procs /\ MaxProcesses \in Nat \ {0} /\ NumShells \in 1 .. MaxProcesses
      /\ Init /\ TaskInv /\ TypeOK
  BY KernelAssumption, TaskInit DEF KInit, TaskInv
<1>1. KTypeOK
  BY <1>0 DEF KInit, KTypeOK, Pointers
<1>2. Running = {}
  BY <1>0 DEF Running, KInit
<1>3. TableMatchesTasks
  BY <1>0, <1>2 DEF TableMatchesTasks, Matching, KInit, Init
<1>4. \A i \in ShellIds : shells[i] # NULL => current_shell \in ShellIds
  BY DEF KInit
<1> QED BY <1>0, <1>1, <1>2, <1>3, <1>4 DEF KInv

(* A process that is loaded: its entry in the table and its task.          *)
LEMMA LoadMatches ==
  ASSUME KInv, NEW p \in Procs, NEW t \in Tasks, t \notin alive, alive' = alive \cup {t},
         process_load_switch(p, t), UNCHANGED intact
  PROVE  /\ TableMatchesTasks' /\ Running' \subseteq loaded'
         /\ processes' \in [Slots -> Procs \cup {NULL}] /\ current_process' \in Procs
         /\ process' \in [Tasks -> Procs \cup {NULL}] /\ task' \in [Procs -> Pointers]
         /\ id' \in [Procs -> Slots \cup {NULL}] /\ loaded' \subseteq Procs
<1>0. /\ p \notin loaded /\ NULL \notin Procs /\ alive \subseteq Tasks
      /\ processes \in [Slots -> Procs \cup {NULL}]
      /\ process \in [Tasks -> Procs \cup {NULL}] /\ task \in [Procs -> Pointers]
      /\ id \in [Procs -> Slots \cup {NULL}] /\ loaded \subseteq Procs
      /\ process' = [process EXCEPT ![t] = p] /\ task' = [task EXCEPT ![p] = t]
      /\ loaded' = loaded \cup {p} /\ current_process' = p
      /\ Running \subseteq loaded /\ (intact => Matching)
  BY KernelAssumption DEF KInv, KTypeOK, TypeOK, process_load_switch, TableMatchesTasks
<1>1. PICK s \in Slots : /\ processes[s] = NULL /\ processes' = [processes EXCEPT ![s] = p]
                         /\ id' = [id EXCEPT ![p] = s]
  BY DEF process_load_switch, process_get_free_slot
<1>2. /\ processes'[s] = p /\ \A r \in Slots \ {s} : processes'[r] = processes[r]
      /\ processes' \in [Slots -> Procs \cup {NULL}]
      /\ id' \in [Procs -> Slots \cup {NULL}] /\ id'[p] = s
      /\ \A r \in Procs \ {p} : id'[r] = id[r] /\ task'[r] = task[r]
      /\ task'[p] = t /\ process'[t] = p
      /\ \A u \in Tasks \ {t} : process'[u] = process[u]
  BY <1>0, <1>1
<1>3. Running' = Running \cup {p} /\ p \notin Running /\ Running \subseteq Procs
  <2>1. Running' = {processes'[r] : r \in Slots} \ {NULL}
    BY DEF Running
  <2> QED BY <1>0, <1>1, <1>2, <2>1 DEF Running
<1>4. ASSUME intact, NEW r \in Slots, processes'[r] # NULL
      PROVE  /\ id'[processes'[r]] = r /\ task'[processes'[r]] \in alive'
             /\ process'[task'[processes'[r]]] = processes'[r]
  <2>1. CASE r = s
    BY <1>2, <2>1
  <2>2. CASE r # s
    <3> DEFINE o == processes[r]
    <3>1. processes'[r] = o /\ o # NULL /\ o \in Running
      BY <1>2, <1>4, <2>2 DEF Running
    <3>2. o \in Procs \ {p}
      BY <1>3, <3>1
    <3>3. id[o] = r /\ task[o] \in alive /\ process[task[o]] = o
      BY <1>0, <1>4, <3>1 DEF Matching
    <3>4. task[o] \in Tasks \ {t}
      BY <1>0, <3>3
    <3> HIDE DEF o
    <3> QED BY <1>2, <3>1, <3>2, <3>3, <3>4
  <2> QED BY <2>1, <2>2
<1>5. intact => alive' = {task'[o] : o \in Running'}
  <2>1. intact => alive = {task[o] : o \in Running}
    BY <1>0 DEF Matching
  <2> QED BY <1>2, <1>3, <2>1
<1>6. TableMatchesTasks'
  BY <1>4, <1>5 DEF TableMatchesTasks, Matching
<1> QED BY <1>0, <1>1, <1>2, <1>3, <1>6 DEF Pointers

(* The process of the current task and its entry in the table.             *)
LEMMA CurrentEntry ==
  ASSUME KInv, mode = "user", intact
  PROVE  LET p == process[list.current]
         IN  /\ p \in Procs /\ p \in Running /\ task[p] = list.current
             /\ id[p] \in Slots /\ processes[id[p]] = p
             /\ \A s \in Slots : processes[s] = p => s = id[p]
             /\ \A o \in Running : task[o] = list.current => o = p
<1>1. /\ list.current \in alive /\ Matching /\ NULL \notin Procs
      /\ processes \in [Slots -> Procs \cup {NULL}]
  BY KernelAssumption, SaveState DEF KInv, KTypeOK, TaskInv, TableMatchesTasks
<1>2. PICK o \in Running : task[o] = list.current
  BY <1>1 DEF Matching
<1>3. PICK s \in Slots : processes[s] = o /\ o # NULL
  BY <1>2 DEF Running
<1>4. id[o] = s /\ process[task[o]] = o
  BY <1>1, <1>3 DEF Matching
<1>5. process[list.current] = o
  BY <1>2, <1>4
<1>6. \A r \in Slots : processes[r] = o => r = s
  BY <1>1, <1>3, <1>4 DEF Matching
<1>7. ASSUME NEW q \in Running, task[q] = list.current PROVE q = o
  <2>1. PICK r \in Slots : processes[r] = q /\ q # NULL
    BY DEF Running
  <2>2. process[task[q]] = q
    BY <1>1, <2>1 DEF Matching
  <2> QED BY <1>5, <1>7, <2>2
<1>8. o \in Procs
  BY <1>1, <1>3
<1> QED BY <1>2, <1>3, <1>4, <1>5, <1>6, <1>7, <1>8

(* A process that ends leaves the table; the types of the table.           *)
LEMMA ExitTypes ==
  ASSUME KInv, Exit
  PROVE  /\ Running' \subseteq loaded'
         /\ processes' \in [Slots -> Procs \cup {NULL}]
         /\ current_process' \in Procs \cup {NULL}
         /\ UNCHANGED <<process, task, id, loaded, shellVars>>
<1> DEFINE p == process[list.current]
<1>1. /\ processes \in [Slots -> Procs \cup {NULL}] /\ current_process \in Procs \cup {NULL}
      /\ Running \subseteq loaded /\ process_unlink(p)
      /\ processes' = [processes EXCEPT ![id[p]] = NULL]
      /\ UNCHANGED <<process, task, id, loaded, shellVars>>
  BY DEF Exit, KInv, KTypeOK, process_unlink
<1>2. \A s \in Slots : processes'[s] \in {processes[s], NULL}
  BY <1>1
<1>3. processes' \in [Slots -> Procs \cup {NULL}]
  BY <1>1
<1>4. Running' \subseteq Running
  <2>1. Running' = {processes'[r] : r \in Slots} \ {NULL}
    BY DEF Running
  <2> QED BY <1>2, <2>1 DEF Running
<1>5. current_process' = current_process \/ \E s \in Slots : current_process' = processes'[s]
  BY <1>1 DEF process_unlink
<1> QED BY <1>1, <1>3, <1>4, <1>5

(* A process that ends leaves the table with its task, and the foreground  *)
(* to a process of the table.                                              *)
LEMMA ExitMatches ==
  ASSUME KInv, Exit, intact
  PROVE  /\ Matching'
         /\ current_process \in Running /\ mode' = "user" => current_process' \in Running'
<1> DEFINE p == process[list.current]
<1>0. /\ process_unlink(p) /\ UNCHANGED <<process, task, id, loaded, shellVars>>
      /\ current_process = p /\ (\A s \in Slots : processes'[s] = NULL) => mode' = "panic"
      /\ process_terminate
  BY DEF Exit, exit, exit_panics
<1>1. /\ mode = "user" /\ alive' = alive \ {list.current} /\ NULL \notin Procs
      /\ Matching /\ processes \in [Slots -> Procs \cup {NULL}]
      /\ current_process \in Procs \cup {NULL} /\ Running \subseteq loaded
      /\ processes' = [processes EXCEPT ![id[p]] = NULL]
  BY <1>0, KernelAssumption DEF process_terminate, KInv, KTypeOK, process_unlink,
     TableMatchesTasks
<1>2. /\ p \in Procs /\ p \in Running /\ task[p] = list.current
      /\ id[p] \in Slots /\ processes[id[p]] = p
      /\ \A s \in Slots : processes[s] = p => s = id[p]
      /\ \A o \in Running : task[o] = list.current => o = p
  BY <1>1, CurrentEntry, Zenon
<1> HIDE DEF p
<1>3. /\ processes'[id[p]] = NULL /\ \A s \in Slots \ {id[p]} : processes'[s] = processes[s]
      /\ processes' \in [Slots -> Procs \cup {NULL}]
  BY <1>1, <1>2
<1>4. Running' = Running \ {p}
  <2>1. Running' = {processes'[r] : r \in Slots} \ {NULL}
    BY DEF Running
  <2> QED BY <1>1, <1>2, <1>3, <2>1 DEF Running
<1>5. ASSUME NEW s \in Slots, processes'[s] # NULL
      PROVE  /\ id'[processes'[s]] = s /\ task'[processes'[s]] \in alive'
             /\ process'[task'[processes'[s]]] = processes'[s]
  <2> DEFINE o == processes[s]
  <2>1. s # id[p] /\ processes'[s] = o /\ o # NULL /\ o # p /\ o \in Running
    BY <1>2, <1>3, <1>5 DEF Running
  <2>2. id[o] = s /\ task[o] \in alive /\ process[task[o]] = o
    BY <1>1, <2>1 DEF Matching
  <2>3. task[o] # list.current
    BY <1>2, <2>1
  <2> HIDE DEF o
  <2> QED BY <1>0, <1>1, <2>1, <2>2, <2>3
<1>6. alive' = {task'[o] : o \in Running'}
  <2>1. alive = {task[o] : o \in Running}
    BY <1>1 DEF Matching
  <2> QED BY <1>0, <1>1, <1>2, <1>4, <2>1
<1>7. Matching'
  BY <1>5, <1>6 DEF Matching
<1>8. CASE current_process # p
  <2>1. current_process' = current_process
    BY <1>0, <1>8 DEF process_unlink
  <2> QED BY <1>4, <1>7, <1>8, <2>1
<1>9. CASE current_process = p /\ \A s \in Slots : processes'[s] = NULL
  BY <1>0, <1>7, <1>9
<1>10. CASE current_process = p /\ ~\A s \in Slots : processes'[s] = NULL
  <2>1. PICK s \in Slots : processes'[s] # NULL /\ current_process' = processes'[s]
    BY <1>0, <1>10 DEF process_unlink
  <2>2. current_process' \in Running'
    BY <2>1 DEF Running
  <2> QED BY <1>7, <2>2
<1> QED BY <1>8, <1>9, <1>10

(* A load that fails after its task was created changes nothing that the   *)
(* table leads to.                                                         *)
LEMMA FailMatches ==
  ASSUME KInv, TaskInv', NEW p \in Procs, NEW t \in Tasks, LoadFails(p, t)
  PROVE  KInv'
<1>0. /\ p \notin loaded /\ NULL \notin Procs /\ alive \subseteq Tasks
      /\ processes \in [Slots -> Procs \cup {NULL}]
      /\ process \in [Tasks -> Procs \cup {NULL}] /\ task \in [Procs -> Pointers]
      /\ loaded' = loaded \cup {p} /\ alive' = alive /\ t \notin alive
      /\ process' = [process EXCEPT ![t] = p] /\ task' = [task EXCEPT ![p] = t]
      /\ UNCHANGED <<processes, current_process, shellVars, intact>>
      /\ Running \subseteq loaded /\ (intact => Matching) /\ KTypeOK /\ loaded \subseteq Procs
      /\ id \in [Procs -> Slots \cup {NULL}]
  BY KernelAssumption DEF KInv, KTypeOK, TypeOK, LoadFails, process_load_fails,
     TableMatchesTasks
<1>0a. PICK slot \in Slots : id' = [id EXCEPT ![p] = slot]
  BY DEF LoadFails
<1>1. Running' = Running /\ Running \subseteq Procs /\ p \notin Running
  BY <1>0 DEF Running
<1>2. /\ \A r \in Procs \ {p} : task'[r] = task[r] /\ id'[r] = id[r]
      /\ \A u \in Tasks \ {t} : process'[u] = process[u]
      /\ process' \in [Tasks -> Procs \cup {NULL}] /\ task' \in [Procs -> Pointers]
      /\ id' \in [Procs -> Slots \cup {NULL}]
  BY <1>0, <1>0a DEF Pointers
<1>3. ASSUME intact, NEW s \in Slots, processes'[s] # NULL
      PROVE  /\ id'[processes'[s]] = s /\ task'[processes'[s]] \in alive'
             /\ process'[task'[processes'[s]]] = processes'[s]
  <2> DEFINE o == processes[s]
  <2>1. processes'[s] = o /\ o # NULL /\ o \in Running
    BY <1>0, <1>3 DEF Running
  <2>2. id[o] = s /\ task[o] \in alive /\ process[task[o]] = o
    BY <1>0, <1>3, <2>1 DEF Matching
  <2>3. o \in Procs \ {p} /\ task[o] \in Tasks \ {t}
    BY <1>0, <1>1, <2>1, <2>2
  <2> HIDE DEF o
  <2> QED BY <1>0, <1>2, <2>1, <2>2, <2>3
<1>4. intact => alive' = {task'[o] : o \in Running'}
  <2>1. intact => alive = {task[o] : o \in Running}
    BY <1>0 DEF Matching
  <2> QED BY <1>0, <1>1, <1>2, <2>1
<1>5. TableMatchesTasks'
  BY <1>0, <1>3, <1>4 DEF TableMatchesTasks, Matching
<1>6. KTypeOK'
  <2>1. TypeOK'
    BY DEF TaskInv
  <2> QED BY <1>0, <1>2, <2>1 DEF KTypeOK, shellVars
<1> QED BY <1>0, <1>1, <1>5, <1>6 DEF KInv, shellVars

(* A step that leaves processes and shells alone.                          *)
LEMMA FrameMatches ==
  ASSUME KInv, TaskInv', alive' = alive, UNCHANGED <<intact, procVars, shellVars>>
  PROVE  KInv'
<1>1. /\ UNCHANGED <<processes, current_process, process, task, id, loaded>>
      /\ UNCHANGED <<shell, booted, shells, current_shell>>
  BY DEF procVars, shellVars
<1>2. Running' = Running
  BY <1>1 DEF Running
<1>3. TableMatchesTasks'
  BY <1>1, <1>2 DEF KInv, TableMatchesTasks, Matching
<1>4. KTypeOK'
  BY <1>1 DEF KInv, KTypeOK, TaskInv
<1> QED BY <1>1, <1>2, <1>3, <1>4 DEF KInv

(* A shell that is created becomes the current one.                        *)
LEMMA ShellNewMatches ==
  ASSUME KInv, TaskInv', NEW p \in Procs, NEW t \in Tasks, shell_new(p, t)
  PROVE  KInv'
<1>0. /\ booted < NumShells /\ booted \in 0 .. NumShells /\ NumShells \in Nat
      /\ process_load_switch(p, t)
      /\ t \notin alive /\ alive' = alive \cup {t} /\ UNCHANGED intact
      /\ shell' = [shell EXCEPT ![p] = booted] /\ shells' = [shells EXCEPT ![booted] = p]
      /\ current_shell' = booted /\ booted' = booted + 1
      /\ shell \in [Procs -> ShellIds \cup {NULL}] /\ shells \in [ShellIds -> Procs \cup {NULL}]
  BY KernelAssumption DEF KInv, KTypeOK, shell_new, BootTask
<1>1. booted \in ShellIds /\ booted' \in 0 .. NumShells
  BY <1>0 DEF ShellIds
<1>2. /\ TableMatchesTasks' /\ Running' \subseteq loaded'
      /\ processes' \in [Slots -> Procs \cup {NULL}] /\ current_process' \in Procs
      /\ process' \in [Tasks -> Procs \cup {NULL}] /\ task' \in [Procs -> Pointers]
      /\ id' \in [Procs -> Slots \cup {NULL}] /\ loaded' \subseteq Procs
  BY <1>0, LoadMatches
<1>3. /\ shell' \in [Procs -> ShellIds \cup {NULL}]
      /\ shells' \in [ShellIds -> Procs \cup {NULL}] /\ current_shell' \in ShellIds
  BY <1>0, <1>1
<1>4. KTypeOK'
  <2>1. TypeOK'
    BY DEF TaskInv
  <2> QED BY <1>1, <1>2, <1>3, <2>1 DEF KTypeOK
<1> QED BY <1>2, <1>3, <1>4 DEF KInv

(* A program that is loaded while another runs.                            *)
LEMMA LoadKeeps ==
  ASSUME KInv, TaskInv', NEW p \in Procs, NEW t \in Tasks, t \notin alive,
         alive' = alive \cup {t}, process_load_switch(p, t), UNCHANGED <<intact, shellVars>>
  PROVE  KInv'
<1>1. UNCHANGED <<shell, booted, shells, current_shell>>
  BY DEF shellVars
<1>2. /\ TableMatchesTasks' /\ Running' \subseteq loaded'
      /\ processes' \in [Slots -> Procs \cup {NULL}] /\ current_process' \in Procs
      /\ process' \in [Tasks -> Procs \cup {NULL}] /\ task' \in [Procs -> Pointers]
      /\ id' \in [Procs -> Slots \cup {NULL}] /\ loaded' \subseteq Procs
  BY LoadMatches
<1>3. KTypeOK'
  BY <1>1, <1>2 DEF KTypeOK, KInv, TaskInv
<1> QED BY <1>1, <1>2, <1>3 DEF KInv

(* The shells are numbered from 0, and next_shell is one of them.          *)
LEMMA NextShellType ==
  ASSUME NEW s
  PROVE  next_shell(s) \in ShellIds /\ 0 \in ShellIds
<1>1. 0 \in ShellIds
  BY KernelAssumption DEF ShellIds
<1> QED BY <1>1 DEF next_shell

(* A command or an interrupt that saves the registers of the caller and    *)
(* leaves the tasks alone keeps the invariant of the tasks.                *)
LEMMA SaveOnlyInv ==
  ASSUME TaskInv, mode = "user", mode' \in {"user", "panic", "crash"},
         registers' = task_save_state, UNCHANGED <<list, alive, cpu, at, c, intact>>
  PROVE  TaskInv'
<1>1. TypeOK /\ c \in 0 .. Delay
  BY DEF TaskInv, TypeOK
<1>2. CASE intact
  <2>1. Ordered'
    BY <1>1, <1>2, SaveOnlyStep DEF TaskInv
  <2> QED BY <2>1 DEF TaskInv, Ordered
<1>3. CASE ~intact
  <2>1. task_save_state \in [Tasks -> Context]
    <3>1. [gp |-> cpu.gp, flags |-> cpu.flags] \in Context
      BY <1>1 DEF TypeOK, Context
    <3> QED BY <1>1, <3>1 DEF TypeOK, task_save_state
  <2>2. TypeOK'
    BY <1>1, <2>1 DEF TypeOK
  <2> QED BY <1>3, <2>2 DEF TaskInv
<1> QED BY <1>2, <1>3

(* Every step keeps tasks, table and shells in step.                       *)
LEMMA KernelNext ==
  ASSUME KInv, [KNext]_kvars
  PROVE  KInv'
<1>0. TaskInv /\ KTypeOK
  BY DEF KInv
<1>1. ASSUME NEW p \in Procs, NEW t \in Tasks, shell_new(p, t) PROVE KInv'
  <2>1. TaskInv'
    BY <1>0, <1>1, TaskNext DEF shell_new, Next
  <2> QED BY <1>1, <2>1, ShellNewMatches
<1>2. ASSUME NEW p \in Procs, NEW t \in Tasks, LoadStart(p, t) PROVE KInv'
  <2>1. TaskInv'
    BY <1>0, <1>2, TaskNext DEF LoadStart, Next
  <2>2. t \notin alive /\ alive' = alive \cup {t} /\ UNCHANGED intact
    BY <1>2 DEF LoadStart, process_load_start
  <2> QED BY <1>2, <2>1, <2>2, LoadKeeps DEF LoadStart
<1>3. ASSUME NEW p \in Procs, NEW t \in Tasks, LoadOnly(p, t) PROVE KInv'
  <2>1. TaskInv'
    BY <1>0, <1>3, TaskNext DEF LoadOnly, Next
  <2>2. t \notin alive /\ alive' = alive \cup {t} /\ UNCHANGED intact
    BY <1>3 DEF LoadOnly, process_load_only
  <2> QED BY <1>3, <2>1, <2>2, LoadKeeps DEF LoadOnly
<1>4. ASSUME NEW p \in Procs, NEW t \in Tasks, LoadFails(p, t) PROVE KInv'
  <2>1. TaskInv'
    BY <1>0, <1>4, TaskNext DEF LoadFails, Next
  <2> QED BY <1>4, <2>1, FailMatches
<1>5. ASSUME NEW p \in Procs, LoadCrashes(p) PROVE KInv'
  BY <1>0, <1>5, SaveOnlyInv, FrameMatches DEF LoadCrashes
<1>6. CASE isr80h_handle_command
  BY <1>0, <1>6, SaveOnlyInv, FrameMatches DEF isr80h_handle_command
<1>7. CASE UnknownCommand
  BY <1>0, <1>7, SaveOnlyInv, FrameMatches DEF UnknownCommand
<1>8. CASE PrintCommand
  BY <1>0, <1>8, SaveOnlyInv, FrameMatches DEF PrintCommand
<1>9. CASE shell_new_fails
  <2>1. /\ UNCHANGED vars /\ booted < NumShells /\ booted' = booted + 1
        /\ UNCHANGED <<processes, current_process, process, task, id, loaded>>
        /\ UNCHANGED <<shell, shells, current_shell>>
    BY <1>9 DEF shell_new_fails, procVars
  <2>2. booted' \in 0 .. NumShells
    BY <1>0, <2>1, KernelAssumption DEF KTypeOK
  <2>3. TaskInv' /\ TypeOK'
    BY <1>0, <2>1 DEF vars, TaskInv, Ordered, TypeOK, ContextIntact
  <2>4. KTypeOK'
    BY <1>0, <2>1, <2>2, <2>3 DEF KTypeOK
  <2>5. Running' = Running
    BY <2>1 DEF Running
  <2>6. TableMatchesTasks'
    BY <2>1, <2>5 DEF KInv, TableMatchesTasks, Matching, vars
  <2> QED BY <2>1, <2>3, <2>4, <2>5, <2>6 DEF KInv
<1>10. CASE RunFirst
  <2>1. TaskInv'
    BY <1>0, <1>10, TaskNext DEF RunFirst, Next
  <2> QED BY <1>10, <2>1, FrameMatches DEF RunFirst, task_run_first_ever_task
<1>11. CASE Clock
  <2>1. TaskInv'
    BY <1>0, <1>11, TaskNext DEF Clock, Next
  <2> QED BY <1>11, <2>1, FrameMatches DEF Clock, idt_clock
<1>12. CASE Exit
  <2>1. TaskInv'
    <3>1. exit \/ exit_panics
      BY <1>12 DEF Exit
    <3> QED BY <1>0, <3>1, TaskNext DEF Next
  <2>2. /\ Running' \subseteq loaded'
        /\ processes' \in [Slots -> Procs \cup {NULL}]
        /\ current_process' \in Procs \cup {NULL}
        /\ UNCHANGED <<process, task, id, loaded, shellVars>>
    BY <1>12, ExitTypes
  <2>3. UNCHANGED <<process, task, id, loaded, shell, booted, shells, current_shell>>
    BY <2>2 DEF shellVars
  <2>4. KTypeOK'
    BY <1>0, <2>1, <2>2, <2>3 DEF KTypeOK, TaskInv
  <2>5. TableMatchesTasks'
    <3>1. intact' => intact
      BY <1>12 DEF Exit, exit, exit_panics, process_terminate
    <3> QED BY <1>12, <3>1, ExitMatches DEF TableMatchesTasks
  <2> QED BY <2>1, <2>2, <2>3, <2>4, <2>5 DEF KInv
<1>13. CASE SwitchKey
  <2>1. /\ mode = "user" /\ mode' = "user" /\ registers' = task_save_state
        /\ UNCHANGED <<list, alive, cpu, at, c, intact>>
        /\ UNCHANGED <<processes, process, task, id, loaded, shell, booted, shells>>
        /\ shell_switch(next_shell(current_shell))
    BY <1>13 DEF SwitchKey, shell_switch_to_next
  <2>2. TaskInv'
    BY <1>0, <2>1, SaveOnlyInv
  <2>3. next_shell(current_shell) \in ShellIds
    BY NextShellType
  <2>4. /\ current_process' \in Procs \cup {NULL} /\ current_shell' \in ShellIds \cup {NULL}
        /\ current_shell \in ShellIds => current_shell' \in ShellIds
    BY <1>0, <2>1, <2>3 DEF shell_switch, KTypeOK
  <2>5. Running' = Running
    BY <2>1 DEF Running
  <2>6. TableMatchesTasks'
    BY <2>1, <2>5 DEF KInv, TableMatchesTasks, Matching
  <2>7. KTypeOK'
    BY <1>0, <2>1, <2>2, <2>4 DEF KTypeOK, TaskInv
  <2> QED BY <2>1, <2>2, <2>4, <2>5, <2>6, <2>7 DEF KInv
<1>14. CASE UNCHANGED kvars
  <2>1. TaskInv' /\ alive' = alive /\ intact' = intact
    BY <1>0, <1>14 DEF kvars, vars, TaskInv, Ordered, TypeOK, ContextIntact
  <2> QED BY <1>14, <2>1, FrameMatches DEF kvars
<1>15. CASE KStopped
  BY <1>14, <1>15 DEF KStopped, Stopped, kvars
<1> QED BY <1>1, <1>2, <1>3, <1>4, <1>5, <1>6, <1>7, <1>8, <1>9, <1>10, <1>11, <1>12,
           <1>13, <1>14, <1>15 DEF KNext

(* Tasks, table and shells stay in step until a task exits out of order,   *)
(* and keep their types for ever.                                          *)
THEOREM KernelInvariant == KSpec => []KInv
<1>1. KInit => KInv
  BY KernelInit
<1>2. KInv /\ [KNext]_kvars => KInv'
  BY KernelNext
<1> QED BY <1>1, <1>2, PTL DEF KSpec

(* The state of processes and shells stays in its types.                   *)
THEOREM KernelTypeCorrect == KSpec => []KTypeOK
<1>1. KInv => KTypeOK
  BY DEF KInv
<1> QED BY <1>1, KernelInvariant, PTL

(* The table of processes and the list of tasks describe the same system,  *)
(* for any number of slots, tasks and loads, until a task exits out of     *)
(* order.                                                                  *)
THEOREM KernelTableMatches == KSpec => []TableMatchesTasks
<1>1. KInv => TableMatchesTasks
  BY DEF KInv
<1> QED BY <1>1, KernelInvariant, PTL

(* A process that ends while the list is intact never stays in the         *)
(* foreground.                                                             *)
THEOREM KernelExitForeground == KSpec => ExitLeavesForeground
<1>1. KInv /\ Exit /\ intact /\ current_process \in Running /\ mode' = "user"
        => current_process' \in Running'
  BY ExitMatches
<1>2. KInv /\ [KNext]_kvars =>
        [Exit /\ intact /\ current_process \in Running /\ mode' = "user"
           => current_process' \in Running']_kvars
  BY <1>1
<1> QED BY <1>2, KernelInvariant, PTL DEF KSpec, ExitLeavesForeground

(* With processes and shells on top, the list stays sound and contexts     *)
(* intact, until a task exits out of order.                                *)
THEOREM KernelTasksSound == KSpec => [](ListSound /\ ContextIntact)
<1>1. KInv => ListSound /\ ContextIntact
  BY SoundLinks DEF KInv, TaskInv, Ordered, ListSound, ContextIntact
<1> QED BY <1>1, KernelInvariant, PTL

-----------------------------------------------------------------------------
(* The round of the shells.                                                *)

(* v is the shells shown one after the other as the key is pressed.        *)
Shown(v) ==
  v = [n \in 0 .. NumShells |->
         IF n = 0 THEN current_shell
         ELSE LET s == next_shell(v[n - 1])
              IN  IF shells[s] = NULL THEN v[n - 1] ELSE s]

(* There is such a sequence, and while shell 0 runs each shell is the      *)
(* next_shell of the one before.                                           *)
LEMMA ShownExists ==
  ASSUME KInv, shells[0] # NULL
  PROVE  LET v == CHOOSE v : Shown(v)
         IN  /\ Shown(v) /\ v[0] = current_shell /\ v[0] \in ShellIds
             /\ \A n \in 1 .. NumShells : v[n] = next_shell(v[n - 1])
<1> DEFINE step == [n \in Nat |-> [s \in ShellIds |-> next_shell(s)]]
           v == CHOOSE v : Shown(v)
<1>0. /\ NumShells \in Nat /\ 0 \in ShellIds /\ current_shell \in ShellIds
      /\ \A s : next_shell(s) \in ShellIds
  BY KernelAssumption, NextShellType DEF KInv
<1>1. \A s : shells[next_shell(s)] # NULL
  BY <1>0 DEF next_shell
<1>2. step \in [Nat -> [ShellIds -> ShellIds]]
  BY <1>0
<1>3. PICK g : Iterates(g, ShellIds, current_shell, step, NumShells)
  <2> HIDE DEF step
  <2> QED BY <1>0, <1>2, Recursion
<1>4. /\ g \in [0 .. NumShells -> ShellIds] /\ g[0] = current_shell
      /\ \A n \in 1 .. NumShells : g[n] = next_shell(g[n - 1])
  <2>1. /\ g \in [0 .. NumShells -> ShellIds] /\ g[0] = current_shell
        /\ \A n \in 1 .. NumShells : g[n] = step[n][g[n - 1]]
    BY <1>3 DEF Iterates
  <2>2. ASSUME NEW n \in 1 .. NumShells PROVE n \in Nat /\ g[n - 1] \in ShellIds
    BY <1>0, <2>1
  <2> QED BY <2>1, <2>2
<1>5. Shown(g)
  <2> SUFFICES ASSUME NEW n \in 0 .. NumShells
               PROVE  g[n] = IF n = 0 THEN current_shell
                             ELSE IF shells[next_shell(g[n - 1])] = NULL THEN g[n - 1]
                                  ELSE next_shell(g[n - 1])
    BY <1>4 DEF Shown
  <2>1. n # 0 => n \in 1 .. NumShells
    BY <1>0
  <2> QED BY <1>1, <1>4, <2>1
<1>6. Shown(v)
  BY <1>5
<1> HIDE DEF v
<1>7. v[0] = current_shell
  BY <1>0, <1>6 DEF Shown
<1>8. ASSUME NEW n \in 1 .. NumShells PROVE v[n] = next_shell(v[n - 1])
  <2>1. n \in 0 .. NumShells /\ n # 0
    BY <1>0
  <2> QED BY <1>1, <1>6, <2>1 DEF Shown
<1> QED BY <1>0, <1>6, <1>7, <1>8 DEF v

(* From shell a the key goes on to b if every shell in between runs.       *)
LEMMA ShownOn ==
  ASSUME NEW v, \A n \in 1 .. NumShells : v[n] = next_shell(v[n - 1]),
         NEW m \in Nat, NEW a \in ShellIds, v[m] = a, NEW b \in ShellIds, a <= b,
         \A i \in (a + 1) .. b : shells[i] # NULL, m + (b - a) <= NumShells
  PROVE  v[m + (b - a)] = b
<1>0. a \in Nat /\ b \in Nat /\ NumShells \in Nat /\ b < NumShells
  BY KernelAssumption DEF ShellIds
<1> DEFINE T == {k \in Nat : k <= b - a /\ v[m + k] # a + k}
<1>1. T = {}
  <2> SUFFICES ASSUME T # {} PROVE FALSE
    OBVIOUS
  <2>1. T \subseteq Nat
    OBVIOUS
  <2>2. PICK k \in T : \A y \in T : k <= y
    <3> HIDE DEF T
    <3> QED BY <2>1, NatMinimum
  <2>3. k # 0
    <3>1. m + 0 = m /\ a + 0 = a
      BY <1>0
    <3> QED BY <2>2, <3>1
  <2>4. k - 1 \in Nat /\ k - 1 <= b - a /\ ~(k <= k - 1)
    BY <1>0, <2>3
  <2>5. v[m + (k - 1)] = a + (k - 1)
    BY <2>2, <2>4
  <2>6. m + k \in 1 .. NumShells /\ (m + k) - 1 = m + (k - 1)
    BY <1>0, <2>3
  <2>7. v[m + k] = next_shell(a + (k - 1))
    BY <2>5, <2>6
  <2>8. /\ (a + (k - 1)) + 1 = a + k /\ a + k \in (a + 1) .. b /\ a + k \in ShellIds
    BY <1>0, <2>3 DEF ShellIds
  <2>9. next_shell(a + (k - 1)) = a + k
    BY <2>8 DEF next_shell
  <2> QED BY <2>7, <2>9
<1>2. b - a \in Nat /\ a + (b - a) = b
  BY <1>0
<1>3. b - a \notin T
  BY <1>1
<1> QED BY <1>2, <1>3

(* The key leads from the last shell to shell 0, and from there to every   *)
(* other.                                                                  *)
LEMMA ShellsReached ==
  ASSUME KInv
  PROVE  EveryShellReached
<1> DEFINE v == CHOOSE v : Shown(v)
<1>s. SUFFICES ASSUME \A i \in ShellIds : shells[i] # NULL, NEW s \in ShellIds
               PROVE  \E n \in 0 .. NumShells : v[n] = s
  BY DEF EveryShellReached, ShownByKey, Shown
<1>0. /\ s \in ShellIds /\ \A i \in 0 .. s : shells[i] # NULL
      /\ NumShells \in Nat /\ s \in Nat /\ s < NumShells /\ s + 1 <= NumShells
  BY <1>s, KernelAssumption DEF ShellIds
<1>1. shells[0] # NULL
  BY <1>0
<1>2. /\ v[0] = current_shell /\ v[0] \in ShellIds
      /\ \A n \in 1 .. NumShells : v[n] = next_shell(v[n - 1])
  BY <1>1, ShownExists, Zenon
<1> HIDE DEF v
<1> DEFINE a == current_shell
<1>3. a \in ShellIds /\ a \in Nat /\ a < NumShells /\ v[0] = a
  BY <1>0, <1>2 DEF ShellIds
<1> HIDE DEF a
<1>4. CASE a <= s
  <2>1. /\ \A i \in (a + 1) .. s : shells[i] # NULL /\ 0 + (s - a) <= NumShells
        /\ 0 + (s - a) \in 0 .. NumShells /\ 0 \in Nat
    BY <1>0, <1>3, <1>4
  <2>2. v[0 + (s - a)] = s
    BY <1>0, <1>2, <1>3, <1>4, <2>1, ShownOn
  <2> QED BY <2>1, <2>2
<1>5. CASE s < a
  <2> DEFINE T == {k \in Nat : k > a /\ (k = NumShells \/ (k < NumShells /\ shells[k] = NULL))}
  <2>1. T \subseteq Nat /\ NumShells \in T
    BY <1>0, <1>3
  <2>2. PICK e \in T : \A y \in T : e <= y
    <3> HIDE DEF T
    <3> QED BY <2>1, NatMinimum
  <2>3. /\ e \in Nat /\ e > a /\ e <= NumShells
        /\ e = NumShells \/ (e < NumShells /\ shells[e] = NULL)
    BY <1>0
  <2>4. ASSUME NEW i \in (a + 1) .. (e - 1) PROVE shells[i] # NULL
    <3>1. i \in Nat /\ i > a /\ i < NumShells /\ ~(e <= i)
      BY <1>3, <1>0, <2>3
    <3>2. i \notin T
      BY <2>2, <3>1
    <3> QED BY <3>1, <3>2
  <2> HIDE DEF T
  <2> DEFINE b == e - 1
             m == e - a
  <2>5. /\ b \in ShellIds /\ a <= b /\ 0 + (b - a) <= NumShells /\ 0 \in Nat
        /\ 0 + (b - a) = m - 1 /\ m \in 1 .. NumShells /\ b + 1 = e
    BY <1>0, <1>3, <2>3 DEF ShellIds
  <2>5a. \A i \in (a + 1) .. b : shells[i] # NULL
    BY <2>4
  <2>6. v[m - 1] = b
    <3> HIDE DEF b, m
    <3>1. v[0 + (b - a)] = b
      BY <1>2, <1>3, <2>5, <2>5a, ShownOn
    <3> QED BY <2>5, <3>1
  <2>7. next_shell(b) = 0
    <3>1. e \in ShellIds => shells[e] = NULL
      BY <1>0, <2>3 DEF ShellIds
    <3> QED BY <2>5, <3>1 DEF next_shell
  <2>8. v[m] = 0
    BY <1>2, <2>5, <2>6, <2>7
  <2>9. /\ m \in Nat /\ 0 \in ShellIds /\ 0 <= s /\ m + (s - 0) <= NumShells
        /\ m + (s - 0) \in 0 .. NumShells /\ \A i \in (0 + 1) .. s : shells[i] # NULL
    BY <1>0, <1>3, <1>5, <2>3 DEF ShellIds
  <2>10. v[m + (s - 0)] = s
    <3> HIDE DEF m
    <3> QED BY <1>0, <1>2, <2>8, <2>9, ShownOn
  <2> QED BY <2>9, <2>10
<1>6. a <= s \/ s < a
  BY <1>0, <1>3
<1> QED BY <1>4, <1>5, <1>6

(* When all the shells were started, the key shows every one of them from  *)
(* any shell on the screen, for any number of shells, whether tasks exit   *)
(* in order or not.                                                        *)
THEOREM KernelShellsReached == KSpec => []EveryShellReached
<1>1. KInv => EveryShellReached
  BY ShellsReached
<1> QED BY <1>1, KernelInvariant, PTL
=============================================================================
