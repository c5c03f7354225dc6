--------------------------- MODULE KeyboardProofs ---------------------------
(***************************************************************************)
(* The keyboard buffer, alone and filled by the driver and emptied by the  *)
(* shell, for every size of the buffer and every width of its counters, as *)
(* long as no more keys than cells are typed ahead.                        *)
(***************************************************************************)
EXTENDS CommandLine, Foundations, FiniteSetTheorems, SequenceTheorems

(* The inductive invariant.                                                *)
RingInv == TypeOK /\ EndsAgree /\ Pending <= MaxPending

-----------------------------------------------------------------------------
(* The constants, as the other proofs use them.                            *)
LEMMA RingConstants ==
  /\ Size \in Nat \ {0} /\ Width \in Nat \ {0} /\ Width % Size = 0
  /\ NUL \notin Keys /\ MaxPending \in Nat /\ MaxPending < Width
BY KeyboardAssumption

(* The counters and their distance are numbers below Width, and the cell   *)
(* at the tail is the one Pending cells after the head.                    *)
LEMMA Distance ==
  ASSUME TypeOK
  PROVE  /\ head \in Int /\ tail \in Int /\ Pending \in 0 .. (Width - 1)
         /\ tail % Size = (head + Pending) % Size
<1> USE RingConstants
<1>1. head \in 0 .. (Width - 1) /\ tail \in 0 .. (Width - 1)
  BY DEF TypeOK
<1>2. head \in Int /\ tail \in Int /\ tail - head \in Int
  BY <1>1
<1>3. Pending \in 0 .. (Width - 1)
  BY <1>2, DivMod DEF Pending
<1>4. (Pending + head) % Size = (tail - head + head) % Size
  BY <1>2, ModMultiple, ZenonT(30) DEF Pending
<1>5. tail - head + head = tail /\ Pending + head = head + Pending
  BY <1>2, <1>3
<1> QED BY <1>2, <1>3, <1>4, <1>5

(* The cells from the head on: a remainder of Size is a cell, and cells at *)
(* different distances are different.                                      *)
LEMMA CellAt ==
  ASSUME NEW h \in Int
  PROVE  /\ \A i \in Cells : (h + i) % Size \in Cells
         /\ \A i, j \in Cells : (h + i) % Size = (h + j) % Size => i = j
<1> USE RingConstants
<1>1. ASSUME NEW i \in Cells PROVE (h + i) % Size \in Cells
  <2>1. h + i \in Int
    BY DEF Cells
  <2> QED BY <2>1, DivMod DEF Cells
<1>2. ASSUME NEW i \in Cells, NEW j \in Cells, (h + i) % Size = (h + j) % Size
      PROVE  i = j
  <2>1. i \in Int /\ j \in Int /\ 0 <= i /\ i < Size /\ 0 <= j /\ j < Size
    BY DEF Cells
  <2>2. h + i \in Int /\ h + j \in Int /\ -Size < (h + i) - (h + j) /\ (h + i) - (h + j) < Size
    BY <2>1
  <2>3. h + i = h + j
    BY <1>2, <2>2, ModInjective
  <2> QED BY <2>1, <2>3
<1> QED BY <1>1, <1>2

(* The head moves on by one cell.                                          *)
LEMMA NextCell ==
  ASSUME NEW h \in Int, NEW i \in Int
  PROVE  (((h + 1) % Width) + i) % Size = (h + (i + 1)) % Size
<1> DEFINE g == h + 1
<1>1. g \in Int /\ g + i = h + (i + 1)
  OBVIOUS
<1> HIDE DEF g
<1>2. ((g % Width) + i) % Size = (g + i) % Size
  BY <1>1, RingConstants, ModMultiple, ZenonT(30)
<1> QED BY <1>1, <1>2 DEF g

(* A push makes the distance one more.                                     *)
LEMMA PushDistance ==
  ASSUME TypeOK, Pending < MaxPending
  PROVE  (((tail + 1) % Width) - head) % Width = Pending + 1
<1> USE RingConstants
<1>1. head \in Int /\ tail \in Int /\ Pending \in 0 .. (Width - 1)
  BY Distance
<1>0. tail + 1 \in Int /\ -head \in Int /\ tail - head \in Int
  BY <1>1
<1>2. (((tail + 1) % Width) + (-head)) % Width = (tail + 1 + (-head)) % Width
  BY <1>0, ModSum
<1>3. (((tail - head) % Width) + 1) % Width = (tail - head + 1) % Width
  BY <1>0, ModSum
<1>4. tail - head + 1 = tail + 1 + (-head)
  BY <1>1
<1>5. (tail + 1) % Width \in Int
  BY <1>1, DivMod
<1>6. ((tail + 1) % Width) + (-head) = ((tail + 1) % Width) - head
  BY <1>1, <1>5
<1>7. (Pending + 1) % Width = Pending + 1
  BY <1>1, ModSmall
<1> QED BY <1>2, <1>3, <1>4, <1>6, <1>7 DEF Pending

(* A pop makes the distance one less.                                      *)
LEMMA PopDistance ==
  ASSUME TypeOK, Pending > 0
  PROVE  (tail - ((head + 1) % Width)) % Width = Pending - 1
<1> USE RingConstants
<1> DEFINE h == (head + 1) % Width
           k == (head + 1) \div Width
<1>1. head \in Int /\ tail \in Int /\ Pending \in 0 .. (Width - 1) /\ head + 1 \in Int
  BY Distance
<1>2. h \in Int /\ k \in Int /\ head + 1 = k * Width + h
  BY <1>1, DivMod
<1> HIDE DEF h, k
<1>3. tail - h = (tail - head - 1) + k * Width /\ tail - head - 1 \in Int
  BY <1>1, <1>2
<1>4. ((tail - head - 1) + k * Width) % Width = (tail - head - 1) % Width
  BY <1>2, <1>3, ModPeriodic
<1>5. (((tail - head) % Width) + (-1)) % Width = (tail - head + (-1)) % Width
  <2>1. tail - head \in Int /\ -1 \in Int
    BY <1>1
  <2> QED BY <2>1, ModSum
<1>6. tail - head + (-1) = tail - head - 1 /\ Pending + (-1) = Pending - 1
  BY <1>1
<1>7. (Pending - 1) % Width = Pending - 1
  BY <1>1, ModSmall
<1> QED BY <1>3, <1>4, <1>5, <1>6, <1>7 DEF Pending, h

-----------------------------------------------------------------------------
(* keyboard_push stores the key behind the ones in the buffer.             *)
LEMMA PushStep ==
  ASSUME MaxPending <= Size, RingInv, NEW c \in Keys, keyboard_push(c)
  PROVE  /\ RingInv' /\ Pending' = Pending + 1 /\ head' = head /\ got' = got
         /\ buffer'[(head + Pending) % Size] = c
         /\ \A i \in Cells : i # Pending => buffer'[(head + i) % Size] = buffer[(head + i) % Size]
<1> USE RingConstants
<1>0. TypeOK /\ EndsAgree /\ buffer \in [Cells -> Keys \cup {NUL}]
  BY DEF RingInv, TypeOK
<1>1. /\ Pending < MaxPending /\ head' = head /\ got' = got
      /\ tail' = (tail + 1) % Width
      /\ buffer' = [buffer EXCEPT ![(head + Pending) % Size] = c]
  BY <1>0, Distance DEF keyboard_push, keyboard_get_tail_index
<1>2. /\ head \in Int /\ tail \in Int /\ Pending \in 0 .. (Width - 1)
  BY <1>0, Distance
<1>3. Pending \in Cells
  BY <1>1, <1>2 DEF Cells
<1>4. Pending' = Pending + 1
  BY <1>0, <1>1, PushDistance DEF Pending
<1>5. /\ \A i \in Cells : (head + i) % Size \in Cells
      /\ \A i \in Cells : (head + i) % Size = (head + Pending) % Size => i = Pending
  BY <1>2, <1>3, CellAt
<1>6. /\ buffer'[(head + Pending) % Size] = c
      /\ \A i \in Cells : i # Pending => buffer'[(head + i) % Size] = buffer[(head + i) % Size]
  BY <1>0, <1>1, <1>3, <1>5
<1>7. TypeOK'
  <2>1. tail' \in 0 .. (Width - 1)
    BY <1>1, <1>2, DivMod
  <2>2. buffer' \in [Cells -> Keys \cup {NUL}]
    BY <1>0, <1>1
  <2> QED BY <1>0, <1>1, <2>1, <2>2 DEF TypeOK, Cells
<1>8. EndsAgree'
  <2> SUFFICES ASSUME NEW i \in Cells
               PROVE  buffer'[(head + i) % Size] # NUL <=> i < Pending + 1
    BY <1>1, <1>4 DEF EndsAgree, Cells
  <2>1. CASE i = Pending
    BY <1>2, <1>6, <2>1
  <2>2. CASE i # Pending
    <3>1. buffer[(head + i) % Size] # NUL <=> i < Pending
      BY <1>0 DEF EndsAgree
    <3>2. buffer'[(head + i) % Size] = buffer[(head + i) % Size]
      BY <1>6, <2>2
    <3>3. i \in Int /\ Pending \in Int
      BY <1>2 DEF Cells
    <3> QED BY <2>2, <3>1, <3>2, <3>3
  <2> QED BY <2>1, <2>2
<1> QED BY <1>1, <1>2, <1>4, <1>6, <1>7, <1>8 DEF RingInv

(* keyboard_pop takes the oldest key, if there is one.                     *)
LEMMA PopStep ==
  ASSUME MaxPending <= Size, RingInv, keyboard_pop
  PROVE  /\ RingInv' /\ got' = buffer[head % Size]
         /\ Pending = 0 => got' = NUL /\ UNCHANGED <<buffer, head, tail>>
         /\ Pending > 0 =>
              /\ got' \in Keys /\ Pending' = Pending - 1
              /\ head' = (head + 1) % Width
              /\ \A i \in 1 .. (Size - 1) :
                   buffer'[(head + i) % Size] = buffer[(head + i) % Size]
<1> USE RingConstants
<1>0. TypeOK /\ EndsAgree /\ buffer \in [Cells -> Keys \cup {NUL}]
  BY DEF RingInv, TypeOK
<1>1. head \in Int /\ tail \in Int /\ Pending \in 0 .. (Width - 1) /\ Pending <= MaxPending
  BY <1>0, Distance DEF RingInv
<1>2. 0 \in Cells /\ head + 0 = head /\ head % Size \in Cells
  BY <1>1, DivMod DEF Cells
<1>3. buffer[head % Size] # NUL <=> Pending > 0
  BY <1>0, <1>1, <1>2 DEF EndsAgree
<1>4. got' = buffer[head % Size] /\ tail' = tail
  BY DEF keyboard_pop
<1>5. CASE Pending = 0
  <2>1. UNCHANGED <<buffer, head, tail>> /\ got' = NUL
    BY <1>3, <1>5 DEF keyboard_pop
  <2>2. TypeOK'
    BY <1>0, <2>1 DEF TypeOK, Cells
  <2>3. EndsAgree' /\ Pending' = Pending
    BY <1>0, <2>1 DEF EndsAgree, Pending, Cells
  <2> QED BY <1>1, <1>4, <1>5, <2>1, <2>2, <2>3 DEF RingInv
<1>6. CASE Pending > 0
  <2>1. /\ buffer' = [buffer EXCEPT ![head % Size] = NUL]
        /\ head' = (head + 1) % Width
    BY <1>3, <1>6 DEF keyboard_pop
  <2>2. Pending' = Pending - 1
    BY <1>0, <1>4, <1>6, <2>1, PopDistance DEF Pending
  <2>3. ASSUME NEW i \in 1 .. (Size - 1)
        PROVE  buffer'[(head + i) % Size] = buffer[(head + i) % Size]
    <3>1. i \in Cells /\ i # 0
      BY DEF Cells
    <3>2. (head + i) % Size \in Cells /\ (head + i) % Size # (head + 0) % Size
      BY <1>1, <1>2, <3>1, CellAt
    <3> QED BY <1>0, <1>2, <2>1, <3>2
  <2>4. TypeOK'
    <3>1. head' \in 0 .. (Width - 1)
      BY <1>1, <2>1, DivMod
    <3>2. buffer' \in [Cells -> Keys \cup {NUL}] /\ got' \in Keys \cup {NUL}
      BY <1>0, <1>2, <1>4, <2>1
    <3> QED BY <1>0, <1>4, <3>1, <3>2 DEF TypeOK, Cells
  <2>5. EndsAgree'
    <3> SUFFICES ASSUME NEW i \in Cells
                 PROVE  buffer'[(head' + i) % Size] # NUL <=> i < Pending - 1
      BY <2>2 DEF EndsAgree, Cells
    <3>0. i \in Int /\ 0 <= i /\ i < Size
      BY DEF Cells
    <3>1. (head' + i) % Size = (head + (i + 1)) % Size
      BY <1>1, <2>1, <3>0, NextCell
    <3>2. CASE i < Size - 1
      <4>1. i + 1 \in 1 .. (Size - 1) /\ i + 1 \in Cells
        BY <3>0, <3>2 DEF Cells
      <4>2. buffer[(head + (i + 1)) % Size] # NUL <=> i + 1 < Pending
        BY <1>0, <4>1 DEF EndsAgree
      <4> QED BY <1>1, <2>3, <3>0, <3>1, <4>1, <4>2
    <3>3. CASE i = Size - 1
      <4>1. (head + Size) % Size = head % Size
        BY <1>1, ModTurn
      <4>2. (head + (i + 1)) % Size = head % Size
        BY <3>3, <4>1
      <4>3. buffer'[head % Size] = NUL
        BY <1>0, <1>2, <2>1
      <4> QED BY <1>1, <3>0, <3>1, <3>3, <4>2, <4>3
    <3> QED BY <3>0, <3>2, <3>3
  <2>6. got' \in Keys
    BY <1>0, <1>2, <1>3, <1>4, <1>6
  <2> QED BY <1>1, <1>4, <1>6, <2>1, <2>2, <2>3, <2>4, <2>5, <2>6 DEF RingInv
<1> QED BY <1>1, <1>5, <1>6

(* process_init leaves an empty buffer.                                    *)
LEMMA InitRing == Init => RingInv
<1> SUFFICES ASSUME Init PROVE RingInv
  OBVIOUS
<1> USE RingConstants
<1>1. TypeOK
  BY DEF Init, TypeOK
<1>2. tail - head = 0
  BY DEF Init
<1>3. Pending = 0
  BY <1>2, ModSmall DEF Pending
<1>4. EndsAgree
  <2> SUFFICES ASSUME NEW i \in Cells PROVE ~(buffer[(head + i) % Size] # NUL) /\ ~(i < 0)
    BY <1>3 DEF EndsAgree
  <2>1. i \in Int /\ 0 <= i /\ head \in Int
    BY DEF Cells, Init
  <2>2. (head + i) % Size \in Cells
    BY <2>1, CellAt
  <2> QED BY <2>1, <2>2 DEF Init
<1> QED BY <1>1, <1>3, <1>4 DEF RingInv

(* Nothing else disturbs the buffer.                                       *)
LEMMA StutterRing == RingInv /\ UNCHANGED vars => RingInv'
BY DEF RingInv, vars, TypeOK, EndsAgree, Pending, Cells

(* Every step of the buffer keeps the invariant.                           *)
LEMMA NextRing ==
  ASSUME MaxPending <= Size, RingInv, [Next]_vars
  PROVE  RingInv'
BY PushStep, PopStep, StutterRing DEF Next

(* The occupied cells are the ones between the two counters, for every     *)
(* buffer of the code on its own, whatever is typed and polled.            *)
THEOREM KeyboardEndsAgree ==
  ASSUME MaxPending <= Size
  PROVE  Spec => [](TypeOK /\ EndsAgree)
<1>1. RingInv => TypeOK /\ EndsAgree
  BY DEF RingInv
<1> QED BY <1>1, InitRing, NextRing, PTL DEF Spec

-----------------------------------------------------------------------------
(* The keys in a buffer b whose p occupied cells start at h, oldest first. *)
LEMMA QueueElements ==
  ASSUME NEW h \in Int, NEW p \in Nat, p <= Size, NEW b \in [Cells -> Keys \cup {NUL}],
         \A i \in Cells : b[(h + i) % Size] # NUL <=> i < p
  PROVE  LET q == [i \in 1 .. p |-> b[(h + i - 1) % Size]]
         IN  /\ q \in Seq(Keys) /\ Len(q) = p
             /\ \A i \in 1 .. p : q[i] = b[(h + (i - 1)) % Size]
<1> DEFINE q == [i \in 1 .. p |-> b[(h + i - 1) % Size]]
<1> USE RingConstants
<1>1. ASSUME NEW i \in 1 .. p
      PROVE  q[i] = b[(h + (i - 1)) % Size] /\ q[i] \in Keys
  <2>1. i - 1 \in Cells /\ i - 1 < p /\ h + i - 1 = h + (i - 1)
    BY DEF Cells
  <2>2. b[(h + (i - 1)) % Size] # NUL
    BY <2>1
  <2>3. (h + (i - 1)) % Size \in Cells
    BY <2>1, CellAt
  <2> QED BY <2>1, <2>2, <2>3
<1>2. q \in Seq(Keys) /\ Len(q) = p
  BY <1>1
<1> QED BY <1>1, <1>2

(* The invariant gives QueueElements what it needs.                        *)
LEMMA QueueArguments ==
  ASSUME MaxPending <= Size, RingInv
  PROVE  /\ head \in Int /\ Pending \in Nat /\ Pending <= Size
         /\ buffer \in [Cells -> Keys \cup {NUL}]
         /\ \A i \in Cells : buffer[(head + i) % Size] # NUL <=> i < Pending
BY Distance, RingConstants DEF RingInv, TypeOK, EndsAgree

(* keyboard_push types a key.                                              *)
LEMMA PushTypes ==
  ASSUME MaxPending <= Size, RingInv, NEW c \in Keys, keyboard_push(c)
  PROVE  Queue!Type(c)
<1> DEFINE q == [i \in 1 .. Pending |-> buffer[(head + i - 1) % Size]]
<1>1. /\ RingInv' /\ Pending' = Pending + 1 /\ head' = head /\ got' = got
      /\ buffer'[(head + Pending) % Size] = c
      /\ \A i \in Cells : i # Pending => buffer'[(head + i) % Size] = buffer[(head + i) % Size]
  BY PushStep
<1>2. /\ q \in Seq(Keys) /\ Len(q) = Pending /\ Pending \in Nat
      /\ \A i \in 1 .. Pending : q[i] = buffer[(head + (i - 1)) % Size]
  BY QueueArguments, QueueElements
<1>3. /\ q' \in Seq(Keys) /\ Len(q') = Pending + 1
      /\ \A i \in 1 .. (Pending + 1) : q'[i] = buffer'[(head + (i - 1)) % Size]
  <2>1. /\ Pending' \in Nat /\ Pending' <= Size
        /\ buffer' \in [Cells -> Keys \cup {NUL}]
        /\ \A i \in Cells : buffer'[(head + i) % Size] # NUL <=> i < Pending'
    BY <1>1, <1>2, RingConstants DEF RingInv, TypeOK, EndsAgree, Cells
  <2>2. head \in Int /\ q' = [i \in 1 .. Pending' |-> buffer'[(head + i - 1) % Size]]
    BY <1>1, QueueArguments
  <2> QED BY <1>1, <2>1, <2>2, QueueElements
<1> HIDE DEF q
<1>4. Pending < Size
  BY <1>1, <1>2, RingConstants DEF RingInv
<1>5. ASSUME NEW i \in 1 .. (Pending + 1) PROVE q'[i] = Append(q, c)[i]
  <2>1. CASE i = Pending + 1
    <3>1. i - 1 = Pending
      BY <1>2, <2>1
    <3>2. Append(q, c)[i] = c
      BY <1>2, <2>1
    <3> QED BY <1>1, <1>3, <3>1, <3>2
  <2>2. CASE i # Pending + 1
    <3>1. i \in 1 .. Pending /\ i - 1 \in Cells /\ i - 1 # Pending
      BY <1>2, <1>4, <2>2, RingConstants DEF Cells
    <3>2. Append(q, c)[i] = q[i]
      BY <1>2, <3>1
    <3> QED BY <1>1, <1>2, <1>3, <3>1, <3>2
  <2> QED BY <2>1, <2>2
<1>6. q' = Append(q, c)
  <2>1. Append(q, c) \in Seq(Keys) /\ Len(Append(q, c)) = Pending + 1
    BY <1>2
  <2>2. DOMAIN q' = 1 .. (Pending + 1) /\ DOMAIN Append(q, c) = 1 .. (Pending + 1)
    BY <1>3, <2>1
  <2> QED BY <1>3, <1>5, <2>1, <2>2, SeqEqual
<1> QED BY <1>1, <1>6 DEF Queue!Type, q

(* keyboard_pop gets the oldest key, or nothing.                           *)
LEMMA PopGets ==
  ASSUME MaxPending <= Size, RingInv, keyboard_pop
  PROVE  Queue!GetKey \/ Queue!GetNothing
<1> DEFINE q == [i \in 1 .. Pending |-> buffer[(head + i - 1) % Size]]
<1>1. /\ q \in Seq(Keys) /\ Len(q) = Pending /\ Pending \in Nat /\ head \in Int
      /\ \A i \in 1 .. Pending : q[i] = buffer[(head + (i - 1)) % Size]
  BY QueueArguments, QueueElements
<1>2. RingInv' /\ got' = buffer[head % Size]
  BY PopStep
<1>3. CASE Pending = 0
  <2>1. got' = NUL /\ UNCHANGED <<buffer, head, tail>>
    BY <1>3, PopStep
  <2>2. q' = q
    BY <2>1 DEF Pending
  <2> HIDE DEF q
  <2>3. q = << >>
    BY <1>1, <1>3
  <2> QED BY <2>1, <2>2, <2>3 DEF Queue!GetNothing, q
<1>4. CASE Pending > 0
  <2>1. /\ Pending' = Pending - 1 /\ head' = (head + 1) % Width
        /\ \A i \in 1 .. (Size - 1) : buffer'[(head + i) % Size] = buffer[(head + i) % Size]
    BY <1>4, PopStep
  <2>2. /\ q' \in Seq(Keys) /\ Len(q') = Pending - 1
        /\ \A i \in 1 .. (Pending - 1) : q'[i] = buffer'[(head' + (i - 1)) % Size]
    <3>1. head' \in 0 .. (Width - 1)
      BY <1>2 DEF RingInv, TypeOK
    <3>2. /\ head' \in Int /\ Pending' \in Nat /\ Pending' <= Size
          /\ buffer' \in [Cells -> Keys \cup {NUL}]
          /\ \A i \in Cells : buffer'[(head' + i) % Size] # NUL <=> i < Pending'
      BY <1>1, <1>2, <1>4, <2>1, <3>1, RingConstants, SMTT(20) DEF RingInv, TypeOK, EndsAgree, Cells
    <3>3. q' = [i \in 1 .. Pending' |-> buffer'[(head' + i - 1) % Size]]
      OBVIOUS
    <3> QED BY <2>1, <3>2, <3>3, QueueElements
  <2> HIDE DEF q
  <2>3. q # << >> /\ Head(q) = q[1] /\ Tail(q) \in Seq(Keys) /\ Len(Tail(q)) = Pending - 1
        /\ \A i \in 1 .. (Pending - 1) : Tail(q)[i] = q[i + 1]
    BY <1>1, <1>4
  <2>4. Head(q) = got'
    <3>1. head + (1 - 1) = head /\ 1 \in 1 .. Pending
      BY <1>1, <1>4
    <3> QED BY <1>1, <1>2, <2>3, <3>1
  <2>5. ASSUME NEW i \in 1 .. (Pending - 1) PROVE q'[i] = Tail(q)[i]
    <3>1. /\ i - 1 \in Int /\ i \in 1 .. (Size - 1) /\ i + 1 \in 1 .. Pending
          /\ (i - 1) + 1 = i /\ (i + 1) - 1 = i
      BY <1>1, RingConstants DEF RingInv
    <3>2. (head' + (i - 1)) % Size = (head + i) % Size
      BY <1>1, <2>1, <3>1, NextCell
    <3> QED BY <1>1, <2>1, <2>2, <2>3, <3>1, <3>2, ZenonT(30)
  <2>6. q' = Tail(q)
    BY <2>2, <2>3, <2>5, SeqEqual
  <2> QED BY <2>3, <2>4, <2>6 DEF Queue!GetKey, q
<1> QED BY <1>1, <1>3, <1>4

(* Steps that leave the buffer alone leave the queue alone.                *)
LEMMA StutterQueue == UNCHANGED vars => UNCHANGED Queue!vars
BY DEF vars, Queue!vars, Pending

(* An empty buffer is an empty queue.                                      *)
LEMMA InitQueue ==
  ASSUME MaxPending <= Size, Init
  PROVE  Queue!Init
<1> DEFINE q == [i \in 1 .. Pending |-> buffer[(head + i - 1) % Size]]
<1>1. Pending = 0
  <2>1. tail - head = 0
    BY DEF Init
  <2> QED BY <2>1, ModSmall, RingConstants DEF Pending
<1>2. q \in Seq(Keys) /\ Len(q) = 0
  BY <1>1, InitRing, QueueArguments, QueueElements
<1> HIDE DEF q
<1>3. q = << >>
  BY <1>2
<1> QED BY <1>3 DEF q, Init, Queue!Init

(* The safety of ImplementsKeyQueue: every key typed is returned once, in  *)
(* the order of typing.                                                    *)
THEOREM KeyboardIsQueue ==
  ASSUME MaxPending <= Size
  PROVE  Spec => Queue!Init /\ [][Queue!Next]_(Queue!vars)
<1>1. RingInv /\ [Next]_vars => [Queue!Next]_(Queue!vars)
  BY PushTypes, PopGets, StutterQueue DEF Next, Queue!Next
<1> QED BY <1>1, InitRing, InitQueue, NextRing, PTL DEF Spec

-----------------------------------------------------------------------------
(* The least number of a set.                                              *)
LEMMA FirstIsLeast ==
  ASSUME NEW S, S \subseteq Nat, S # {}
  PROVE  First(S) \in S /\ \A j \in S : First(S) <= j
<1>1. \E i \in S : \A j \in S : i <= j
  BY NatMinimum
<1> QED BY <1>1 DEF First

(* What strtok leaves in sp is in the line or just behind it, each token   *)
(* leaves it further on, and behind the line there is no token.  A token   *)
(* is made of characters of the line.                                      *)
LEMMA strtokAdvances ==
  ASSUME NEW s \in Seq(Keys), NEW at \in Nat
  PROVE  /\ strtok(s, at).token \in Seq(Keys)
         /\ strtok(s, at).sp \in 0 .. (Len(s) + 1)
         /\ strtok(s, at).token # <<>> => strtok(s, at).sp > at
         /\ at > Len(s) => strtok(s, at).token = <<>>
<1> DEFINE starts == {i \in at .. Len(s) : s[i] # SPACE} \cup {Len(s) + 1}
           start == First(starts)
           ends == {i \in start .. Len(s) : s[i] = SPACE} \cup {Len(s) + 1}
           end == First(ends)
<1>0. Len(s) \in Nat
  OBVIOUS
<1>1. starts \subseteq Nat /\ starts # {}
  BY <1>0
<1>2. start \in starts /\ start \in Nat
  BY <1>1, FirstIsLeast
<1> HIDE DEF start
<1>3. ends \subseteq Nat /\ ends # {}
  BY <1>0, <1>2
<1>4. end \in ends
  BY <1>3, FirstIsLeast
<1> HIDE DEF end
<1>5. strtok(s, at) = IF at = 0 \/ start > Len(s) THEN [token |-> <<>>, sp |-> 0]
                      ELSE [token |-> SubSeq(s, start, end - 1),
                            sp |-> IF end <= Len(s) THEN end + 1 ELSE end]
  BY DEF strtok, start, end
<1>6. CASE at = 0 \/ start > Len(s)
  BY <1>0, <1>5, <1>6
<1>7. CASE ~(at = 0 \/ start > Len(s))
  <2>1. at <= start /\ start <= Len(s) /\ s[start] # SPACE
    BY <1>0, <1>2, <1>7
  <2>2. end \in Nat /\ start < end /\ end <= Len(s) + 1
    BY <1>0, <1>2, <1>4, <2>1
  <2>3. strtok(s, at).sp = IF end <= Len(s) THEN end + 1 ELSE end
    BY <1>5, <1>7
  <2>4. strtok(s, at).token \in Seq(Keys)
    <3>1. strtok(s, at).token = SubSeq(s, start, end - 1)
      <4> DEFINE t == SubSeq(s, start, end - 1)
      <4>1. strtok(s, at) = [token |-> t, sp |-> IF end <= Len(s) THEN end + 1 ELSE end]
        BY <1>5, <1>7, Zenon
      <4> HIDE DEF t
      <4>2. strtok(s, at).token = t
        BY <4>1
      <4> QED BY <4>2 DEF t
    <3>2. \A i \in start .. (end - 1) : s[i] \in Keys
      <4>1. \A i \in start .. (end - 1) : i \in 1 .. Len(s)
        BY <1>0, <1>2, <1>7, <2>1, <2>2
      <4>2. \A i \in 1 .. Len(s) : s[i] \in Keys
        OBVIOUS
      <4> QED BY <4>1, <4>2
    <3>3. start \in Int /\ end - 1 \in Int
      BY <1>2, <2>2
    <3> QED BY <3>1, <3>2, <3>3, SubSeqProperties
  <2> QED BY <1>0, <1>2, <2>1, <2>2, <2>3, <2>4
<1> QED BY <1>6, <1>7

(* The calls of strtok in peachos_parse_command: each starts where the one *)
(* before it left sp.                                                      *)
LEMMA TokensCalls ==
  ASSUME NEW s \in Seq(Keys), sp \in Nat
  PROVE  /\ \A n \in 1 .. (Len(s) + 1) : Tokens(s)[n].sp \in 0 .. (Len(s) + 1)
         /\ Tokens(s)[1] = strtok(s, IF sp = 0 THEN 1 ELSE sp)
         /\ \A n \in 2 .. (Len(s) + 1) : Tokens(s)[n] = strtok(s, Tokens(s)[n - 1].sp)
<1> DEFINE D == 1 .. (Len(s) + 1)
           R == {strtok(s, at) : at \in Nat}
           from == IF sp = 0 THEN 1 ELSE sp
           base == strtok(s, from)
           step == [i \in Nat |-> [r \in R |-> strtok(s, r.sp)]]
           Is(f) == f = [n \in D |-> strtok(s, IF n > 1 THEN f[n - 1].sp
                                               ELSE IF sp = 0 THEN 1 ELSE sp)]
<1>0. Len(s) \in Nat /\ from \in Nat
  OBVIOUS
<1>1. \A r \in R : r.sp \in 0 .. (Len(s) + 1)
  BY <1>0, strtokAdvances
<1>2. base \in R /\ step \in [Nat -> [R -> R]]
  BY <1>0, <1>1
<1>3. PICK g : /\ g \in [0 .. Len(s) -> R] /\ g[0] = base
               /\ \A i \in 1 .. Len(s) : g[i] = step[i][g[i - 1]]
  <2> HIDE DEF R, base, step
  <2>1. \E g : Iterates(g, R, base, step, Len(s))
    BY <1>0, <1>2, Recursion
  <2> QED BY <2>1 DEF Iterates
<1> DEFINE f == [n \in D |-> g[n - 1]]
<1>4. Is(f)
  <2> SUFFICES ASSUME NEW n \in D
               PROVE  g[n - 1] = strtok(s, IF n > 1 THEN f[n - 1].sp
                                           ELSE IF sp = 0 THEN 1 ELSE sp)
    OBVIOUS
  <2>1. CASE n = 1
    BY <1>3, <2>1
  <2>2. CASE n # 1
    <3>1. n - 1 \in 1 .. Len(s) /\ n - 1 \in D /\ (n - 1) - 1 \in 0 .. Len(s) /\ n > 1
      BY <1>0, <2>2
    <3>2. g[n - 1] = step[n - 1][g[(n - 1) - 1]] /\ f[n - 1] = g[(n - 1) - 1]
      BY <1>3, <3>1
    <3>3. g[(n - 1) - 1] \in R
      BY <1>3, <3>1
    <3> QED BY <3>1, <3>2, <3>3
  <2> QED BY <2>1, <2>2
<1> HIDE DEF f
<1>5. Is(Tokens(s))
  <2>1. Tokens(s) = CHOOSE h : Is(h)
    BY DEF Tokens
  <2> HIDE DEF Is
  <2> QED BY <1>4, <2>1
<1>6. Tokens(s)[1] = base
  BY <1>0, <1>5
<1>7. ASSUME NEW n \in 2 .. (Len(s) + 1)
      PROVE  Tokens(s)[n] = strtok(s, Tokens(s)[n - 1].sp)
  <2>1. n \in D /\ n > 1
    BY <1>0
  <2> QED BY <1>5, <2>1
<1>8. ASSUME NEW n \in D PROVE Tokens(s)[n].sp \in 0 .. (Len(s) + 1)
  <2> DEFINE T == {i \in D : Tokens(s)[i].sp \notin 0 .. (Len(s) + 1)}
  <2> SUFFICES ASSUME T # {} PROVE FALSE
    OBVIOUS
  <2>1. PICK m \in T : \A y \in T : m <= y
    <3>1. T \subseteq Nat
      BY <1>0
    <3> HIDE DEF T
    <3> QED BY <3>1, NatMinimum
  <2>2. m \in D /\ Tokens(s)[m].sp \notin 0 .. (Len(s) + 1)
    OBVIOUS
  <2>3. CASE m = 1
    BY <1>0, <1>6, <2>2, <2>3, strtokAdvances
  <2>4. CASE m # 1
    <3>1. m \in 2 .. (Len(s) + 1) /\ m - 1 \in D /\ m - 1 \notin T
      BY <1>0, <2>1, <2>2, <2>4
    <3>2. Tokens(s)[m - 1].sp \in Nat
      BY <1>0, <3>1
    <3> QED BY <1>7, <2>2, <3>1, <3>2, strtokAdvances
  <2> QED BY <2>3, <2>4
<1> QED BY <1>6, <1>7, <1>8

(* The loop of peachos_parse_command ends: one of the first Len(s) + 1     *)
(* calls of strtok returns null.                                           *)
LEMMA TokensEnd ==
  ASSUME NEW s \in Seq(Keys), sp \in Nat
  PROVE  {k \in 1 .. (Len(s) + 1) : Tokens(s)[k].token = <<>>} # {}
<1> SUFFICES ASSUME \A k \in 1 .. (Len(s) + 1) : Tokens(s)[k].token # <<>>
             PROVE  FALSE
  OBVIOUS
<1> DEFINE D == 1 .. (Len(s) + 1)
           T == {k \in D : Tokens(s)[k].sp < k + 1}
           from == IF sp = 0 THEN 1 ELSE sp
<1>0. Len(s) \in Nat /\ from \in Nat /\ from >= 1
  OBVIOUS
<1>1. /\ \A n \in D : Tokens(s)[n].sp \in 0 .. (Len(s) + 1)
      /\ Tokens(s)[1] = strtok(s, from)
      /\ \A n \in 2 .. (Len(s) + 1) : Tokens(s)[n] = strtok(s, Tokens(s)[n - 1].sp)
  BY TokensCalls
<1>2. \A n \in D : Tokens(s)[n].sp >= n + 1
  <2> SUFFICES ASSUME T # {} PROVE FALSE
    BY <1>0, <1>1
  <2>1. PICK m \in T : \A y \in T : m <= y
    <3>1. T \subseteq Nat
      BY <1>0
    <3> HIDE DEF T
    <3> QED BY <3>1, NatMinimum
  <2>2. m \in D /\ Tokens(s)[m].sp < m + 1
    OBVIOUS
  <2>3. CASE m = 1
    <3>1. Tokens(s)[1].sp > from
      BY <1>0, <1>1, strtokAdvances, SMTT(20)
    <3> QED BY <1>0, <1>1, <2>2, <2>3, <3>1
  <2>4. CASE m # 1
    <3>1. m \in 2 .. (Len(s) + 1) /\ m - 1 \in D /\ m - 1 \notin T
      BY <1>0, <2>1, <2>2, <2>4
    <3>2. Tokens(s)[m - 1].sp \in Nat /\ Tokens(s)[m - 1].sp >= m
      BY <1>0, <1>1, <3>1
    <3>3. Tokens(s)[m].sp > Tokens(s)[m - 1].sp
      <4>1. Tokens(s)[m] = strtok(s, Tokens(s)[m - 1].sp) /\ Tokens(s)[m].token # <<>>
        BY <1>1, <2>2, <3>1
      <4> QED BY <3>2, <4>1, strtokAdvances
    <3> QED BY <1>0, <1>1, <2>2, <3>2, <3>3
  <2> QED BY <2>3, <2>4
<1>3. Len(s) + 1 \in D
  BY <1>0
<1> QED BY <1>0, <1>1, <1>2, <1>3

-----------------------------------------------------------------------------
(* The inductive invariant of the driver and the shell: a ring, a line     *)
(* that is shorter than the buffer while it is read, and no character in   *)
(* the ring that was not typed.                                            *)
LineInv ==
  /\ RingInv
  /\ caps \in BOOLEAN
  /\ phase \in {"read", "parse", "ran"} /\ short \in {"never", "now", "before"}
  /\ line \in Seq(Keys) /\ Len(line) <= MaxLine - 1
  /\ phase = "read" => Len(line) < MaxLine - 1
  /\ sp \in 0 .. MaxLine
  /\ typed \in Seq(Keys) /\ Pending <= Len(typed)

(* The keyboard interrupt keeps the invariant, and types a key or leaves   *)
(* the ring alone.                                                         *)
LEMMA InterruptStep ==
  ASSUME MaxPending <= Size, LineInv, NEW s \in Scancodes,
         classic_keyboard_interrupt_handler(s)
  PROVE  LineInv' /\ ((\E c \in Keys : keyboard_push(c)) \/ UNCHANGED vars)
<1>0. caps \in BOOLEAN /\ RingInv /\ typed \in Seq(Keys) /\ Pending <= Len(typed)
  BY DEF LineInv
<1>1. caps' \in BOOLEAN /\ UNCHANGED <<phase, line, sp, commands, ran, short>>
  BY <1>0 DEF classic_keyboard_interrupt_handler, shell
<1>2. PICK c \in classic_keyboard_scancode_to_char(s, caps') :
        \/ UNCHANGED <<vars, typed>>
        \/ /\ c \notin {SWITCH, NUL} /\ keyboard_push(c) /\ typed' = Append(typed, c)
  BY DEF classic_keyboard_interrupt_handler
<1>3. c \in Keys \cup {NUL, SWITCH}
  BY <1>1, KeysAssumption
<1>4. CASE UNCHANGED <<vars, typed>>
  <2>1. RingInv' /\ Pending' = Pending
    BY <1>0, <1>4, StutterRing DEF vars, Pending
  <2> QED BY <1>1, <1>4, <2>1 DEF LineInv
<1>5. CASE c \notin {SWITCH, NUL} /\ keyboard_push(c) /\ typed' = Append(typed, c)
  <2>1. c \in Keys
    BY <1>3, <1>5
  <2>2. RingInv' /\ Pending' = Pending + 1 /\ Pending \in Nat
    BY <1>0, <1>5, <2>1, PushStep, QueueArguments
  <2>3. typed' \in Seq(Keys) /\ Len(typed') = Len(typed) + 1 /\ Len(typed) \in Nat
    BY <1>0, <1>5, <2>1
  <2>4. Pending' <= Len(typed')
    BY <1>0, <2>2, <2>3
  <2> QED BY <1>1, <1>5, <2>1, <2>2, <2>3, <2>4 DEF LineInv
<1> QED BY <1>2, <1>4, <1>5

(* One turn of peachos_terminal_readline keeps the invariant.              *)
LEMMA ReadlineStep ==
  ASSUME MaxPending <= Size, LineInv, peachos_terminal_readline
  PROVE  LineInv' /\ keyboard_pop
<1>0. /\ RingInv /\ line \in Seq(Keys) /\ Len(line) < MaxLine - 1
      /\ Pending <= Len(typed) /\ MaxLine \in Nat /\ typed \in Seq(Keys)
  BY CommandLineAssumption DEF LineInv, peachos_terminal_readline
<1>1. /\ phase = "read" /\ keyboard_pop /\ UNCHANGED <<caps, sp, typed, short>>
      /\ \/ got' = NUL /\ UNCHANGED <<line, phase>>
         \/ got' = CR /\ phase' = "parse" /\ UNCHANGED line
         \/ got' \notin {NUL, CR} /\ Store(got')
  BY DEF peachos_terminal_readline
<1>2. /\ RingInv' /\ Pending' <= Pending /\ Pending \in Nat /\ Pending' \in Nat
      /\ got' = NUL \/ got' \in Keys
  <2>1. Pending \in Nat
    BY <1>0, QueueArguments
  <2>2. CASE Pending = 0
    BY <1>0, <1>1, <2>1, <2>2, PopStep DEF Pending
  <2>3. CASE Pending > 0
    BY <1>0, <1>1, <2>1, <2>3, PopStep
  <2> QED BY <2>1, <2>2, <2>3
<1>3. Len(typed) \in Nat /\ Len(line) \in Nat
  BY <1>0
<1>4. Pending' <= Len(typed')
  BY <1>0, <1>1, <1>2, <1>3
<1>5. /\ phase' \in {"read", "parse", "ran"}
      /\ line' \in Seq(Keys) /\ Len(line') <= MaxLine - 1
      /\ phase' = "read" => Len(line') < MaxLine - 1
  <2>1. CASE got' \in {NUL, CR}
    BY <1>0, <1>1, <2>1 DEF Store
  <2>2. CASE got' \notin {NUL, CR} /\ Store(got')
    <3>1. got' \in Keys
      BY <1>2, <2>2
    <3>2. CASE got' = BS /\ Len(line) >= 1
      <4>1. line' = SubSeq(line, 1, Len(line) - 1) /\ phase' = phase
        BY <2>2, <3>2 DEF Store
      <4>2. line' \in Seq(Keys) /\ Len(line') = Len(line) - 1
        <5> DEFINE n == Len(line) - 1
        <5>1. 1 \in Int /\ n \in Int /\ n >= 0 /\ \A i \in 1 .. n : line[i] \in Keys
          BY <1>0, <1>3, <3>2
        <5>2. line' = SubSeq(line, 1, n)
          BY <4>1
        <5> HIDE DEF n
        <5>3. line' \in Seq(Keys) /\ Len(line') = IF 1 <= n THEN n - 1 + 1 ELSE 0
          BY <5>1, <5>2, SubSeqProperties
        <5>4. Len(line') = n
          BY <5>1, <5>3
        <5> QED BY <5>3, <5>4 DEF n
      <4> QED BY <1>0, <1>1, <4>1, <4>2
    <3>3. CASE ~(got' = BS /\ Len(line) >= 1)
      <4>1. /\ line' = Append(line, got')
            /\ phase' = IF Len(line') < MaxLine - 1 THEN "read" ELSE "parse"
        BY <2>2, <3>3 DEF Store
      <4>2. line' \in Seq(Keys) /\ Len(line') = Len(line) + 1
        BY <1>0, <3>1, <4>1
      <4> QED BY <1>0, <4>1, <4>2
    <3> QED BY <3>2, <3>3
  <2> QED BY <1>1, <2>1, <2>2
<1> QED BY <1>1, <1>2, <1>4, <1>5 DEF LineInv

(* Parsing and running the line keep the invariant: what is left in sp is  *)
(* a position of the shell's buffer.                                       *)
LEMMA ParseStep ==
  ASSUME LineInv, Parse
  PROVE  LineInv' /\ UNCHANGED vars
<1>0. /\ RingInv /\ line \in Seq(Keys) /\ Len(line) \in Nat /\ Len(line) <= MaxLine - 1
      /\ sp \in 0 .. MaxLine /\ sp \in Nat /\ MaxLine \in Nat
  BY CommandLineAssumption DEF LineInv
<1>1. ASSUME NEW n \in 0 .. (MaxLine \div 2), parsenexec(n) PROVE LineInv' /\ UNCHANGED vars
  <2> DEFINE call == Tokens(line)
             nulls == {k \in 1 .. (Len(line) + 1) : call[k].token = <<>>}
             total == First(nulls) - 1
             m == IF n < total THEN n ELSE total
  <2>1. /\ sp' = call[m + 1].sp /\ phase' = "ran"
        /\ short' = IF m < total /\ short = "never" THEN "now" ELSE short
        /\ UNCHANGED <<vars, caps, line, typed>>
    BY <1>1 DEF parsenexec
  <2>2. nulls # {} /\ nulls \subseteq Nat
    BY <1>0, TokensEnd
  <2>3. First(nulls) \in nulls
    <3> HIDE DEF nulls
    <3> QED BY <2>2, FirstIsLeast
  <2>4. total \in 0 .. Len(line)
    BY <1>0, <2>3
  <2>5. m + 1 \in 1 .. (Len(line) + 1)
    <3>1. n \in Nat
      BY <1>0
    <3> HIDE DEF total
    <3> QED BY <1>0, <2>4, <3>1
  <2> HIDE DEF m, total
  <2>6. sp' \in 0 .. (Len(line) + 1)
    BY <1>0, <2>1, <2>5, TokensCalls
  <2>7. sp' \in 0 .. MaxLine
    BY <1>0, <2>6
  <2>8. RingInv' /\ Pending' = Pending
    BY <1>0, <2>1, StutterRing DEF vars, Pending
  <2>9. short' \in {"never", "now", "before"}
    BY <2>1 DEF LineInv
  <2> HIDE DEF call
  <2> QED BY <2>1, <2>7, <2>8, <2>9 DEF LineInv
<1>2. ASSUME parsenexec_Stale PROVE LineInv' /\ UNCHANGED vars
  <2>1. /\ sp' \in {0, sp} /\ phase' = "ran"
        /\ UNCHANGED <<vars, caps, line, typed, short>>
    BY <1>2 DEF parsenexec_Stale
  <2>2. RingInv' /\ Pending' = Pending
    BY <1>0, <2>1, StutterRing DEF vars, Pending
  <2> QED BY <1>0, <2>1, <2>2 DEF LineInv
<1> QED BY <1>1, <1>2 DEF Parse

(* Going back to the prompt keeps the invariant.                           *)
LEMMA PromptStep ==
  ASSUME MaxPending <= Size, LineInv, Prompt
  PROVE  LineInv' /\ UNCHANGED vars
<1>0. /\ RingInv /\ typed \in Seq(Keys) /\ Len(typed) \in Nat
      /\ Pending <= Len(typed) /\ Pending \in Nat
  BY QueueArguments DEF LineInv
<1>1. /\ phase' = "read" /\ line' = <<>> /\ UNCHANGED <<vars, caps, sp>>
      /\ short' = IF short = "now" THEN "before" ELSE short
      /\ typed' = SubSeq(typed, Len(typed) - Pending + 1, Len(typed))
  BY DEF Prompt
<1>2. RingInv' /\ Pending' = Pending
  BY <1>0, <1>1, StutterRing DEF vars, Pending
<1>3. typed' \in Seq(Keys) /\ Len(typed') = Pending
  BY <1>0, <1>1
<1>4. line' \in Seq(Keys) /\ Len(line') = 0 /\ 0 < MaxLine - 1 /\ 0 <= MaxLine - 1
  BY <1>1, CommandLineAssumption
<1>5. short' \in {"never", "now", "before"}
  BY <1>1 DEF LineInv
<1> QED BY <1>0, <1>1, <1>2, <1>3, <1>4, <1>5 DEF LineInv

(* Every step keeps the invariant and is a step of the ring, or leaves it  *)
(* alone.                                                                  *)
LEMMA NextLine ==
  ASSUME MaxPending <= Size, LineInv, [CNext]_cvars
  PROVE  LineInv' /\ [Next]_vars
<1>1. CASE UNCHANGED cvars
  <2>1. UNCHANGED vars /\ UNCHANGED <<caps, phase, line, sp, typed, short>>
    BY <1>1 DEF cvars
  <2>2. RingInv' /\ Pending' = Pending
    BY <2>1, StutterRing DEF LineInv, vars, Pending
  <2> QED BY <2>1, <2>2 DEF LineInv
<1> QED BY <1>1, InterruptStep, ReadlineStep, ParseStep, PromptStep DEF CNext, Next

(* The shell starts with an empty line and an empty ring.                  *)
LEMMA InitLine == CInit => LineInv
<1> SUFFICES ASSUME CInit PROVE LineInv
  OBVIOUS
<1>1. RingInv
  BY InitRing DEF CInit
<1>2. Pending = 0
  <2>1. tail - head = 0
    BY DEF CInit, Init
  <2> QED BY <2>1, ModSmall, RingConstants DEF Pending
<1>3. line \in Seq(Keys) /\ Len(line) = 0 /\ typed \in Seq(Keys) /\ Len(typed) = 0
  BY DEF CInit
<1>4. Len(line) < MaxLine - 1 /\ Len(line) <= MaxLine - 1 /\ 0 \in 0 .. MaxLine
  BY <1>3, CommandLineAssumption
<1>5. Pending <= Len(typed)
  BY <1>2, <1>3
<1> QED BY <1>1, <1>3, <1>4, <1>5 DEF CInit, LineInv

(* The driver and the shell keep their types: in particular no line is     *)
(* longer than the shell's buffer and strtok never leaves a pointer behind *)
(* the buffer, also when memory runs out in the middle of a line.          *)
THEOREM CommandLineTypeCorrect ==
  ASSUME MaxPending <= Size
  PROVE  CSpec => []CTypeOK
<1>1. LineInv => CTypeOK
  <2> SUFFICES ASSUME LineInv PROVE CTypeOK
    OBVIOUS
  <2>1. Len(line) \in 0 .. (MaxLine - 1)
    BY CommandLineAssumption DEF LineInv
  <2> QED BY <2>1 DEF LineInv, RingInv, CTypeOK
<1> QED BY <1>1, InitLine, NextLine, PTL DEF CSpec

(* The two ends of the ring find each other by the cells alone, whatever   *)
(* the interrupt and the shell do in between.                              *)
THEOREM CommandLineEndsAgree ==
  ASSUME MaxPending <= Size
  PROVE  CSpec => []EndsAgree
<1>1. LineInv => EndsAgree
  BY DEF LineInv, RingInv
<1> QED BY <1>1, InitLine, NextLine, PTL DEF CSpec

(* What the driver pushes is what the shell is given, once and in order:   *)
(* the safety of ImplementsKeyQueue.                                       *)
THEOREM CommandLineIsQueue ==
  ASSUME MaxPending <= Size
  PROVE  CSpec => Queue!Init /\ [][Queue!Next]_(Queue!vars)
<1>1. LineInv /\ [CNext]_cvars => [Queue!Next]_(Queue!vars)
  <2> SUFFICES ASSUME LineInv, [CNext]_cvars PROVE [Queue!Next]_(Queue!vars)
    OBVIOUS
  <2>1. [Next]_vars /\ RingInv
    BY NextLine DEF LineInv
  <2> QED BY <2>1, PushTypes, PopGets, StutterQueue DEF Next, Queue!Next
<1>2. CInit => Queue!Init
  BY InitQueue DEF CInit
<1> QED BY <1>1, <1>2, InitLine, NextLine, PTL DEF CSpec

-----------------------------------------------------------------------------
(* How many numbers of a set are not above i.                              *)
Rank(S, i) == Cardinality({j \in S : j <= i})

(* Larger numbers have larger ranks, from 1 to the size of the set.        *)
LEMMA RankGrows ==
  ASSUME NEW S, S \subseteq Nat, IsFiniteSet(S)
  PROVE  /\ Cardinality(S) \in Nat
         /\ \A a \in S : Rank(S, a) \in 1 .. Cardinality(S)
         /\ \A a, b \in S : a < b => Rank(S, a) < Rank(S, b)
<1> DEFINE below(a) == {j \in S : j <= a}
<1>0. Cardinality(S) \in Nat
  BY FS_CardinalityType
<1>1. ASSUME NEW a \in S
      PROVE  /\ IsFiniteSet(below(a)) /\ Cardinality(below(a)) \in Nat
             /\ Cardinality(below(a)) <= Cardinality(S) /\ Cardinality(below(a)) # 0
  <2>1. below(a) \in SUBSET S /\ a \in below(a)
    OBVIOUS
  <2> HIDE DEF below
  <2>2. IsFiniteSet(below(a)) /\ Cardinality(below(a)) <= Cardinality(S)
    BY <2>1, FS_Subset
  <2> QED BY <2>1, <2>2, FS_CardinalityType, FS_EmptySet
<1>2. ASSUME NEW a \in S, NEW b \in S, a < b
      PROVE  Cardinality(below(a)) < Cardinality(below(b))
  <2>1. below(a) \in SUBSET below(b) /\ b \in below(b) /\ b \notin below(a)
    <3>1. \A j \in S : j \in Nat
      OBVIOUS
    <3>2. a \in Nat /\ b \in Nat
      OBVIOUS
    <3>3. (\A j \in Nat : j <= a => j <= b) /\ b <= b /\ ~(b <= a)
      BY <1>2, <3>2
    <3> QED BY <3>1, <3>3, Zenon
  <2> HIDE DEF below
  <2>2. IsFiniteSet(below(b)) /\ Cardinality(below(a)) \in Nat /\ Cardinality(below(b)) \in Nat
    BY <1>1
  <2> QED BY <2>1, <2>2, FS_Subset
<1> QED BY <1>0, <1>1, <1>2 DEF Rank

(* Nth inverts the rank.                                                   *)
LEMMA NthRank ==
  ASSUME NEW S, S \subseteq Nat, IsFiniteSet(S)
  PROVE  /\ \A k \in 1 .. Cardinality(S) : Nth(S, k) \in S /\ Rank(S, Nth(S, k)) = k
         /\ \A i \in S : Nth(S, Rank(S, i)) = i
<1> DEFINE n == Cardinality(S)
           r == [i \in S |-> Rank(S, i)]
<1>0. /\ n \in Nat /\ \A a \in S : Rank(S, a) \in 1 .. n
      /\ \A a, b \in S : a < b => Rank(S, a) < Rank(S, b)
  BY RankGrows
<1>1. \A a, b \in S : Rank(S, a) = Rank(S, b) => a = b
  <2> SUFFICES ASSUME NEW a \in S, NEW b \in S, Rank(S, a) = Rank(S, b) PROVE a = b
    OBVIOUS
  <2>1. a \in Nat /\ b \in Nat /\ Rank(S, a) \in Nat
    BY <1>0
  <2> QED BY <1>0, <2>1
<1>2. r \in Injection(S, 1 .. n)
  BY <1>0, <1>1 DEF Injection, IsInjective
<1>3. IsFiniteSet(1 .. n) /\ Cardinality(1 .. n) = n
  BY <1>0, FS_Interval
<1>4. r \in Surjection(S, 1 .. n)
  <2> HIDE DEF r
  <2> QED BY <1>2, <1>3, FS_Injection
<1>5. \A k \in 1 .. n : \E i \in S : Rank(S, i) = k
  BY <1>4 DEF Surjection
<1>6. ASSUME NEW k, \E i \in S : Rank(S, i) = k PROVE Nth(S, k) \in S /\ Rank(S, Nth(S, k)) = k
  BY <1>6 DEF Nth, Rank
<1> QED BY <1>0, <1>1, <1>5, <1>6

(* A number above all others becomes the last one.                         *)
LEMMA NthAdd ==
  ASSUME NEW S, S \subseteq Nat, IsFiniteSet(S), NEW m \in Nat, \A j \in S : j < m
  PROVE  /\ IsFiniteSet(S \cup {m}) /\ Cardinality(S) \in Nat
         /\ Cardinality(S \cup {m}) = Cardinality(S) + 1
         /\ \A k \in 1 .. Cardinality(S) : Nth(S \cup {m}, k) = Nth(S, k)
         /\ Nth(S \cup {m}, Cardinality(S) + 1) = m
<1> DEFINE W == S \cup {m}
<1>1. m \notin S /\ W \subseteq Nat
  OBVIOUS
<1>2. IsFiniteSet(W) /\ Cardinality(W) = Cardinality(S) + 1 /\ Cardinality(S) \in Nat
  BY <1>1, FS_AddElement, FS_CardinalityType
<1>3. ASSUME NEW i \in S PROVE Rank(W, i) = Rank(S, i)
  <2>1. {j \in W : j <= i} = {j \in S : j <= i}
    BY <1>3
  <2> QED BY <2>1 DEF Rank
<1>4. Rank(W, m) = Cardinality(W)
  <2>1. \A j \in S : j <= m
    <3>1. \A j \in S : j \in Nat /\ j < m
      OBVIOUS
    <3> QED BY <3>1
  <2>2. {j \in W : j <= m} = W
    <3>1. m <= m
      OBVIOUS
    <3> QED BY <2>1, <3>1, Zenon
  <2> QED BY <2>2 DEF Rank
<1>5. \A i \in W : Nth(W, Rank(W, i)) = i
  <2> HIDE DEF W
  <2> QED BY <1>1, <1>2, NthRank
<1>6. ASSUME NEW k \in 1 .. Cardinality(S) PROVE Nth(W, k) = Nth(S, k)
  <2>1. Nth(S, k) \in S /\ Rank(S, Nth(S, k)) = k
    BY NthRank
  <2>2. Nth(S, k) \in W /\ Rank(W, Nth(S, k)) = k
    BY <1>3, <2>1
  <2> HIDE DEF W
  <2> QED BY <1>5, <2>2
<1>7. m \in W
  OBVIOUS
<1> HIDE DEF W
<1>8. Nth(W, Cardinality(S) + 1) = m
  BY <1>2, <1>4, <1>5, <1>7
<1> QED BY <1>2, <1>6, <1>8 DEF W

-----------------------------------------------------------------------------
(* Erased counts the backspaces of an interval: it grows by one with each, *)
(* and two adjoining intervals add up.                                     *)
LEMMA ErasedCounts ==
  ASSUME NEW s, NEW i \in Nat, NEW j \in Nat, i <= j
  PROVE  /\ Erased(s, i, j) \in Nat /\ Erased(s, i, i) = 0
         /\ Erased(s, i, j + 1) = Erased(s, i, j) + (IF s[j + 1] = BS THEN 1 ELSE 0)
         /\ \A k \in Nat : j <= k => Erased(s, i, k) = Erased(s, i, j) + Erased(s, j, k)
<1> DEFINE E(a, b) == {x \in (a + 1) .. b : s[x] = BS}
<1>1. ASSUME NEW a \in Nat, NEW b \in Nat
      PROVE  IsFiniteSet(E(a, b)) /\ Cardinality(E(a, b)) \in Nat
  <2>1. IsFiniteSet((a + 1) .. b) /\ E(a, b) \in SUBSET ((a + 1) .. b)
    BY FS_Interval
  <2> HIDE DEF E
  <2>2. IsFiniteSet(E(a, b))
    BY <2>1, FS_Subset
  <2> QED BY <2>2, FS_CardinalityType
<1>2. E(i, i) = {}
  OBVIOUS
<1>3. E(i, j + 1) = IF s[j + 1] = BS THEN E(i, j) \cup {j + 1} ELSE E(i, j)
  <2>1. CASE s[j + 1] = BS
    BY <2>1
  <2>2. CASE s[j + 1] # BS
    BY <2>2
  <2> QED BY <2>1, <2>2
<1>4. j + 1 \notin E(i, j)
  OBVIOUS
<1>5. ASSUME NEW k \in Nat, j <= k
      PROVE  E(i, k) = E(i, j) \cup E(j, k) /\ E(i, j) \cap E(j, k) = {}
  BY <1>5
<1> HIDE DEF E
<1>6. Cardinality(E(i, j + 1)) = Cardinality(E(i, j)) + (IF s[j + 1] = BS THEN 1 ELSE 0)
  <2>1. CASE s[j + 1] = BS
    BY <1>1, <1>3, <1>4, <2>1, FS_AddElement
  <2>2. CASE s[j + 1] # BS
    BY <1>1, <1>3, <2>2
  <2> QED BY <2>1, <2>2
<1>7. ASSUME NEW k \in Nat, j <= k
      PROVE  Cardinality(E(i, k)) = Cardinality(E(i, j)) + Cardinality(E(j, k))
  <2>1. Cardinality(E(i, j) \cup E(j, k))
          = Cardinality(E(i, j)) + Cardinality(E(j, k)) - Cardinality(E(i, j) \cap E(j, k))
    BY <1>1, FS_Union
  <2>2. E(i, k) = E(i, j) \cup E(j, k) /\ E(i, j) \cap E(j, k) = {}
    BY <1>5, <1>7
  <2>3. Cardinality(E(i, j) \cap E(j, k)) = 0
    BY <2>2, FS_EmptySet
  <2>4. Cardinality(E(i, j)) \in Nat /\ Cardinality(E(j, k)) \in Nat
    BY <1>1
  <2>5. Cardinality(E(i, k)) = Cardinality(E(i, j) \cup E(j, k))
    BY <2>2
  <2> QED BY <2>1, <2>3, <2>4, <2>5
<1> QED BY <1>1, <1>2, <1>6, <1>7, FS_EmptySet DEF Erased, E

(* The same fact by itself.                                                *)
LEMMA ErasedSplit ==
  ASSUME NEW s, NEW i \in Nat, NEW j \in Nat, NEW k \in Nat, i <= j, j <= k
  PROVE  Erased(s, i, k) = Erased(s, i, j) + Erased(s, j, k)
BY ErasedCounts

(* Erased looks at its interval only.                                      *)
LEMMA ErasedSame ==
  ASSUME NEW s, NEW t, NEW i \in Nat, NEW j \in Nat,
         \A x \in (i + 1) .. j : s[x] = t[x]
  PROVE  Erased(s, i, j) = Erased(t, i, j)
<1>1. {k \in (i + 1) .. j : s[k] = BS} = {k \in (i + 1) .. j : t[k] = BS}
  OBVIOUS
<1> QED BY <1>1 DEF Erased

(* The positions that stay are positions of the line.                      *)
LEMMA StaysFinite ==
  ASSUME NEW s \in Seq(Keys)
  PROVE  /\ Stays(s) \subseteq 1 .. Len(s) /\ Stays(s) \subseteq Nat
         /\ IsFiniteSet(Stays(s)) /\ Cardinality(Stays(s)) \in Nat
<1>1. Len(s) \in Nat /\ DOMAIN s = 1 .. Len(s)
  OBVIOUS
<1>2. Stays(s) \subseteq 1 .. Len(s)
  BY <1>1 DEF Stays
<1>3. IsFiniteSet(1 .. Len(s))
  BY <1>1, FS_Interval
<1>4. IsFiniteSet(Stays(s))
  BY <1>2, <1>3, FS_Subset
<1> QED BY <1>1, <1>2, <1>4, FS_CardinalityType

(* What one more key does to the positions that stay.                      *)
LEMMA StaysStep ==
  ASSUME NEW s \in Seq(Keys), NEW c \in Keys
  PROVE  LET t == Append(s, c)
             n == Len(s)
         IN
         /\ n \in Nat /\ t \in Seq(Keys) /\ Len(t) = n + 1 /\ t[n + 1] = c
         /\ \A x \in 1 .. n : t[x] = s[x]
         /\ Stays(t) \subseteq 1 .. (n + 1)
         /\ \A i \in 1 .. n :
              i \in Stays(t) <=> /\ i \in Stays(s)
                                 /\ 2 * (Erased(s, i, n) + (IF c = BS THEN 1 ELSE 0)) <= n + 1 - i
         /\ n + 1 \in Stays(t) <=> c \notin {BS, CR}
<1> DEFINE t == Append(s, c)
           n == Len(s)
<1>1. /\ n \in Nat /\ t \in Seq(Keys) /\ Len(t) = n + 1 /\ t[n + 1] = c
      /\ \A x \in 1 .. n : t[x] = s[x]
  OBVIOUS
<1>2. Stays(t) \subseteq 1 .. (n + 1)
  BY <1>1, StaysFinite
<1>3. DOMAIN t = 1 .. (n + 1) /\ DOMAIN s = 1 .. n
  BY <1>1
<1>4. ASSUME NEW i \in 1 .. n
      PROVE  i \in Stays(t) <=>
               /\ i \in Stays(s)
               /\ 2 * (Erased(s, i, n) + (IF c = BS THEN 1 ELSE 0)) <= n + 1 - i
  <2>0. i \in Nat /\ i <= n
    BY <1>1
  <2>1. \A j \in i .. n : Erased(t, i, j) = Erased(s, i, j)
    <3> SUFFICES ASSUME NEW j \in i .. n PROVE Erased(t, i, j) = Erased(s, i, j)
      OBVIOUS
    <3>1. j \in Nat /\ \A x \in (i + 1) .. j : t[x] = s[x]
      BY <1>1, <2>0
    <3> QED BY <2>0, <3>1, ErasedSame
  <2>2. Erased(t, i, n + 1) = Erased(s, i, n) + (IF c = BS THEN 1 ELSE 0)
    <3>1. Erased(t, i, n + 1) = Erased(t, i, n) + (IF t[n + 1] = BS THEN 1 ELSE 0)
      BY <1>1, <2>0, ErasedCounts
    <3>2. n \in i .. n
      BY <1>1, <2>0
    <3> QED BY <1>1, <2>1, <3>1, <3>2
  <2>3. i .. (n + 1) = (i .. n) \cup {n + 1}
    BY <1>1, <2>0
  <2>4. i \in DOMAIN t /\ i \in DOMAIN s /\ t[i] = s[i]
    BY <1>1, <1>3, <2>0
  <2>5. i \in Stays(t) <=> /\ t[i] \notin {BS, CR}
                           /\ \A j \in i .. (n + 1) : 2 * Erased(t, i, j) <= j - i
    BY <1>1, <2>4 DEF Stays
  <2>6. i \in Stays(s) <=> /\ s[i] \notin {BS, CR}
                           /\ \A j \in i .. n : 2 * Erased(s, i, j) <= j - i
    BY <2>4 DEF Stays
  <2>7. (\A j \in i .. (n + 1) : 2 * Erased(t, i, j) <= j - i)
          <=> /\ \A j \in i .. n : 2 * Erased(t, i, j) <= j - i
              /\ 2 * Erased(t, i, n + 1) <= (n + 1) - i
    BY <2>3
  <2> QED BY <2>1, <2>2, <2>4, <2>5, <2>6, <2>7
<1>5. n + 1 \in Stays(t) <=> c \notin {BS, CR}
  <2>1. (n + 1) .. (n + 1) = {n + 1} /\ n + 1 \in Nat /\ n + 1 \in DOMAIN t
    BY <1>1, <1>3
  <2>2. 2 * Erased(t, n + 1, n + 1) <= (n + 1) - (n + 1)
    BY <2>1, ErasedCounts
  <2>3. n + 1 \in Stays(t) <=>
          /\ t[n + 1] \notin {BS, CR}
          /\ \A j \in (n + 1) .. (n + 1) : 2 * Erased(t, n + 1, j) <= j - (n + 1)
    BY <1>1, <2>1 DEF Stays
  <2>4. \A j \in (n + 1) .. (n + 1) : 2 * Erased(t, n + 1, j) <= j - (n + 1)
    BY <2>1, <2>2
  <2> QED BY <1>1, <2>3, <2>4
<1> HIDE DEF t, n
<1> QED BY <1>1, <1>2, <1>4, <1>5 DEF t, n

(* A key other than backspace takes nothing back, and stays itself unless  *)
(* it is the return key.                                                   *)
LEMMA StaysAppend ==
  ASSUME NEW s \in Seq(Keys), NEW c \in Keys, c # BS
  PROVE  Stays(Append(s, c)) = Stays(s) \cup (IF c = CR THEN {} ELSE {Len(s) + 1})
<1> DEFINE t == Append(s, c)
           n == Len(s)
<1>1. /\ n \in Nat /\ Stays(t) \subseteq 1 .. (n + 1)
      /\ \A i \in 1 .. n : i \in Stays(t) <=>
           i \in Stays(s) /\ 2 * (Erased(s, i, n) + (IF c = BS THEN 1 ELSE 0)) <= n + 1 - i
      /\ n + 1 \in Stays(t) <=> c \notin {BS, CR}
  BY StaysStep
<1> HIDE DEF t, n
<1>2. Stays(s) \subseteq 1 .. n
  BY StaysFinite DEF n
<1>3. ASSUME NEW i \in Stays(s) PROVE 2 * (Erased(s, i, n) + 0) <= n + 1 - i
  <2>1. i \in Nat /\ i <= n /\ n \in i .. n
    BY <1>1, <1>2
  <2>2. 2 * Erased(s, i, n) <= n - i
    BY <2>1 DEF Stays, n
  <2>3. Erased(s, i, n) \in Nat
    BY <1>1, <2>1, ErasedCounts
  <2> QED BY <1>1, <2>1, <2>2, <2>3
<1>4. \A i \in 1 .. n : i \in Stays(t) <=> i \in Stays(s)
  BY <1>1, <1>3
<1>5. \A i \in 1 .. (n + 1) : i \in 1 .. n \/ i = n + 1
  BY <1>1
<1>6. n + 1 \notin 1 .. n
  BY <1>1
<1>7. Stays(t) = Stays(s) \cup (IF c = CR THEN {} ELSE {n + 1})
  BY <1>1, <1>2, <1>4, <1>5, <1>6, Zenon
<1> QED BY <1>7 DEF t, n

(* A character that stays is followed by another one that stays exactly if *)
(* a backspace now would not erase it.                                     *)
LEMMA LaterStays ==
  ASSUME NEW s \in Seq(Keys), \A x \in 1 .. Len(s) : s[x] # CR, NEW i \in Stays(s)
  PROVE  (\E k \in Stays(s) : i < k) <=> 2 * (Erased(s, i, Len(s)) + 1) <= Len(s) + 1 - i
<1> DEFINE n == Len(s)
<1>0. n \in Nat /\ i \in Nat /\ i >= 1 /\ i <= n /\ DOMAIN s = 1 .. n
  BY StaysFinite
<1>1. \A j \in i .. n : Erased(s, i, j) \in Nat /\ 2 * Erased(s, i, j) <= j - i
  <2>1. \A j \in i .. n : j \in Nat /\ i <= j
    BY <1>0
  <2> QED BY <1>0, <2>1, ErasedCounts DEF Stays
<1>2. ASSUME NEW k \in Stays(s), i < k PROVE 2 * (Erased(s, i, n) + 1) <= n + 1 - i
  <2>1. k \in Nat /\ k <= n /\ k - 1 \in Nat /\ i <= k - 1 /\ k - 1 \in i .. n /\ k \in i .. n
        /\ (k - 1) + 1 = k
    BY <1>0, <1>2, StaysFinite
  <2>2. s[k] # BS /\ 2 * Erased(s, k, n) <= n - k
    <3>1. n \in k .. n
      BY <1>0, <2>1
    <3> QED BY <1>2, <3>1 DEF Stays
  <2>3. Erased(s, i, k) = Erased(s, i, k - 1)
    <3>1. Erased(s, i, (k - 1) + 1)
            = Erased(s, i, k - 1) + (IF s[(k - 1) + 1] = BS THEN 1 ELSE 0)
      BY <1>0, <2>1, ErasedCounts
    <3>2. Erased(s, i, k - 1) \in Nat
      BY <1>1, <2>1
    <3> QED BY <2>1, <2>2, <3>1, <3>2
  <2>4. Erased(s, i, n) = Erased(s, i, k) + Erased(s, k, n) /\ Erased(s, k, n) \in Nat
    <3> HIDE DEF n
    <3>1. Erased(s, k, n) \in Nat
      BY <1>0, <2>1, ErasedCounts
    <3>2. k <= n /\ i <= k
      BY <1>0, <2>1
    <3> QED BY <1>0, <2>1, <3>1, <3>2, ErasedSplit
  <2>5. 2 * Erased(s, i, k) <= (k - 1) - i /\ Erased(s, i, k) \in Nat
    BY <1>1, <2>1, <2>3
  <2> HIDE DEF n
  <2> QED BY <1>0, <2>1, <2>2, <2>4, <2>5
<1>3. ASSUME 2 * (Erased(s, i, n) + 1) <= n + 1 - i PROVE \E k \in Stays(s) : i < k
  <2> DEFINE Z == {j \in i .. n : 2 * Erased(s, i, j) = j - i}
  <2>1. i \in Z /\ Z \subseteq Nat /\ \A x \in Z : x <= n
    BY <1>0, ErasedCounts
  <2>2. PICK z \in Z : \A y \in Z : y <= z
    <3> HIDE DEF Z
    <3> QED BY <1>0, <2>1, NatMaximum
  <2>3. /\ z \in Nat /\ i <= z /\ z <= n /\ z \in i .. n /\ 2 * Erased(s, i, z) = z - i
        /\ Erased(s, i, z) \in Nat
    BY <1>0, <1>1, <2>2
  <2>4. z < n
    <3>1. n \in i .. n
      BY <1>0
    <3>2. Erased(s, i, n) \in Nat
      BY <1>1, <3>1
    <3>3. z # n
      <4> SUFFICES ASSUME z = n PROVE FALSE
        OBVIOUS
      <4>1. 2 * Erased(s, i, n) = n - i
        BY <2>3
      <4> DEFINE e == Erased(s, i, n)
      <4>2. e \in Nat /\ 2 * e = n - i /\ 2 * (e + 1) <= n + 1 - i
        BY <1>3, <3>2, <4>1
      <4> HIDE DEF n, e
      <4> QED BY <1>0, <4>2
    <3> HIDE DEF n, Z
    <3>4. z \in Nat /\ n \in Nat /\ z <= n
      BY <1>0, <2>3
    <3> QED BY <3>3, <3>4
  <2> DEFINE k == z + 1
  <2>5. k \in Nat /\ k \in i .. n /\ k > i /\ k \in 1 .. n
    BY <1>0, <2>3, <2>4
  <2>6. /\ Erased(s, i, k) = Erased(s, i, z) + (IF s[k] = BS THEN 1 ELSE 0)
        /\ Erased(s, z, k) = 0 + (IF s[k] = BS THEN 1 ELSE 0)
    <3>1. /\ Erased(s, z, z) = 0
          /\ Erased(s, z, z + 1) = Erased(s, z, z) + (IF s[z + 1] = BS THEN 1 ELSE 0)
      BY <2>3, ErasedCounts
    <3> QED BY <1>0, <2>3, <3>1, ErasedCounts
  <2>7. s[k] # BS
    <3> SUFFICES ASSUME s[k] = BS PROVE FALSE
      OBVIOUS
    <3>1. Erased(s, i, k) = Erased(s, i, z) + 1 /\ 2 * Erased(s, i, k) <= k - i
      BY <1>1, <2>5, <2>6
    <3> HIDE DEF n
    <3> QED BY <1>0, <2>3, <3>1
  <2>8. ASSUME NEW j \in k .. n PROVE 2 * Erased(s, k, j) <= j - k
    <3>1. j \in Nat /\ k <= j /\ z <= j /\ z < j /\ j \in i .. n
      BY <1>0, <2>3, <2>5
    <3>2. /\ Erased(s, i, j) = Erased(s, i, z) + Erased(s, z, j)
          /\ Erased(s, z, j) = Erased(s, z, k) + Erased(s, k, j)
          /\ Erased(s, k, j) \in Nat
      <4> HIDE DEF n, k
      <4>1. Erased(s, i, j) = Erased(s, i, z) + Erased(s, z, j)
        BY <1>0, <2>3, <3>1, ErasedSplit
      <4>2. Erased(s, z, j) = Erased(s, z, k) + Erased(s, k, j)
        <5>1. z <= k
          BY <2>3 DEF k
        <5> QED BY <2>3, <2>5, <3>1, <5>1, ErasedSplit
      <4>3. Erased(s, k, j) \in Nat
        BY <2>5, <3>1, ErasedCounts
      <4> QED BY <4>1, <4>2, <4>3
    <3>3. Erased(s, z, k) = 0
      BY <2>6, <2>7
    <3>4. 2 * Erased(s, i, j) # j - i /\ 2 * Erased(s, i, j) <= j - i /\ Erased(s, i, j) \in Nat
      <4>1. j \notin Z
        <5> HIDE DEF Z
        <5>1. ~(j <= z)
          BY <2>3, <3>1
        <5> QED BY <2>2, <5>1
      <4> QED BY <1>1, <3>1, <4>1
    <3> DEFINE a == Erased(s, i, z)
               b == Erased(s, k, j)
               d == Erased(s, i, j)
    <3>5. /\ a \in Nat /\ b \in Nat /\ d \in Nat /\ d = a + b
          /\ 2 * a = z - i /\ 2 * d # j - i /\ 2 * d <= j - i
      <4> HIDE DEF n
      <4> QED BY <2>3, <3>2, <3>3, <3>4
    <3>6. 2 * b <= j - k
      <4> HIDE DEF n, a, b, d
      <4> QED BY <1>0, <2>3, <3>1, <3>5
    <3> QED BY <3>6
  <2>9. k \in Stays(s)
    <3>1. k \in DOMAIN s /\ s[k] \notin {BS, CR}
      BY <1>0, <2>5, <2>7
    <3> HIDE DEF k
    <3> QED BY <2>8, <3>1 DEF Stays
  <2> QED BY <2>5, <2>9
<1> QED BY <1>2, <1>3

(* A backspace takes back the last character that stayed.                  *)
LEMMA StaysErase ==
  ASSUME NEW s \in Seq(Keys), \A x \in 1 .. Len(s) : s[x] # CR, BS \in Keys, Stays(s) # {}
  PROVE  \E m \in Stays(s) : /\ \A j \in Stays(s) : j <= m
                             /\ Stays(Append(s, BS)) = Stays(s) \ {m}
<1> DEFINE t == Append(s, BS)
           n == Len(s)
<1>1. /\ n \in Nat /\ Stays(t) \subseteq 1 .. (n + 1)
      /\ \A i \in 1 .. n : i \in Stays(t) <=>
           i \in Stays(s) /\ 2 * (Erased(s, i, n) + (IF BS = BS THEN 1 ELSE 0)) <= n + 1 - i
      /\ n + 1 \in Stays(t) <=> BS \notin {BS, CR}
  BY StaysStep
<1>2. Stays(s) \subseteq 1 .. n /\ Stays(s) \subseteq Nat /\ \A x \in Stays(s) : x <= n
  <2>1. Stays(s) \subseteq 1 .. n /\ Stays(s) \subseteq Nat
    BY StaysFinite
  <2> HIDE DEF n
  <2> QED BY <1>1, <2>1
<1>3. \A i \in Stays(s) :
        (\E k \in Stays(s) : i < k) <=> 2 * (Erased(s, i, n) + 1) <= n + 1 - i
  BY LaterStays
<1> HIDE DEF t, n
<1>4. PICK m \in Stays(s) : \A j \in Stays(s) : j <= m
  BY <1>1, <1>2, NatMaximum
<1>5. \A i \in Stays(s) : i \in Nat
  BY <1>2
<1>6. \A i \in Stays(s) : (\E k \in Stays(s) : i < k) <=> i # m
  <2> SUFFICES ASSUME NEW i \in Stays(s) PROVE (\E k \in Stays(s) : i < k) <=> i # m
    OBVIOUS
  <2>1. i \in Nat /\ m \in Nat /\ i <= m /\ \A k \in Stays(s) : k \in Nat /\ k <= m
    BY <1>4, <1>5
  <2> QED BY <2>1
<1>7. \A i \in 1 .. n : i \in Stays(t) <=> i \in Stays(s) /\ i # m
  BY <1>1, <1>2, <1>3, <1>6
<1>8. \A i \in 1 .. (n + 1) : i \in 1 .. n \/ i = n + 1
  BY <1>1
<1>9. n + 1 \notin Stays(t)
  BY <1>1
<1>10. Stays(t) = Stays(s) \ {m}
  BY <1>1, <1>2, <1>7, <1>8, <1>9, Zenon
<1> QED BY <1>4, <1>10 DEF t

(* What Edited makes is a sequence of keys.                                *)
LEMMA EditedSeq ==
  ASSUME NEW s \in Seq(Keys)
  PROVE  /\ Edited(s) \in Seq(Keys) /\ Len(Edited(s)) = Cardinality(Stays(s))
         /\ Len(Edited(s)) \in Nat
         /\ \A k \in 1 .. Len(Edited(s)) :
              Edited(s)[k] = s[Nth(Stays(s), k)] /\ Nth(Stays(s), k) \in 1 .. Len(s)
<1> DEFINE n == Cardinality(Stays(s))
<1>1. /\ Stays(s) \subseteq 1 .. Len(s) /\ Stays(s) \subseteq Nat
      /\ IsFiniteSet(Stays(s)) /\ n \in Nat
  BY StaysFinite
<1>2. \A k \in 1 .. n : Nth(Stays(s), k) \in 1 .. Len(s)
  BY <1>1, NthRank
<1>3. \A k \in 1 .. n : s[Nth(Stays(s), k)] \in Keys
  BY <1>2
<1>4. Edited(s) = [k \in 1 .. n |-> s[Nth(Stays(s), k)]]
  BY DEF Edited
<1> HIDE DEF n
<1>5. Edited(s) \in [1 .. n -> Keys]
  BY <1>3, <1>4
<1>6. Edited(s) \in Seq(Keys) /\ Len(Edited(s)) = n
  BY <1>1, <1>5
<1> QED BY <1>1, <1>2, <1>4, <1>6 DEF n

(* Equal positions and equal characters there: an equal line.              *)
LEMMA EditedAppend ==
  ASSUME NEW s \in Seq(Keys), NEW c \in Keys, c \notin {BS, CR}
  PROVE  Edited(Append(s, c)) = Append(Edited(s), c)
<1> DEFINE t == Append(s, c)
           m == Len(s) + 1
           S == Stays(s)
           e == Edited(s)
           f == Edited(t)
<1>1. t \in Seq(Keys) /\ m \in Nat /\ t[m] = c /\ \A x \in 1 .. Len(s) : t[x] = s[x]
  OBVIOUS
<1>2. Stays(t) = S \cup {m}
  BY StaysAppend
<1>3. S \subseteq Nat /\ IsFiniteSet(S) /\ Cardinality(S) \in Nat /\ \A j \in S : j < m
  <2>1. S \subseteq 1 .. Len(s) /\ S \subseteq Nat /\ IsFiniteSet(S) /\ Cardinality(S) \in Nat
    BY StaysFinite
  <2>2. \A j \in 1 .. Len(s) : j < m
    OBVIOUS
  <2> QED BY <2>1, <2>2
<1>4. /\ Cardinality(Stays(t)) = Cardinality(S) + 1
      /\ \A k \in 1 .. Cardinality(S) : Nth(Stays(t), k) = Nth(S, k)
      /\ Nth(Stays(t), Cardinality(S) + 1) = m
  <2>1. m \in Nat
    BY <1>1
  <2> HIDE DEF S, m, t
  <2>2. /\ Cardinality(S \cup {m}) = Cardinality(S) + 1
        /\ \A k \in 1 .. Cardinality(S) : Nth(S \cup {m}, k) = Nth(S, k)
        /\ Nth(S \cup {m}, Cardinality(S) + 1) = m
    BY <1>3, <2>1, NthAdd
  <2> QED BY <1>2, <2>2
<1>5. /\ e \in Seq(Keys) /\ Len(e) = Cardinality(S) /\ Len(e) \in Nat
      /\ \A k \in 1 .. Len(e) : e[k] = s[Nth(S, k)] /\ Nth(S, k) \in 1 .. Len(s)
  BY EditedSeq
<1>6. /\ f \in Seq(Keys) /\ Len(f) = Len(e) + 1
      /\ \A k \in 1 .. Len(f) : f[k] = t[Nth(Stays(t), k)]
  <2>1. /\ f \in Seq(Keys) /\ Len(f) = Cardinality(Stays(t))
        /\ \A k \in 1 .. Len(f) : f[k] = t[Nth(Stays(t), k)]
    <3> HIDE DEF t
    <3> QED BY <1>1, EditedSeq
  <2> QED BY <1>4, <1>5, <2>1
<1> HIDE DEF e, f, S, t, m
<1>7. /\ Append(e, c) \in Seq(Keys) /\ Len(Append(e, c)) = Len(e) + 1
      /\ Append(e, c)[Len(e) + 1] = c
      /\ \A k \in 1 .. Len(e) : Append(e, c)[k] = e[k]
  BY <1>5
<1>8. ASSUME NEW k \in 1 .. (Len(e) + 1) PROVE f[k] = Append(e, c)[k]
  <2>1. CASE k = Len(e) + 1
    <3>1. f[k] = t[Nth(Stays(t), k)] /\ Nth(Stays(t), k) = m
      BY <1>4, <1>5, <1>6, <2>1
    <3> QED BY <1>1, <1>7, <2>1, <3>1
  <2>2. CASE k # Len(e) + 1
    <3>1. k \in 1 .. Len(e) /\ k \in 1 .. Len(f)
      BY <1>5, <1>6, <2>2
    <3>2. f[k] = t[Nth(S, k)] /\ e[k] = s[Nth(S, k)] /\ Nth(S, k) \in 1 .. Len(s)
      BY <1>4, <1>5, <1>6, <3>1
    <3> QED BY <1>1, <1>7, <3>1, <3>2
  <2> QED BY <2>1, <2>2
<1>9. f = Append(e, c)
  BY <1>6, <1>7, <1>8, SeqEqual
<1> QED BY <1>9 DEF e, f, t

(* The return key does not change the line.                                *)
LEMMA EditedReturn ==
  ASSUME NEW s \in Seq(Keys), CR \in Keys
  PROVE  Edited(Append(s, CR)) = Edited(s)
<1> DEFINE t == Append(s, CR)
<1>1. t \in Seq(Keys) /\ \A x \in 1 .. Len(s) : t[x] = s[x]
  OBVIOUS
<1>2. Stays(t) = Stays(s)
  <2>1. CR # BS
    BY DEF CR, BS
  <2>2. Stays(t) = Stays(s) \cup (IF CR = CR THEN {} ELSE {Len(s) + 1})
    BY <2>1, StaysAppend
  <2> QED BY <2>2
<1> HIDE DEF t
<1>3. /\ Len(Edited(s)) = Cardinality(Stays(s)) /\ Edited(s) \in Seq(Keys)
      /\ \A k \in 1 .. Len(Edited(s)) :
           Edited(s)[k] = s[Nth(Stays(s), k)] /\ Nth(Stays(s), k) \in 1 .. Len(s)
  BY EditedSeq
<1>4. /\ Len(Edited(t)) = Cardinality(Stays(t)) /\ Edited(t) \in Seq(Keys)
      /\ \A k \in 1 .. Len(Edited(t)) : Edited(t)[k] = t[Nth(Stays(t), k)]
  BY <1>1, EditedSeq
<1>5. ASSUME NEW k \in 1 .. Len(Edited(s)) PROVE Edited(t)[k] = Edited(s)[k]
  BY <1>1, <1>2, <1>3, <1>4
<1>6. Edited(t) = Edited(s)
  BY <1>2, <1>3, <1>4, <1>5, SeqEqual
<1> QED BY <1>6 DEF t

(* A backspace takes the last character from the line.                     *)
LEMMA EditedErase ==
  ASSUME NEW s \in Seq(Keys), \A x \in 1 .. Len(s) : s[x] # CR, BS \in Keys,
         Len(Edited(s)) # 0
  PROVE  Edited(Append(s, BS)) = SubSeq(Edited(s), 1, Len(Edited(s)) - 1)
<1> DEFINE t == Append(s, BS)
           e == Edited(s)
           f == Edited(t)
           S == Stays(s)
           R == Stays(t)
<1>1. t \in Seq(Keys) /\ \A x \in 1 .. Len(s) : t[x] = s[x]
  OBVIOUS
<1>2. S \subseteq Nat /\ S \subseteq 1 .. Len(s) /\ IsFiniteSet(S)
  BY StaysFinite
<1>3. /\ e \in Seq(Keys) /\ Len(e) = Cardinality(S) /\ Len(e) \in Nat
      /\ \A k \in 1 .. Len(e) : e[k] = s[Nth(S, k)] /\ Nth(S, k) \in 1 .. Len(s)
  BY EditedSeq
<1>4. S # {}
  <2>1. Cardinality(S) # 0
    BY <1>3
  <2> HIDE DEF S
  <2> QED BY <1>2, <2>1, FS_EmptySet
<1>5. PICK m \in S : (\A j \in S : j <= m) /\ R = S \ {m}
  BY <1>4, StaysErase
<1>6. /\ f \in Seq(Keys) /\ Len(f) = Cardinality(R) /\ Len(f) \in Nat
      /\ \A k \in 1 .. Len(f) : f[k] = t[Nth(R, k)]
  <2> HIDE DEF t
  <2> QED BY <1>1, EditedSeq
<1> HIDE DEF e, f, S, R, t
<1>7. /\ m \in Nat /\ R \subseteq Nat /\ IsFiniteSet(R) /\ \A j \in R : j < m
      /\ S = R \cup {m}
  <2>1. \A j \in S : j \in Nat
    BY <1>2
  <2>2. \A j \in R : j \in S /\ j # m
    BY <1>5
  <2>3. \A j \in R : j < m
    BY <1>5, <2>1, <2>2
  <2>4. IsFiniteSet(R)
    BY <1>2, <1>5, FS_RemoveElement
  <2> QED BY <1>5, <2>1, <2>3, <2>4
<1>8. /\ Cardinality(S) = Cardinality(R) + 1
      /\ \A k \in 1 .. Cardinality(R) : Nth(S, k) = Nth(R, k)
  BY <1>7, NthAdd
<1>9. Len(f) = Len(e) - 1
  BY <1>3, <1>6, <1>8
<1>10. ASSUME NEW k \in 1 .. Len(f) PROVE f[k] = e[k]
  <2>1. k \in 1 .. Len(e)
    BY <1>3, <1>6, <1>9
  <2> QED BY <1>1, <1>3, <1>6, <1>8, <2>1
<1> DEFINE g == SubSeq(e, 1, Len(e) - 1)
<1>11. g \in Seq(Keys) /\ Len(g) = Len(f) /\ \A k \in 1 .. Len(f) : g[k] = e[k]
  <2> DEFINE n == Len(f)
  <2>1. 1 \in Int /\ n \in Int /\ n >= 0 /\ \A i \in 1 .. n : e[i] \in Keys
    BY <1>3, <1>6, <1>9
  <2>2. g = SubSeq(e, 1, n)
    BY <1>9
  <2> HIDE DEF n
  <2>3. /\ g \in Seq(Keys) /\ Len(g) = (IF 1 <= n THEN n - 1 + 1 ELSE 0)
        /\ \A k \in 1 .. (n - 1 + 1) : g[k] = e[1 + k - 1]
    BY <2>1, <2>2, SubSeqProperties
  <2>4. Len(g) = n /\ n - 1 + 1 = n /\ \A k \in 1 .. n : 1 + k - 1 = k
    BY <2>1, <2>3
  <2> QED BY <2>3, <2>4 DEF n
<1> HIDE DEF g
<1>12. f = g
  BY <1>6, <1>10, <1>11, SeqEqual
<1> QED BY <1>12 DEF e, f, t, g

-----------------------------------------------------------------------------
(* The first k elements of a sequence.                                     *)
LEMMA Prefix ==
  ASSUME NEW s \in Seq(Keys), NEW k \in 0 .. Len(s)
  PROVE  /\ SubSeq(s, 1, k) \in Seq(Keys) /\ Len(SubSeq(s, 1, k)) = k
         /\ \A i \in 1 .. k : SubSeq(s, 1, k)[i] = s[i]
<1> DEFINE t == SubSeq(s, 1, k)
<1>1. 1 \in Int /\ k \in Int /\ k >= 0 /\ \A i \in 1 .. k : s[i] \in Keys
  OBVIOUS
<1>2. /\ t \in Seq(Keys) /\ Len(t) = (IF 1 <= k THEN k - 1 + 1 ELSE 0)
      /\ \A i \in 1 .. (k - 1 + 1) : t[i] = s[1 + i - 1]
  BY <1>1, SubSeqProperties
<1>3. Len(t) = k /\ k - 1 + 1 = k /\ \A i \in 1 .. k : 1 + i - 1 = i
  BY <1>1, <1>2
<1> HIDE DEF t
<1>4. t \in Seq(Keys) /\ Len(t) = k /\ \A i \in 1 .. k : t[i] = s[i]
  BY <1>2, <1>3
<1> QED BY <1>4 DEF t

(* One more element at the end, of the whole and of a part.                *)
LEMMA PrefixAppend ==
  ASSUME NEW s \in Seq(Keys), NEW c \in Keys, NEW k \in 0 .. Len(s)
  PROVE  SubSeq(Append(s, c), 1, k) = SubSeq(s, 1, k)
<1> DEFINE t == Append(s, c)
           a == SubSeq(s, 1, k)
           b == SubSeq(t, 1, k)
<1>1. t \in Seq(Keys) /\ Len(t) = Len(s) + 1 /\ \A i \in 1 .. Len(s) : t[i] = s[i]
  OBVIOUS
<1>2. k \in 0 .. Len(t) /\ \A i \in 1 .. k : i \in 1 .. Len(s)
  BY <1>1
<1>3. a \in Seq(Keys) /\ Len(a) = k /\ \A i \in 1 .. k : a[i] = s[i]
  BY Prefix
<1> HIDE DEF t
<1>4. b \in Seq(Keys) /\ Len(b) = k /\ \A i \in 1 .. k : b[i] = t[i]
  BY <1>1, <1>2, Prefix
<1> HIDE DEF a, b
<1>5. a = b
  BY <1>1, <1>2, <1>3, <1>4, SeqEqual
<1> QED BY <1>5 DEF a, b, t

(* The prefix that is one longer.                                          *)
LEMMA PrefixNext ==
  ASSUME NEW s \in Seq(Keys), NEW k \in 0 .. (Len(s) - 1)
  PROVE  SubSeq(s, 1, k + 1) = Append(SubSeq(s, 1, k), s[k + 1])
<1> DEFINE a == SubSeq(s, 1, k)
           b == SubSeq(s, 1, k + 1)
           t == Append(a, s[k + 1])
<1>0. Len(s) \in Nat /\ k \in Nat /\ k \in 0 .. Len(s) /\ k + 1 \in 0 .. Len(s) /\ s[k + 1] \in Keys
  OBVIOUS
<1>1. a \in Seq(Keys) /\ Len(a) = k /\ \A i \in 1 .. k : a[i] = s[i]
  BY <1>0, Prefix
<1>2. b \in Seq(Keys) /\ Len(b) = k + 1 /\ \A i \in 1 .. (k + 1) : b[i] = s[i]
  BY <1>0, Prefix
<1> HIDE DEF a, b
<1>3. t \in Seq(Keys) /\ Len(t) = k + 1 /\ t[k + 1] = s[k + 1] /\ \A i \in 1 .. k : t[i] = a[i]
  BY <1>0, <1>1
<1>4. ASSUME NEW i \in 1 .. (k + 1) PROVE b[i] = t[i]
  <2>1. CASE i = k + 1
    BY <1>2, <1>3, <2>1
  <2>2. CASE i # k + 1
    <3>1. i \in 1 .. k
      BY <1>0, <2>2
    <3> QED BY <1>1, <1>2, <1>3, <3>1
  <2> QED BY <2>1, <2>2
<1> HIDE DEF t
<1>5. b = t
  BY <1>2, <1>3, <1>4, SeqEqual
<1> QED BY <1>5 DEF a, b, t

(* The backspace at p of s was pressed when it could erase a character of  *)
(* the line.                                                               *)
ErasesAt(s, p) ==
  /\ \A i \in 1 .. (p - 1) : s[i] # CR
  /\ Len(Edited(SubSeq(s, 1, p - 1))) # 0
  /\ \A n \in 1 .. (p - 1) : Len(Edited(SubSeq(s, 1, n))) < MaxLine - 1

(* The strengthening of LineIsWhatWasTyped.  The ring holds the characters *)
(* typed last.  While the shell reads, no return key has been taken; when  *)
(* it has stopped, it was for a return key or a full line.  A backspace in *)
(* the ring will find a character to erase: it was pressed in this line.   *)
EditInv ==
  /\ LineInv
  /\ \A i \in 0 .. (Pending - 1) :
       buffer[(head + i) % Size] = typed[(Len(typed) - Pending) + i + 1]
  /\ LineIsWhatWasTyped
  /\ phase = "read" => \A i \in 1 .. (Len(typed) - Pending) : typed[i] # CR
  /\ phase # "read" => \/ Len(line) = MaxLine - 1
                       \/ Len(typed) - Pending >= 1 /\ typed[Len(typed) - Pending] = CR
  /\ \A p \in 1 .. Len(typed) : typed[p] = BS => ErasesAt(typed, p)

(* An empty line was typed with no key.                                    *)
LEMMA EditedEmpty == Edited(<<>>) = <<>>
<1>1. <<>> \in Seq(Keys) /\ Len(<<>>) = 0
  OBVIOUS
<1>2. Stays(<<>>) = {}
  <2>1. Stays(<<>>) \subseteq 1 .. Len(<<>>)
    BY <1>1, StaysFinite
  <2>2. 1 .. 0 = {}
    OBVIOUS
  <2> QED BY <1>1, <2>1, <2>2
<1>3. Edited(<<>>) \in Seq(Keys) /\ Len(Edited(<<>>)) = 0
  BY <1>1, <1>2, EditedSeq, FS_EmptySet
<1> QED BY <1>3

(* One more key changes nothing for the backspaces before it.              *)
LEMMA ErasesAtAppend ==
  ASSUME NEW s \in Seq(Keys), NEW c \in Keys, NEW p \in 1 .. Len(s), ErasesAt(s, p)
  PROVE  ErasesAt(Append(s, c), p)
<1> DEFINE t == Append(s, c)
<1>1. Len(s) \in Nat /\ \A i \in 1 .. Len(s) : t[i] = s[i]
  OBVIOUS
<1>2. \A n \in 0 .. Len(s) : SubSeq(t, 1, n) = SubSeq(s, 1, n)
  BY PrefixAppend
<1>3. p - 1 \in 0 .. Len(s) /\ \A i \in 1 .. (p - 1) : i \in 1 .. Len(s) /\ i \in 0 .. Len(s)
  BY <1>1
<1> HIDE DEF t
<1>4. ErasesAt(t, p)
  BY <1>1, <1>2, <1>3 DEF ErasesAt
<1> QED BY <1>4 DEF t

(* The interrupt keeps the strengthened invariant.                         *)
LEMMA InterruptEdit ==
  ASSUME MaxPending <= Size, ~EraseEmpty, EditInv, NEW sc \in Scancodes,
         classic_keyboard_interrupt_handler(sc)
  PROVE  EditInv'
<1>0. /\ LineInv /\ LineInv' /\ RingInv /\ typed \in Seq(Keys)
      /\ Pending <= Len(typed) /\ Pending \in Nat
  BY InterruptStep, QueueArguments DEF EditInv, LineInv
<1>1. caps' \in BOOLEAN /\ UNCHANGED <<phase, line>>
  BY DEF classic_keyboard_interrupt_handler, shell, LineInv, EditInv
<1>2. PICK c \in classic_keyboard_scancode_to_char(sc, caps') :
        \/ UNCHANGED <<vars, typed>>
        \/ /\ c \notin {SWITCH, NUL} /\ keyboard_push(c) /\ typed' = Append(typed, c)
           /\ c = BS => CanErase
  BY DEF classic_keyboard_interrupt_handler
<1>3. c \in Keys \cup {NUL, SWITCH}
  BY <1>1, KeysAssumption
<1>4. CASE UNCHANGED <<vars, typed>>
  <2>1. UNCHANGED <<Pending, head, buffer, typed, phase, line>>
    BY <1>1, <1>4 DEF vars, Pending
  <2> QED BY <1>0, <2>1 DEF EditInv, LineIsWhatWasTyped, Taken
<1>5. CASE /\ c \notin {SWITCH, NUL} /\ keyboard_push(c) /\ typed' = Append(typed, c)
           /\ c = BS => CanErase
  <2> DEFINE n == Len(typed)
             k == n - Pending
  <2>1. c \in Keys
    BY <1>3, <1>5
  <2>2. /\ Pending' = Pending + 1 /\ head' = head /\ Pending < Size
        /\ buffer'[(head + Pending) % Size] = c
        /\ \A i \in Cells : i # Pending => buffer'[(head + i) % Size] = buffer[(head + i) % Size]
    <3>1. /\ Pending' = Pending + 1 /\ head' = head /\ RingInv'
          /\ buffer'[(head + Pending) % Size] = c
          /\ \A i \in Cells : i # Pending => buffer'[(head + i) % Size] = buffer[(head + i) % Size]
      BY <1>0, <1>5, <2>1, PushStep
    <3> QED BY <1>0, <3>1, RingConstants DEF RingInv
  <2>3. /\ n \in Nat /\ k \in 0 .. n /\ Len(typed') = n + 1 /\ typed' \in Seq(Keys)
        /\ typed'[n + 1] = c /\ \A i \in 1 .. n : typed'[i] = typed[i]
    BY <1>0, <1>5, <2>1
  <2>4. Len(typed') - Pending' = k
    BY <1>0, <2>2, <2>3
  <2>5. Taken' = Taken
    BY <1>0, <1>5, <2>1, <2>3, <2>4, PrefixAppend DEF Taken
  <2>6. ASSUME NEW i \in 0 .. (Pending' - 1)
        PROVE  buffer'[(head' + i) % Size] = typed'[(Len(typed') - Pending') + i + 1]
    <3>1. i \in Cells /\ k + i + 1 \in 1 .. (n + 1)
      BY <1>0, <2>2, <2>3, RingConstants DEF Cells
    <3>2. CASE i = Pending
      <4>1. k + i + 1 = n + 1
        BY <1>0, <2>3, <3>2
      <4> QED BY <2>2, <2>3, <2>4, <3>2, <4>1
    <3>3. CASE i # Pending
      <4>1. i \in 0 .. (Pending - 1) /\ k + i + 1 \in 1 .. n
        BY <1>0, <2>2, <2>3, <3>3
      <4>2. buffer[(head + i) % Size] = typed[k + i + 1]
        BY <4>1 DEF EditInv
      <4> QED BY <2>2, <2>3, <2>4, <3>1, <3>3, <4>1, <4>2
    <3> QED BY <3>2, <3>3
  <2>7. \A i \in 1 .. k : i \in 1 .. n /\ typed'[i] = typed[i]
    BY <2>3
  <2>8. ASSUME NEW p \in 1 .. Len(typed'), typed'[p] = BS PROVE ErasesAt(typed', p)
    <3>1. CASE p = n + 1
      <4>1. c = BS /\ p - 1 = n /\ DOMAIN typed = 1 .. n
        BY <2>3, <2>8, <3>1
      <4>2. /\ ~\E i \in DOMAIN typed : typed[i] = CR
            /\ Edited(typed) # <<>>
            /\ \A i \in DOMAIN typed : Len(Edited(SubSeq(typed, 1, i))) < MaxLine - 1
        BY <1>5, <4>1 DEF CanErase
      <4>3. SubSeq(typed, 1, n) = typed
        <5>1. n \in 0 .. Len(typed)
          BY <2>3
        <5>2. /\ SubSeq(typed, 1, n) \in Seq(Keys) /\ Len(SubSeq(typed, 1, n)) = n
              /\ \A i \in 1 .. n : SubSeq(typed, 1, n)[i] = typed[i]
          BY <1>0, <5>1, Prefix
        <5> QED BY <1>0, <5>2, SeqEqual
      <4>4. Len(Edited(typed)) # 0
        <5>1. Edited(typed) \in Seq(Keys)
          BY <1>0, EditedSeq
        <5> QED BY <4>2, <5>1
      <4>5. \A i \in 0 .. n : SubSeq(typed', 1, i) = SubSeq(typed, 1, i)
        BY <1>0, <1>5, <2>1, PrefixAppend
      <4>6. n \in 0 .. n /\ \A i \in 1 .. n : i \in 0 .. n
        BY <2>3
      <4> HIDE DEF n
      <4> QED BY <2>3, <4>1, <4>2, <4>3, <4>4, <4>5, <4>6 DEF ErasesAt
    <3>2. CASE p # n + 1
      <4>1. p \in 1 .. n /\ typed[p] = BS
        BY <2>3, <2>8, <3>2
      <4>2. ErasesAt(typed, p)
        BY <4>1 DEF EditInv
      <4> QED BY <1>0, <1>5, <2>1, <4>1, <4>2, ErasesAtAppend
    <3> QED BY <3>1, <3>2
  <2>9. LineIsWhatWasTyped'
    BY <1>1, <2>5 DEF EditInv, LineIsWhatWasTyped
  <2>10. phase' = "read" => \A i \in 1 .. (Len(typed') - Pending') : typed'[i] # CR
    BY <1>1, <2>4, <2>7 DEF EditInv
  <2>11. phase' # "read" => \/ Len(line') = MaxLine - 1
                            \/ /\ Len(typed') - Pending' >= 1
                               /\ typed'[Len(typed') - Pending'] = CR
    <3>1. k >= 1 => k \in 1 .. k
      BY <2>3
    <3>2. phase # "read" => Len(line) = MaxLine - 1 \/ (k >= 1 /\ typed[k] = CR)
      BY DEF EditInv
    <3> HIDE DEF k
    <3> QED BY <1>1, <2>4, <2>7, <3>1, <3>2
  <2> QED BY <1>0, <2>6, <2>8, <2>9, <2>10, <2>11 DEF EditInv
<1> QED BY <1>2, <1>4, <1>5

(* One turn of peachos_terminal_readline keeps the strengthened invariant: *)
(* what it does with a key is what Edited makes of it.                     *)
LEMMA ReadlineEdit ==
  ASSUME MaxPending <= Size, EditInv, peachos_terminal_readline
  PROVE  EditInv'
<1> DEFINE n == Len(typed)
           k == n - Pending
<1>0. /\ LineInv /\ LineInv' /\ RingInv /\ keyboard_pop /\ typed \in Seq(Keys)
      /\ Pending <= n /\ Pending \in Nat /\ n \in Nat /\ k \in 0 .. n /\ k \in Nat
      /\ line \in Seq(Keys) /\ head \in Int /\ MaxLine \in Nat /\ MaxPending \in Nat
  <2>1. LineInv /\ LineInv' /\ RingInv /\ keyboard_pop /\ typed \in Seq(Keys) /\ Pending <= n
        /\ line \in Seq(Keys)
    BY ReadlineStep DEF EditInv, LineInv
  <2>2. Pending \in Nat /\ n \in Nat /\ head \in Int
    BY <2>1, QueueArguments
  <2> QED BY <2>1, <2>2, RingConstants, CommandLineAssumption
<1>1. /\ phase = "read" /\ typed' = typed
      /\ \/ got' = NUL /\ UNCHANGED <<line, phase>>
         \/ got' = CR /\ phase' = "parse" /\ UNCHANGED line
         \/ got' \notin {NUL, CR} /\ Store(got')
  BY DEF peachos_terminal_readline
<1>2. /\ line = Edited(Taken) /\ \A i \in 1 .. k : typed[i] # CR
      /\ \A p \in 1 .. n : typed[p] = BS => ErasesAt(typed, p)
      /\ \A i \in 0 .. (Pending - 1) : buffer[(head + i) % Size] = typed[k + i + 1]
  BY <1>1 DEF EditInv, LineIsWhatWasTyped
<1>3. CR # NUL
  BY CommandLineAssumption DEF CR
<1>4. CASE Pending = 0
  <2>1. got' = NUL /\ UNCHANGED <<buffer, head, tail>>
    BY <1>0, <1>4, PopStep
  <2>2. UNCHANGED <<line, phase, Pending, typed, buffer, head>>
    BY <1>1, <1>3, <2>1 DEF Pending
  <2> QED BY <1>0, <2>2 DEF EditInv, LineIsWhatWasTyped, Taken
<1>5. CASE Pending # 0
  <2> DEFINE c == typed[k + 1]
  <2>1. /\ got' \in Keys /\ Pending' = Pending - 1 /\ head' = (head + 1) % Width
        /\ got' = buffer[head % Size]
        /\ \A i \in 1 .. (Size - 1) : buffer'[(head + i) % Size] = buffer[(head + i) % Size]
    <3>1. Pending > 0
      BY <1>0, <1>5
    <3> QED BY <1>0, <3>1, PopStep
  <2>2. got' = c /\ c \in Keys
    <3>1. 0 \in 0 .. (Pending - 1) /\ head + 0 = head /\ k + 0 + 1 = k + 1
      BY <1>0, <1>5
    <3>2. buffer[(head + 0) % Size] = typed[k + 0 + 1]
      BY <1>2, <3>1
    <3> HIDE DEF k
    <3> QED BY <2>1, <3>1, <3>2
  <2>3. Len(typed') - Pending' = k + 1 /\ k \in 0 .. (n - 1) /\ k + 1 \in 1 .. n
    BY <1>0, <1>1, <1>5, <2>1
  <2>4. /\ Taken' = Append(Taken, c) /\ Taken \in Seq(Keys) /\ Len(Taken) = k
        /\ \A i \in 1 .. k : Taken[i] = typed[i]
    <3>1. Taken' = SubSeq(typed, 1, k + 1) /\ Taken = SubSeq(typed, 1, k)
      BY <1>1, <2>3 DEF Taken
    <3> HIDE DEF k
    <3> QED BY <1>0, <2>3, <3>1, Prefix, PrefixNext
  <2>5. ASSUME NEW i \in 0 .. (Pending' - 1)
        PROVE  buffer'[(head' + i) % Size] = typed'[(Len(typed') - Pending') + i + 1]
    <3>1. /\ i \in Int /\ i + 1 \in 1 .. (Size - 1) /\ i + 1 \in 0 .. (Pending - 1)
          /\ (k + 1) + i + 1 = k + (i + 1) + 1
      BY <1>0, <2>1, RingConstants DEF RingInv
    <3>2. (head' + i) % Size = (head + (i + 1)) % Size
      BY <1>0, <2>1, <3>1, NextCell
    <3>3. buffer'[(head + (i + 1)) % Size] = buffer[(head + (i + 1)) % Size]
      BY <2>1, <3>1
    <3>4. buffer[(head + (i + 1)) % Size] = typed[k + (i + 1) + 1]
      BY <1>2, <3>1
    <3> HIDE DEF k
    <3> QED BY <1>1, <2>3, <3>1, <3>2, <3>3, <3>4
  <2>6. got' # NUL
    BY <2>1, RingConstants
  <2>7. CASE c = CR
    <3>1. phase' = "parse" /\ line' = line
      BY <1>1, <2>2, <2>6, <2>7
    <3>2. Edited(Append(Taken, c)) = Edited(Taken)
      BY <2>2, <2>4, <2>7, EditedReturn
    <3>3. LineIsWhatWasTyped'
      BY <1>2, <2>4, <3>1, <3>2 DEF LineIsWhatWasTyped
    <3>4. Len(typed') - Pending' >= 1 /\ typed'[Len(typed') - Pending'] = CR
      <4>1. k + 1 >= 1
        BY <1>0
      <4> QED BY <1>1, <2>3, <2>7, <4>1
    <3> QED BY <1>0, <1>1, <1>2, <2>5, <3>1, <3>3, <3>4 DEF EditInv
  <2>8. CASE c # CR
    <3>1. Store(c)
      BY <1>1, <2>2, <2>6, <2>8
    <3>2. \A i \in 1 .. (k + 1) : typed[i] # CR
      <4>1. \A i \in 1 .. (k + 1) : i \in 1 .. k \/ i = k + 1
        BY <1>0
      <4> QED BY <1>2, <2>8, <4>1
    <3>3. line' = Edited(Append(Taken, c)) /\ (phase' # "read" => Len(line') = MaxLine - 1)
      <4>1. CASE c = BS
        <5>1. ErasesAt(typed, k + 1)
          BY <1>2, <2>3, <4>1
        <5>2. (k + 1) - 1 = k
          BY <1>0
        <5>3. Len(Edited(Taken)) # 0
          <6>1. Taken = SubSeq(typed, 1, k)
            BY DEF Taken
          <6> HIDE DEF k
          <6> QED BY <5>1, <5>2, <6>1 DEF ErasesAt
        <5>4. Len(line) >= 1
          BY <1>0, <1>2, <5>3
        <5>5. line' = SubSeq(line, 1, Len(line) - 1) /\ phase' = phase
          BY <3>1, <4>1, <5>4 DEF Store
        <5>6. \A x \in 1 .. Len(Taken) : Taken[x] # CR
          BY <1>2, <2>4
        <5>7. Edited(Append(Taken, BS)) = SubSeq(Edited(Taken), 1, Len(Edited(Taken)) - 1)
          BY <2>2, <2>4, <4>1, <5>3, <5>6, EditedErase
        <5> QED BY <1>1, <1>2, <4>1, <5>5, <5>7
      <4>2. CASE c # BS
        <5>1. /\ line' = Append(line, c)
              /\ phase' = IF Len(line') < MaxLine - 1 THEN "read" ELSE "parse"
          BY <3>1, <4>2 DEF Store
        <5>2. Edited(Append(Taken, c)) = Append(Edited(Taken), c)
          BY <2>2, <2>4, <2>8, <4>2, EditedAppend
        <5>3. phase' # "read" => Len(line') = MaxLine - 1
          <6>1. Len(line') <= MaxLine - 1 /\ line' \in Seq(Keys)
            BY <1>0 DEF LineInv
          <6>2. Len(line') \in Nat
            BY <6>1
          <6> QED BY <1>0, <5>1, <6>1, <6>2
        <5> QED BY <1>2, <5>1, <5>2, <5>3
      <4> QED BY <4>1, <4>2
    <3>4. LineIsWhatWasTyped'
      BY <2>4, <3>3 DEF LineIsWhatWasTyped
    <3>5. \A i \in 1 .. (Len(typed') - Pending') : typed'[i] # CR
      BY <1>1, <2>3, <3>2
    <3> QED BY <1>0, <1>1, <1>2, <2>5, <3>3, <3>4, <3>5 DEF EditInv
  <2> QED BY <2>7, <2>8
<1> QED BY <1>4, <1>5

(* Running a line leaves it alone.                                         *)
LEMMA ParseEdit ==
  ASSUME EditInv, Parse
  PROVE  EditInv'
<1>1. LineInv' /\ UNCHANGED vars
  BY ParseStep DEF EditInv
<1>2. UNCHANGED <<line, typed>> /\ phase = "parse" /\ phase' = "ran"
  BY DEF Parse, parsenexec, parsenexec_Stale
<1>3. UNCHANGED <<buffer, head, Pending>>
  BY <1>1 DEF vars, Pending
<1> QED BY <1>1, <1>2, <1>3 DEF EditInv, LineIsWhatWasTyped, Taken

(* The next line begins with the characters that are still in the ring. No *)
(* backspace is among them: it would have been pressed for the line before *)
(* after that line had ended.                                              *)
LEMMA PromptEdit ==
  ASSUME MaxPending <= Size, EditInv, Prompt
  PROVE  EditInv'
<1> DEFINE n == Len(typed)
           k == n - Pending
<1>0. /\ LineInv /\ LineInv' /\ typed \in Seq(Keys) /\ Pending <= n /\ Pending \in Nat
      /\ n \in Nat /\ k \in 0 .. n /\ k \in Nat /\ MaxLine \in Nat /\ MaxLine >= 2
      /\ line = Edited(Taken)
  <2>1. LineInv /\ LineInv' /\ RingInv /\ typed \in Seq(Keys) /\ Pending <= n
    BY PromptStep DEF EditInv, LineInv
  <2>2. Pending \in Nat /\ n \in Nat
    BY <2>1, QueueArguments
  <2> QED BY <2>1, <2>2, CommandLineAssumption DEF EditInv, LineIsWhatWasTyped
<1>1. /\ phase = "ran" /\ phase' = "read" /\ line' = <<>> /\ UNCHANGED vars
      /\ typed' = SubSeq(typed, k + 1, n)
  BY PromptStep DEF Prompt, EditInv
<1>2. UNCHANGED <<buffer, head, Pending>>
  BY <1>1 DEF vars, Pending
<1>3. /\ typed' \in Seq(Keys) /\ Len(typed') = Pending
      /\ \A i \in 1 .. Pending : typed'[i] = typed[k + i] /\ k + i \in 1 .. n
  <2>1. k + 1 \in Int /\ n \in Int /\ \A i \in (k + 1) .. n : typed[i] \in Keys
    BY <1>0
  <2>2. /\ typed' \in Seq(Keys)
        /\ Len(typed') = IF k + 1 <= n THEN n - (k + 1) + 1 ELSE 0
        /\ \A i \in 1 .. (n - (k + 1) + 1) : typed'[i] = typed[(k + 1) + i - 1]
    <3> DEFINE m == k + 1
    <3>1. m \in Int /\ (\A i \in m .. n : typed[i] \in Keys) /\ typed' = SubSeq(typed, m, n)
      BY <1>1, <2>1
    <3> HIDE DEF m, n
    <3>2. /\ typed' \in Seq(Keys)
          /\ Len(typed') = IF m <= n THEN n - m + 1 ELSE 0
          /\ \A i \in 1 .. (n - m + 1) : typed'[i] = typed[m + i - 1]
      BY <2>1, <3>1, SubSeqProperties
    <3> QED BY <3>2 DEF m
  <2>3. n - (k + 1) + 1 = Pending /\ (k + 1 <= n <=> Pending # 0)
    BY <1>0
  <2>4. \A i \in 1 .. Pending : (k + 1) + i - 1 = k + i /\ k + i \in 1 .. n
    BY <1>0
  <2> HIDE DEF n, k
  <2> QED BY <1>0, <2>2, <2>3, <2>4
<1>4. Len(typed') - Pending' = 0
  BY <1>0, <1>2, <1>3
<1>5. Taken' = <<>>
  <2>1. Taken' = SubSeq(typed', 1, 0)
    BY <1>4 DEF Taken
  <2> QED BY <2>1, SubSeqEmpty
<1>6. ASSUME NEW p \in 1 .. Len(typed') PROVE typed'[p] # BS
  <2> SUFFICES ASSUME typed'[p] = BS PROVE FALSE
    OBVIOUS
  <2>1. k + p \in 1 .. n /\ typed[k + p] = BS
    BY <1>3
  <2>2. ErasesAt(typed, k + p)
    BY <2>1 DEF EditInv
  <2>3. k >= 1 => k \in 1 .. (k + p - 1)
    BY <1>0, <1>3
  <2>4. Len(line) = MaxLine - 1 \/ (k >= 1 /\ typed[k] = CR)
    BY <1>1 DEF EditInv
  <2>5. CASE k >= 1 /\ typed[k] = CR
    BY <2>2, <2>3, <2>5 DEF ErasesAt
  <2>6. CASE Len(line) = MaxLine - 1
    <3>1. Taken = SubSeq(typed, 1, k)
      BY DEF Taken
    <3>2. k # 0
      <4> SUFFICES ASSUME k = 0 PROVE FALSE
        OBVIOUS
      <4>1. Taken = <<>>
        BY <3>1, SubSeqEmpty
      <4>2. line = <<>>
        BY <1>0, <4>1, EditedEmpty
      <4> QED BY <1>0, <2>6, <4>2
    <3>3. Len(Edited(SubSeq(typed, 1, k))) < MaxLine - 1
      <4>1. k \in 1 .. (k + p - 1)
        BY <1>0, <2>3, <3>2
      <4> HIDE DEF k
      <4> QED BY <2>2, <4>1 DEF ErasesAt
    <3>4. MaxLine - 1 < MaxLine - 1
      BY <1>0, <2>6, <3>1, <3>3
    <3> QED BY <1>0, <3>4
  <2> QED BY <2>4, <2>5, <2>6
<1>7. ASSUME NEW i \in 0 .. (Pending' - 1)
      PROVE  buffer'[(head' + i) % Size] = typed'[(Len(typed') - Pending') + i + 1]
  <2>1. i \in 0 .. (Pending - 1) /\ i + 1 \in 1 .. Pending /\ 0 + i + 1 = i + 1
        /\ k + i + 1 = k + (i + 1)
    BY <1>0, <1>2
  <2>2. buffer[(head + i) % Size] = typed[k + i + 1]
    BY <2>1 DEF EditInv
  <2>3. typed'[i + 1] = typed[k + (i + 1)]
    BY <1>3, <2>1
  <2> HIDE DEF k
  <2> QED BY <1>2, <1>4, <2>1, <2>2, <2>3
<1>8. LineIsWhatWasTyped'
  BY <1>1, <1>5, EditedEmpty DEF LineIsWhatWasTyped
<1>9. \A i \in 1 .. (Len(typed') - Pending') : typed'[i] # CR
  BY <1>4
<1> QED BY <1>0, <1>1, <1>6, <1>7, <1>8, <1>9 DEF EditInv

(* Every step keeps the strengthened invariant.                            *)
LEMMA NextEdit ==
  ASSUME MaxPending <= Size, ~EraseEmpty, EditInv, [CNext]_cvars
  PROVE  EditInv'
<1>1. CASE UNCHANGED cvars
  <2>1. UNCHANGED <<buffer, head, Pending, phase, line, typed>>
    BY <1>1 DEF cvars, vars, Pending
  <2>2. LineInv'
    BY <1>1, NextLine DEF EditInv
  <2> QED BY <2>1, <2>2 DEF EditInv, LineIsWhatWasTyped, Taken
<1> QED BY <1>1, InterruptEdit, ReadlineEdit, ParseEdit, PromptEdit DEF CNext

(* Nothing typed, nothing taken, an empty line.                            *)
LEMMA InitEdit == CInit => EditInv
<1> SUFFICES ASSUME CInit PROVE EditInv
  OBVIOUS
<1>1. LineInv
  BY InitLine
<1>2. Pending = 0
  <2>1. tail - head = 0
    BY DEF CInit, Init
  <2> QED BY <2>1, ModSmall, RingConstants DEF Pending
<1>3. typed = <<>> /\ Len(typed) = 0 /\ line = <<>> /\ phase = "read"
  BY DEF CInit
<1>4. Taken = <<>>
  <2>1. Taken = SubSeq(typed, 1, 0)
    BY <1>2, <1>3 DEF Taken
  <2> QED BY <2>1, SubSeqEmpty
<1>5. LineIsWhatWasTyped
  BY <1>3, <1>4, EditedEmpty DEF LineIsWhatWasTyped
<1> QED BY <1>1, <1>2, <1>3, <1>5 DEF EditInv

(* The line the shell runs is what the user typed, with the corrections    *)
(* made, however the interrupts fall between the shell's system calls, for *)
(* every size of ring and line, provided that the user is never more keys  *)
(* ahead than the ring holds and erases only what the line has.            *)
THEOREM CommandLineIsWhatWasTyped ==
  ASSUME MaxPending <= Size, ~EraseEmpty
  PROVE  CSpec => []LineIsWhatWasTyped
<1>1. EditInv => LineIsWhatWasTyped
  BY DEF EditInv
<1> QED BY <1>1, InitEdit, NextEdit, PTL DEF CSpec

-----------------------------------------------------------------------------
(* The positions strtok is called with: the start of the string, its end,  *)
(* or just behind a space.                                                 *)
Boundary(s, at) ==
  at = 1 \/ at = Len(s) + 1 \/ (at \in 2 .. Len(s) /\ s[at - 1] = SPACE)

(* The length of a word is the distance to the next space or the end.      *)
LEMMA WordLengthIs ==
  ASSUME NEW s \in Seq(Keys), NEW i \in 1 .. Len(s), NEW e \in (i + 1) .. (Len(s) + 1),
         \A k \in i .. (e - 1) : s[k] # SPACE, e <= Len(s) => s[e] = SPACE
  PROVE  WordLength(s, i) = e - i
<1> DEFINE n == Len(s)
           Is(l) == /\ \A k \in i .. (i + l - 1) : k <= n /\ s[k] # SPACE
                    /\ i + l <= n => s[i + l] = SPACE
<1>0. n \in Nat /\ i \in Nat /\ e \in Nat /\ i >= 1 /\ i < e /\ e <= n + 1
  OBVIOUS
<1>1. e - i \in 1 .. n /\ Is(e - i)
  <2>1. e - i \in 1 .. n /\ i + (e - i) = e /\ i + (e - i) - 1 = e - 1
    BY <1>0
  <2>2. \A k \in i .. (e - 1) : k <= n
    BY <1>0
  <2> QED BY <2>1, <2>2
<1>2. ASSUME NEW l \in 1 .. n, Is(l) PROVE l = e - i
  <2>1. ~(l < e - i)
    <3> SUFFICES ASSUME l < e - i PROVE FALSE
      OBVIOUS
    <3>1. i + l \in i .. (e - 1) /\ i + l <= n
      BY <1>0
    <3> QED BY <1>2, <3>1
  <2>2. ~(l > e - i)
    <3> SUFFICES ASSUME l > e - i PROVE FALSE
      OBVIOUS
    <3>1. e \in i .. (i + l - 1)
      BY <1>0
    <3>2. e <= n /\ s[e] # SPACE
      BY <1>2, <3>1
    <3> QED BY <3>2
  <2> QED BY <1>0, <2>1, <2>2
<1>3. WordLength(s, i) = CHOOSE l \in 1 .. n : Is(l)
  BY DEF WordLength
<1> HIDE DEF Is
<1> QED BY <1>1, <1>2, <1>3

(* strtok called at a boundary returns the next word of the string and     *)
(* leaves sp at a boundary before the word after it.                       *)
LEMMA strtokWord ==
  ASSUME NEW s \in Seq(Keys), NEW at \in 1 .. (Len(s) + 1), Boundary(s, at)
  PROVE  LET later == {i \in Starts(s) : i >= at}
             r == strtok(s, at)
         IN
         /\ later = {} => r = [token |-> <<>>, sp |-> 0]
         /\ later # {} =>
              \E b \in later :
                /\ \A j \in later : b <= j
                /\ r.token = SubSeq(s, b, b + WordLength(s, b) - 1) /\ r.token # <<>>
                /\ r.sp \in (b + 1) .. (Len(s) + 1) /\ Boundary(s, r.sp)
                /\ \A j \in later : j # b => j >= r.sp
<1> DEFINE later == {i \in Starts(s) : i >= at}
           r == strtok(s, at)
           n == Len(s)
           starts == {i \in at .. n : s[i] # SPACE} \cup {n + 1}
           start == First(starts)
           ends == {i \in start .. n : s[i] = SPACE} \cup {n + 1}
           end == First(ends)
<1>0. n \in Nat /\ at \in Nat /\ at >= 1 /\ at <= n + 1 /\ DOMAIN s = 1 .. n
  OBVIOUS
<1>1. start \in starts /\ start \in Nat /\ \A j \in starts : start <= j
  <2>1. starts \subseteq Nat /\ starts # {}
    BY <1>0
  <2> HIDE DEF starts
  <2> QED BY <2>1, FirstIsLeast
<1>2. end \in ends /\ end \in Nat /\ \A j \in ends : end <= j
  <2> HIDE DEF start
  <2>1. ends \subseteq Nat /\ ends # {}
    BY <1>0, <1>1
  <2> HIDE DEF ends
  <2> QED BY <2>1, FirstIsLeast
<1>3. r = IF at = 0 \/ start > n THEN [token |-> <<>>, sp |-> 0]
          ELSE [token |-> SubSeq(s, start, end - 1),
                sp |-> IF end <= n THEN end + 1 ELSE end]
  BY DEF strtok
<1> HIDE DEF start, end, r
<1>4. ASSUME NEW i \in later PROVE i \in at .. n /\ i \in 1 .. n /\ s[i] # SPACE /\ start <= i
  <2>1. i \in at .. n /\ i \in 1 .. n /\ s[i] # SPACE
    BY <1>0 DEF Starts
  <2> QED BY <1>1, <2>1
<1> SUFFICES /\ later = {} => r = [token |-> <<>>, sp |-> 0]
             /\ later # {} =>
                  \E b \in later :
                    /\ \A j \in later : b <= j
                    /\ r.token = SubSeq(s, b, b + WordLength(s, b) - 1) /\ r.token # <<>>
                    /\ r.sp \in (b + 1) .. (Len(s) + 1) /\ Boundary(s, r.sp)
                    /\ \A j \in later : j # b => j >= r.sp
  BY DEF r
<1>5. CASE start > n
  <2>1. later = {}
    <3> SUFFICES ASSUME NEW i \in later PROVE FALSE
      OBVIOUS
    <3> QED BY <1>0, <1>1, <1>4, <1>5
  <2> QED BY <1>3, <1>5, <2>1
<1>6. CASE ~(start > n)
  <2>1. start \in at .. n /\ start \in 1 .. n /\ s[start] # SPACE
    BY <1>0, <1>1, <1>6
  <2>2. start = 1 \/ s[start - 1] = SPACE
    <3>1. CASE start = at
      BY <1>0, <2>1, <3>1 DEF Boundary
    <3>2. CASE start # at
      <4>1. start - 1 \in at .. n /\ ~(start <= start - 1)
        BY <1>0, <2>1, <3>2
      <4> QED BY <1>1, <4>1
    <3> QED BY <3>1, <3>2
  <2>3. start \in later
    BY <1>0, <2>1, <2>2 DEF Starts
  <2>4. end \in (start + 1) .. (n + 1) /\ (end <= n => s[end] = SPACE)
    BY <1>0, <1>2, <2>1
  <2>5. \A k \in start .. (end - 1) : s[k] # SPACE
    <3> SUFFICES ASSUME NEW k \in start .. (end - 1), s[k] = SPACE PROVE FALSE
      OBVIOUS
    <3>1. k \in start .. n /\ ~(end <= k)
      BY <1>0, <2>1, <2>4
    <3> QED BY <1>2, <3>1
  <2>6. WordLength(s, start) = end - start
    BY <2>1, <2>4, <2>5, WordLengthIs
  <2>7. r = [token |-> SubSeq(s, start, end - 1), sp |-> IF end <= n THEN end + 1 ELSE end]
    BY <1>0, <1>3, <1>6
  <2>8. r.token = SubSeq(s, start, start + WordLength(s, start) - 1)
    <3>1. start + WordLength(s, start) - 1 = end - 1
      BY <2>1, <2>4, <2>6
    <3>2. r.token = SubSeq(s, start, end - 1)
      BY <2>7
    <3> HIDE DEF r, n
    <3> QED BY <3>1, <3>2
  <2>9. r.token # <<>>
    <3>1. start \in Int /\ end - 1 \in Int /\ start <= end - 1
          /\ \A i \in start .. (end - 1) : s[i] \in Keys
      BY <1>0, <2>1, <2>4
    <3>2. Len(SubSeq(s, start, end - 1)) = (end - 1) - start + 1
      BY <3>1, SubSeqProperties
    <3>3. Len(r.token) # 0
      BY <2>7, <3>1, <3>2
    <3> QED BY <3>3
  <2>10. r.sp \in (start + 1) .. (n + 1) /\ Boundary(s, r.sp)
    <3>1. CASE end <= n
      <4>1. r.sp = end + 1 /\ (end + 1) - 1 = end
        BY <2>4, <2>7, <3>1
      <4>2. end + 1 = n + 1 \/ end + 1 \in 2 .. n
        BY <1>0, <2>1, <2>4, <3>1
      <4> QED BY <1>0, <2>1, <2>4, <3>1, <4>1, <4>2 DEF Boundary
    <3>2. CASE ~(end <= n)
      <4>1. r.sp = end /\ end = n + 1
        BY <1>0, <2>4, <2>7, <3>2
      <4> QED BY <2>4, <4>1 DEF Boundary
    <3> QED BY <3>1, <3>2
  <2>11. ASSUME NEW j \in later, j # start PROVE j >= r.sp
    <3>1. j \in 1 .. n /\ s[j] # SPACE /\ start < j
      BY <1>0, <1>4, <2>1, <2>11
    <3>2. s[j - 1] = SPACE
      BY <2>1, <3>1 DEF Starts
    <3>3. ~(j <= end)
      <4> SUFFICES ASSUME j <= end PROVE FALSE
        OBVIOUS
      <4>1. j - 1 \in start .. (end - 1)
        BY <1>0, <2>1, <2>4, <3>1
      <4> QED BY <2>5, <3>2, <4>1
    <3>4. r.sp = end + 1 \/ r.sp = end
      BY <2>7
    <3> QED BY <1>0, <2>4, <3>1, <3>3, <3>4
  <2> QED BY <1>4, <2>3, <2>8, <2>9, <2>10, <2>11
<1> QED BY <1>5, <1>6

(* The words of a line are finitely many.                                  *)
LEMMA StartsFinite ==
  ASSUME NEW s \in Seq(Keys)
  PROVE  /\ Starts(s) \subseteq 1 .. Len(s) /\ Starts(s) \subseteq Nat
         /\ IsFiniteSet(Starts(s)) /\ Cardinality(Starts(s)) \in 0 .. Len(s)
<1>1. Len(s) \in Nat /\ DOMAIN s = 1 .. Len(s)
  OBVIOUS
<1>2. Starts(s) \subseteq 1 .. Len(s)
  BY <1>1 DEF Starts
<1>3. IsFiniteSet(1 .. Len(s)) /\ Cardinality(1 .. Len(s)) = Len(s)
  BY <1>1, FS_Interval
<1>4. IsFiniteSet(Starts(s)) /\ Cardinality(Starts(s)) <= Cardinality(1 .. Len(s))
  BY <1>2, <1>3, FS_Subset
<1>5. Cardinality(Starts(s)) \in Nat
  BY <1>4, FS_CardinalityType
<1> QED BY <1>1, <1>2, <1>3, <1>4, <1>5

(* The k-th call of strtok, at a boundary with k - 1 words before it,      *)
(* returns the k-th word and leaves sp at a boundary with k words before.  *)
LEMMA strtokNth ==
  ASSUME NEW s \in Seq(Keys), NEW at \in 1 .. (Len(s) + 1), Boundary(s, at),
         NEW k \in Nat \ {0}, Cardinality({i \in Starts(s) : i < at}) = k - 1
  PROVE  LET r == strtok(s, at)
         IN
         /\ k - 1 <= Cardinality(Starts(s))
         /\ k - 1 = Cardinality(Starts(s)) => r = [token |-> <<>>, sp |-> 0]
         /\ k <= Cardinality(Starts(s)) =>
              /\ r.token # <<>>
              /\ LET b == Nth(Starts(s), k) IN r.token = SubSeq(s, b, b + WordLength(s, b) - 1)
              /\ r.sp \in 1 .. (Len(s) + 1) /\ Boundary(s, r.sp)
              /\ Cardinality({i \in Starts(s) : i < r.sp}) = k
<1> DEFINE r == strtok(s, at)
           S == Starts(s)
           early == {i \in S : i < at}
           later == {i \in S : i >= at}
<1>0. /\ S \subseteq Nat /\ IsFiniteSet(S) /\ Cardinality(S) \in Nat /\ at \in Nat
      /\ early \in SUBSET S
  <2>1. S \subseteq Nat /\ IsFiniteSet(S) /\ Cardinality(S) \in 0 .. Len(s)
    BY StartsFinite
  <2> QED BY <2>1
<1>1. \A i \in S : i \in Nat
  BY <1>0
<1>2. /\ IsFiniteSet(early) /\ Cardinality(early) <= Cardinality(S)
      /\ Cardinality(S) = Cardinality(early) => S = early
  <2> HIDE DEF early
  <2> QED BY <1>0, FS_Subset
<1>3. /\ later = {} => r = [token |-> <<>>, sp |-> 0]
      /\ later # {} =>
           \E b \in later :
             /\ \A j \in later : b <= j
             /\ r.token = SubSeq(s, b, b + WordLength(s, b) - 1) /\ r.token # <<>>
             /\ r.sp \in (b + 1) .. (Len(s) + 1) /\ Boundary(s, r.sp)
             /\ \A j \in later : j # b => j >= r.sp
  BY strtokWord
<1> HIDE DEF r
<1>4. k - 1 = Cardinality(S) => later = {}
  <2> SUFFICES ASSUME k - 1 = Cardinality(S), NEW i \in later PROVE FALSE
    OBVIOUS
  <2>1. i \in early
    BY <1>2
  <2> QED BY <1>0, <1>1, <2>1
<1>5. ASSUME k <= Cardinality(S)
      PROVE  /\ r.token # <<>>
             /\ LET b == Nth(S, k) IN r.token = SubSeq(s, b, b + WordLength(s, b) - 1)
             /\ r.sp \in 1 .. (Len(s) + 1) /\ Boundary(s, r.sp)
             /\ Cardinality({i \in S : i < r.sp}) = k
  <2>1. later # {}
    <3> SUFFICES ASSUME later = {} PROVE FALSE
      OBVIOUS
    <3>1. S = early
      BY <1>0, <1>1
    <3>2. Cardinality(S) = k - 1
      BY <3>1
    <3> QED BY <1>0, <1>5, <3>2
  <2>2. PICK b \in later :
          /\ \A j \in later : b <= j
          /\ r.token = SubSeq(s, b, b + WordLength(s, b) - 1) /\ r.token # <<>>
          /\ r.sp \in (b + 1) .. (Len(s) + 1) /\ Boundary(s, r.sp)
          /\ \A j \in later : j # b => j >= r.sp
    BY <1>3, <2>1
  <2>3. b \in S /\ b \in Nat /\ b >= at /\ b \notin early /\ Len(s) \in Nat
    BY <1>0, <1>1
  <2>4. r.sp \in 1 .. (Len(s) + 1) /\ r.sp > b /\ r.sp \in Nat
    BY <2>2, <2>3
  <2>5. \A j \in S : j \in early \/ j \in later
    BY <1>0, <1>1
  <2>6. {j \in S : j <= b} = early \cup {b}
    <3>1. \A j \in early : j \in S /\ j <= b
      BY <1>0, <1>1, <2>3
    <3>2. \A j \in later : j <= b => j = b
      BY <1>1, <2>2, <2>3
    <3>3. b <= b
      BY <2>3
    <3> HIDE DEF early, later
    <3> QED BY <2>3, <2>5, <3>1, <3>2, <3>3
  <2>7. {j \in S : j < r.sp} = early \cup {b}
    <3>1. \A j \in early : j \in S /\ j < r.sp
      BY <1>0, <1>1, <2>3, <2>4
    <3>2. \A j \in later : j < r.sp => j = b
      BY <1>1, <2>2, <2>4
    <3> HIDE DEF early, later
    <3> QED BY <2>3, <2>4, <2>5, <3>1, <3>2
  <2>8. Cardinality(early \cup {b}) = k
    <3> HIDE DEF early
    <3>1. Cardinality(early \cup {b}) = Cardinality(early) + 1
      BY <1>2, <2>3, FS_AddElement
    <3> QED BY <3>1 DEF early
  <2>9. Nth(S, k) = b
    <3>1. Rank(S, b) = k
      BY <2>6, <2>8 DEF Rank
    <3> QED BY <1>0, <2>3, <3>1, NthRank
  <2> QED BY <2>2, <2>4, <2>7, <2>8, <2>9
<1> HIDE DEF later
<1> QED BY <1>0, <1>2, <1>3, <1>4, <1>5 DEF r

(* The text of the word that starts at b.                                  *)
WordAt(s, b) == SubSeq(s, b, b + WordLength(s, b) - 1)

(* The calls of strtok in peachos_parse_command return the words of the    *)
(* line one after the other, and then null.                                *)
LEMMA TokensAreWords ==
  ASSUME NEW s \in Seq(Keys), sp = 0, NEW C, C = Cardinality(Starts(s))
  PROVE  /\ C \in 0 .. Len(s)
         /\ \A k \in 1 .. C : /\ Tokens(s)[k].token = WordAt(s, Nth(Starts(s), k))
                              /\ Tokens(s)[k].token # <<>>
         /\ Tokens(s)[C + 1] = [token |-> <<>>, sp |-> 0]
<1> DEFINE n == Len(s)
           at == [k \in 1 .. (n + 1) |-> IF k = 1 THEN 1 ELSE Tokens(s)[k - 1].sp]
           Good(k) == /\ at[k] \in 1 .. (n + 1) /\ Boundary(s, at[k])
                      /\ Cardinality({i \in Starts(s) : i < at[k]}) = k - 1
           P == {j \in Nat : j <= C => Good(j + 1)}
<1>0. n \in Nat /\ C \in 0 .. n /\ C \in Nat
  BY StartsFinite
<1>1. \A k \in 1 .. (n + 1) : Tokens(s)[k] = strtok(s, at[k])
  <2>1. sp \in Nat
    OBVIOUS
  <2>2. /\ Tokens(s)[1] = strtok(s, IF sp = 0 THEN 1 ELSE sp)
        /\ \A k \in 2 .. (n + 1) : Tokens(s)[k] = strtok(s, Tokens(s)[k - 1].sp)
    BY <2>1, TokensCalls
  <2>3. \A k \in 1 .. (n + 1) : k = 1 \/ k \in 2 .. (n + 1)
    BY <1>0
  <2> QED BY <2>2, <2>3
<1>2. \A k \in 1 .. n : at[k + 1] = Tokens(s)[k].sp
  <2> SUFFICES ASSUME NEW k \in 1 .. n PROVE at[k + 1] = Tokens(s)[k].sp
    OBVIOUS
  <2>1. k + 1 \in 1 .. (n + 1) /\ k + 1 # 1 /\ (k + 1) - 1 = k
    BY <1>0
  <2> QED BY <2>1
<1>3. Good(1)
  <2>1. at[1] = 1 /\ 1 \in 1 .. (n + 1) /\ 1 - 1 = 0
    BY <1>0
  <2>2. {i \in Starts(s) : i < 1} = {}
    <3>1. \A i \in Starts(s) : i \in 1 .. n
      BY StartsFinite
    <3> QED BY <1>0, <3>1
  <2> HIDE DEF at
  <2> QED BY <2>1, <2>2, FS_EmptySet DEF Boundary
<1> HIDE DEF at
<1>4. ASSUME NEW k \in 1 .. (C + 1), Good(k)
      PROVE  /\ k = C + 1 => Tokens(s)[k] = [token |-> <<>>, sp |-> 0]
             /\ k <= C => /\ Tokens(s)[k].token = WordAt(s, Nth(Starts(s), k))
                          /\ Tokens(s)[k].token # <<>> /\ Good(k + 1)
  <2>1. k \in Nat \ {0} /\ k \in 1 .. (n + 1) /\ (k = C + 1 => k - 1 = C) /\ (k + 1) - 1 = k
    BY <1>0
  <2> DEFINE a == at[k]
             r == strtok(s, a)
  <2>2. a \in 1 .. (n + 1) /\ Boundary(s, a) /\ Cardinality({i \in Starts(s) : i < a}) = k - 1
    BY <1>4
  <2>3. Tokens(s)[k] = r
    BY <1>1, <2>1
  <2> HIDE DEF a
  <2>4. /\ k - 1 = C => r = [token |-> <<>>, sp |-> 0]
        /\ k <= C => /\ r.token # <<>> /\ r.token = WordAt(s, Nth(Starts(s), k))
                     /\ r.sp \in 1 .. (n + 1) /\ Boundary(s, r.sp)
                     /\ Cardinality({i \in Starts(s) : i < r.sp}) = k
    <3>1. a \in 1 .. (Len(s) + 1)
      BY <2>2
    <3>2. /\ k - 1 = Cardinality(Starts(s)) => r = [token |-> <<>>, sp |-> 0]
          /\ k <= Cardinality(Starts(s)) =>
               /\ r.token # <<>> /\ r.sp \in 1 .. (Len(s) + 1) /\ Boundary(s, r.sp)
               /\ Cardinality({i \in Starts(s) : i < r.sp}) = k
               /\ r.token = SubSeq(s, Nth(Starts(s), k),
                                   Nth(Starts(s), k) + WordLength(s, Nth(Starts(s), k)) - 1)
      <4>1. k \in Nat \ {0} /\ Boundary(s, a) /\ Cardinality({i \in Starts(s) : i < a}) = k - 1
        BY <2>1, <2>2
      <4> HIDE DEF n
      <4> QED BY <3>1, <4>1, strtokNth, ZenonT(60)
    <3> QED BY <3>2, Zenon DEF WordAt
  <2> HIDE DEF r
  <2>5. k <= C => at[k + 1] = r.sp
    <3>1. k <= C => k \in 1 .. n
      BY <1>0, <2>1
    <3> QED BY <1>2, <2>3, <3>1
  <2> HIDE DEF n
  <2> QED BY <2>1, <2>3, <2>4, <2>5
<1>5. Nat \subseteq P
  <2>1. 0 \in P
    BY <1>3
  <2>2. ASSUME NEW j \in Nat, j \in P PROVE j + 1 \in P
    <3> SUFFICES ASSUME j + 1 <= C PROVE Good((j + 1) + 1)
      OBVIOUS
    <3>1. j + 1 \in 1 .. (C + 1) /\ j <= C
      BY <1>0
    <3>2. Good(j + 1)
      BY <2>2, <3>1
    <3> HIDE DEF Good
    <3> QED BY <1>4, <3>1, <3>2
  <2> HIDE DEF P
  <2> QED BY <2>1, <2>2, NatInductionSet
<1>6. \A k \in 1 .. (C + 1) : Good(k)
  <2> SUFFICES ASSUME NEW k \in 1 .. (C + 1) PROVE Good(k)
    OBVIOUS
  <2>1. k - 1 \in Nat /\ k - 1 <= C /\ (k - 1) + 1 = k
    BY <1>0
  <2>2. Good((k - 1) + 1)
    BY <1>5, <2>1
  <2> HIDE DEF Good
  <2> QED BY <2>1, <2>2
<1> HIDE DEF Good
<1>7. C + 1 \in 1 .. (C + 1) /\ \A k \in 1 .. C : k \in 1 .. (C + 1) /\ k <= C
  BY <1>0
<1> QED BY <1>0, <1>4, <1>6, <1>7

(* The inductive invariant of the parser: strtok holds no position until   *)
(* memory has run out once.                                                *)
WordInv ==
  /\ LineInv
  /\ short = "never" => sp = 0
  /\ phase # "ran" => short # "now"
  /\ ArgumentsAreWords

(* A line parsed with sp at null gives its words, or the first m of them.  *)
LEMMA ParsedWords ==
  ASSUME LineInv, sp = 0, NEW n \in Nat, parsenexec(n)
  PROVE  /\ IF short' = short \/ short # "never"
              THEN short = "never" => commands' = Words(line) /\ sp' = 0
              ELSE short' = "now" /\ Len(commands') < Len(Words(line))
                   /\ commands' = SubSeq(Words(line), 1, Len(commands'))
<1> DEFINE C == Cardinality(Starts(line))
           call == Tokens(line)
           nulls == {k \in 1 .. (Len(line) + 1) : call[k].token = <<>>}
           total == First(nulls) - 1
           m == IF n < total THEN n ELSE total
           W(k) == strncpy(WordAt(line, Nth(Starts(line), k)), MaxArgument)
<1>0. line \in Seq(Keys) /\ Len(line) \in Nat
  BY DEF LineInv
<1>1. /\ commands' = [k \in 1 .. m |-> strncpy(call[k].token, MaxArgument)]
      /\ sp' = call[m + 1].sp
      /\ short' = IF m < total /\ short = "never" THEN "now" ELSE short
  BY DEF parsenexec
<1>2. /\ C \in 0 .. Len(line)
      /\ \A k \in 1 .. C : /\ call[k].token = WordAt(line, Nth(Starts(line), k))
                           /\ call[k].token # <<>>
      /\ call[C + 1] = [token |-> <<>>, sp |-> 0]
  BY <1>0, TokensAreWords
<1> HIDE DEF call
<1>3. total = C
  <2>1. C + 1 \in nulls /\ nulls \subseteq Nat
    BY <1>0, <1>2
  <2>2. First(nulls) \in nulls /\ First(nulls) <= C + 1
    <3> HIDE DEF nulls, C
    <3> QED BY <2>1, FirstIsLeast
  <2>3. ~(First(nulls) \in 1 .. C)
    BY <1>2, <2>2
  <2>4. First(nulls) \in Nat /\ First(nulls) >= 1
    BY <1>0, <2>2
  <2> HIDE DEF nulls
  <2> QED BY <1>2, <2>2, <2>3, <2>4
<1>4. m \in 0 .. C /\ (m < total <=> m # C) /\ (m < total => m < C)
  <2> HIDE DEF total, C
  <2> QED BY <1>2, <1>3
<1>5. Words(line) = [k \in 1 .. C |-> W(k)]
  BY DEF Words, WordAt
<1>6. commands' = [k \in 1 .. m |-> W(k)]
  <2>1. \A k \in 1 .. m : k \in 1 .. C
    <3> HIDE DEF m, C
    <3> QED BY <1>2, <1>4
  <2> HIDE DEF m, C
  <2> QED BY <1>1, <1>2, <2>1
<1> HIDE DEF m, total, C
<1>7. CASE m = C
  <2>1. short' = short /\ commands' = Words(line)
    BY <1>1, <1>4, <1>5, <1>6, <1>7
  <2>2. sp' = 0
    BY <1>1, <1>2, <1>7
  <2> QED BY <2>1, <2>2
<1>8. CASE m # C
  <2>1. m < C /\ m \in Nat /\ C \in Nat
    BY <1>2, <1>4, <1>8
  <2>2. Len(commands') = m /\ Len(Words(line)) = C
    <3> HIDE DEF W
    <3> QED BY <1>5, <1>6, <2>1
  <2>3. commands' = SubSeq(Words(line), 1, m)
    <3> DEFINE S == {W(k) : k \in 1 .. C}
               q == SubSeq(Words(line), 1, m)
    <3>1. \A i \in 1 .. m : Words(line)[i] \in S /\ Words(line)[i] = W(i)
      <4>1. \A i \in 1 .. m : i \in 1 .. C
        BY <2>1
      <4> HIDE DEF W
      <4> QED BY <1>5, <4>1
    <3>2. commands' \in Seq(S) /\ \A i \in 1 .. m : commands'[i] = W(i)
      <4>1. \A i \in 1 .. m : W(i) \in S
        BY <2>1
      <4> HIDE DEF W, S
      <4> QED BY <1>6, <2>1, <4>1
    <3> HIDE DEF W, S
    <3>3. /\ q \in Seq(S) /\ Len(q) = (IF 1 <= m THEN m - 1 + 1 ELSE 0)
          /\ \A i \in 1 .. (m - 1 + 1) : q[i] = Words(line)[1 + i - 1]
      BY <2>1, <3>1, SubSeqProperties
    <3>4. Len(q) = m /\ m - 1 + 1 = m /\ \A i \in 1 .. m : 1 + i - 1 = i
      BY <2>1, <3>3
    <3> HIDE DEF q
    <3>5. \A i \in 1 .. m : q[i] = commands'[i]
      BY <3>1, <3>2, <3>3, <3>4
    <3>6. commands' = q
      BY <2>2, <3>2, <3>3, <3>4, <3>5, SeqEqual
    <3> QED BY <3>6 DEF q
  <2>4. short' = IF short = "never" THEN "now" ELSE short
    BY <1>1, <1>4, <1>8
  <2> QED BY <2>1, <2>2, <2>3, <2>4
<1> QED BY <1>7, <1>8

(* Every step keeps the parser's invariant.                                *)
LEMMA NextWord ==
  ASSUME MaxPending <= Size, WordInv, [CNext]_cvars
  PROVE  WordInv'
<1>0. LineInv /\ LineInv' /\ short \in {"never", "now", "before"} /\ MaxLine \in Nat
  BY NextLine, CommandLineAssumption DEF WordInv, LineInv
<1>1. CASE UNCHANGED <<phase, line, sp, commands, short>>
  BY <1>0, <1>1 DEF WordInv, ArgumentsAreWords
<1>2. CASE peachos_terminal_readline
  <2>1. phase = "read" /\ phase' \in {"read", "parse"} /\ UNCHANGED <<sp, short>>
    BY <1>2 DEF peachos_terminal_readline, Store
  <2> QED BY <1>0, <2>1 DEF WordInv, ArgumentsAreWords
<1>3. ASSUME NEW n \in 0 .. (MaxLine \div 2), parsenexec(n) PROVE WordInv'
  <2>1. phase = "parse" /\ phase' = "ran" /\ line' = line
    BY <1>3 DEF parsenexec
  <2>2. short # "now"
    BY <2>1 DEF WordInv
  <2>3. CASE short = "never"
    <3>1. sp = 0 /\ n \in Nat
      BY <1>0, <2>3 DEF WordInv
    <3>2. IF short' = short
            THEN commands' = Words(line) /\ sp' = 0
            ELSE short' = "now" /\ Len(commands') < Len(Words(line))
                 /\ commands' = SubSeq(Words(line), 1, Len(commands'))
      BY <1>0, <1>3, <2>3, <3>1, ParsedWords
    <3> QED BY <1>0, <2>1, <2>3, <3>2 DEF WordInv, ArgumentsAreWords
  <2>4. CASE short = "before"
    <3>1. short' = "before"
      BY <1>3, <2>4 DEF parsenexec
    <3> QED BY <1>0, <2>1, <3>1 DEF WordInv, ArgumentsAreWords
  <2> QED BY <1>0, <2>2, <2>3, <2>4
<1>4. CASE parsenexec_Stale
  <2>1. phase = "parse" /\ phase' = "ran" /\ short' = short /\ sp > Len(line) + 1
    BY <1>4 DEF parsenexec_Stale
  <2>2. Len(line) \in Nat
    BY <1>0 DEF LineInv
  <2>3. sp # 0
    BY <2>1, <2>2
  <2>4. short' = "before"
    BY <1>0, <2>1, <2>3 DEF WordInv
  <2> QED BY <1>0, <2>1, <2>4 DEF WordInv, ArgumentsAreWords
<1>5. CASE Prompt
  <2>1. phase' = "read" /\ sp' = sp /\ short' = IF short = "now" THEN "before" ELSE short
    BY <1>5 DEF Prompt
  <2> QED BY <1>0, <2>1 DEF WordInv, ArgumentsAreWords
<1>6. ASSUME NEW s \in Scancodes, classic_keyboard_interrupt_handler(s)
      PROVE  UNCHANGED <<phase, line, sp, commands, short>>
  BY <1>6 DEF classic_keyboard_interrupt_handler, shell
<1>7. UNCHANGED cvars => UNCHANGED <<phase, line, sp, commands, short>>
  BY DEF cvars
<1> QED BY <1>1, <1>2, <1>3, <1>4, <1>5, <1>6, <1>7 DEF CNext, Parse

(* The arguments of a command are the words of its line, for every line    *)
(* and every size of line and argument: all of them while memory lasts,    *)
(* and the first of them when it runs out.                                 *)
THEOREM CommandLineArguments ==
  ASSUME MaxPending <= Size
  PROVE  CSpec => []ArgumentsAreWords
<1>1. CInit => WordInv
  BY InitLine DEF CInit, WordInv, ArgumentsAreWords
<1>2. WordInv => ArgumentsAreWords
  BY DEF WordInv
<1> QED BY <1>1, <1>2, NextWord, PTL DEF CSpec

-----------------------------------------------------------------------------
(* The names of the shell's own commands have no capital letters.          *)
LEMMA BuiltinsLower ==
  ASSUME NEW b \in Builtins
  PROVE  /\ b \in Seq(Nat) /\ Len(b) \in Nat
         /\ \A i \in 1 .. Len(b) : b[i] \in Nat /\ b[i] # 0 /\ tolower(b[i]) = b[i]
<1>1. CASE b = <<99, 100>>
  BY <1>1 DEF tolower
<1>2. CASE b = <<108, 115>>
  BY <1>2 DEF tolower
<1>3. CASE b = <<112, 119, 100>>
  BY <1>3 DEF tolower
<1>4. CASE b = <<45, 104>>
  BY <1>4 DEF tolower
<1> QED BY <1>1, <1>2, <1>3, <1>4 DEF Builtins

(* A word in small letters, and a word that a name goes on from.           *)
Lower(w) == [i \in DOMAIN w |-> tolower(w[i])]
ShorterThan(w, b) == Len(Lower(w)) < Len(b) /\ Lower(w) = SubSeq(b, 1, Len(Lower(w)))

(* istrncmp gives 0 for the name of a command and a word that the name     *)
(* does not go on from exactly if they are the same but for capitals.      *)
LEMMA istrncmpEqual ==
  ASSUME NEW b \in Builtins, NEW w \in Seq(Keys), ~ShorterThan(w, b)
  PROVE  istrncmp(b, w) = 0 <=> Lower(w) = b
<1> DEFINE n == Len(b)
           m == Len(w)
           L == Lower(w)
           differ == {i \in 1 .. (n + 1) : tolower(Char(b, i)) # tolower(Char(w, i))}
           S == {L[i] : i \in 1 .. m} \cup Nat
<1>0. n \in Nat /\ m \in Nat /\ DOMAIN w = 1 .. m
  BY BuiltinsLower
<1>1. /\ \A i \in 1 .. n : tolower(Char(b, i)) = b[i] /\ b[i] # 0 /\ b[i] \in Nat
      /\ tolower(Char(b, n + 1)) = 0
  <2>1. \A i \in 1 .. n : Char(b, i) = b[i]
    BY <1>0 DEF Char
  <2>2. Char(b, n + 1) = 0 /\ tolower(0) = 0
    BY <1>0, CommandLineAssumption DEF Char, tolower
  <2> HIDE DEF n
  <2> QED BY <2>1, <2>2, BuiltinsLower DEF n
<1>2. /\ \A i \in 1 .. m : /\ Char(w, i) = w[i] /\ Char(w, i) # 0
                            /\ tolower(Char(w, i)) = L[i] /\ L[i] # 0
      /\ \A i \in Nat : i > m => Char(w, i) = 0 /\ tolower(Char(w, i)) = 0
  <2>1. ASSUME NEW i \in 1 .. m
        PROVE  /\ Char(w, i) = w[i] /\ Char(w, i) # 0
               /\ tolower(Char(w, i)) = L[i] /\ L[i] # 0
    <3>1. w[i] \in Keys /\ i <= m
      BY <1>0
    <3>2. Char(w, i) = w[i] /\ w[i] # 0
      BY <3>1, CommandLineAssumption, KeyboardAssumption DEF Char
    <3>3. L[i] = tolower(w[i])
      BY <1>0 DEF Lower
    <3>4. tolower(w[i]) # 0
      <4>1. CASE w[i] \in 65 .. 90
        BY <4>1, SMTT(30) DEF tolower
      <4>2. CASE w[i] \notin 65 .. 90
        BY <3>2, <4>2, Zenon DEF tolower
      <4> QED BY <4>1, <4>2
    <3> QED BY <3>2, <3>3, <3>4
  <2>2. ASSUME NEW i \in Nat, i > m PROVE Char(w, i) = 0 /\ tolower(Char(w, i)) = 0
    BY <1>0, <2>2, CommandLineAssumption DEF Char, tolower
  <2> QED BY <2>1, <2>2
<1>3. L \in Seq(S) /\ Len(L) = m /\ b \in Seq(S)
  <2>1. L = [i \in 1 .. m |-> L[i]] /\ \A i \in 1 .. m : L[i] \in S
    BY <1>0 DEF Lower
  <2>2. \A i \in 1 .. n : b[i] \in S
    BY BuiltinsLower
  <2> HIDE DEF L, S
  <2>3. L \in Seq(S) /\ Len(L) = m
    BY <1>0, <2>1
  <2>4. b \in Seq(S)
    BY <1>0, <2>2, BuiltinsLower
  <2> QED BY <2>3, <2>4
<1> HIDE DEF L, S
<1>4. Lower(w) = b => differ = {}
  <2> SUFFICES ASSUME L = b PROVE differ = {}
    BY DEF L
  <2>1. m = n
    BY <1>3
  <2>2. \A i \in 1 .. (n + 1) : i \in 1 .. n \/ i = n + 1
    BY <1>0
  <2>3. n + 1 \in Nat /\ n + 1 > m
    BY <1>0, <2>1
  <2> HIDE DEF n, m
  <2> QED BY <1>1, <1>2, <2>1, <2>2, <2>3
<1>5. CASE differ = {}
  <2>0. \A i \in 1 .. (n + 1) : tolower(Char(b, i)) = tolower(Char(w, i))
    BY <1>5
  <2>1. n + 1 \in 1 .. (n + 1) /\ \A i \in 1 .. n : i \in 1 .. (n + 1) /\ i \in Nat
    BY <1>0
  <2>2. ~(n + 1 \in 1 .. m)
    BY <1>1, <1>2, <2>0, <2>1
  <2>3. \A i \in 1 .. n : ~(i > m)
    BY <1>1, <1>2, <2>0, <2>1
  <2>4. m = n
    <3>1. n = 0 \/ n \in 1 .. n
      BY <1>0
    <3> QED BY <1>0, <2>2, <2>3, <3>1
  <2>5. \A i \in 1 .. m : L[i] = b[i]
    BY <1>1, <1>2, <2>0, <2>1, <2>4
  <2>6. L = b
    BY <1>3, <2>4, <2>5, SeqEqual
  <2>7. istrncmp(b, w) = 0
    BY <1>5 DEF istrncmp
  <2> QED BY <2>6, <2>7 DEF L
<1>6. CASE differ # {}
  <2> DEFINE f == First(differ)
  <2>1. f \in differ /\ \A j \in differ : f <= j
    <3>1. differ \subseteq Nat
      BY <1>0
    <3> HIDE DEF differ
    <3> QED BY <1>6, <3>1, FirstIsLeast
  <2>2. istrncmp(b, w) = Char(w, f)
    BY <1>6 DEF istrncmp
  <2> HIDE DEF f
  <2>3. f \in 1 .. (n + 1) /\ tolower(Char(b, f)) # tolower(Char(w, f)) /\ f \in Nat
    BY <1>0, <2>1
  <2>4. \A i \in 1 .. (f - 1) : i \in 1 .. n /\ tolower(Char(b, i)) = tolower(Char(w, i))
    <3>1. \A i \in 1 .. (f - 1) : i \in 1 .. n /\ i \in 1 .. (n + 1) /\ ~(f <= i)
      BY <1>0, <2>3
    <3>2. \A i \in 1 .. (f - 1) : i \notin differ
      BY <2>1, <3>1
    <3> QED BY <3>1, <3>2
  <2>5. ASSUME Char(w, f) = 0 PROVE FALSE
    <3>1. f > m
      <4>1. ~(f \in 1 .. m)
        BY <1>2, <2>5
      <4> QED BY <1>0, <2>3, <4>1
    <3>2. f # n + 1
      BY <1>1, <1>2, <2>3, <3>1
    <3>3. \A i \in 1 .. (f - 1) : i \in Nat /\ ~(i > m)
      <4>1. \A i \in 1 .. (f - 1) : i \in Nat
        BY <2>3
      <4> QED BY <1>1, <1>2, <2>4, <4>1
    <3>4. m = f - 1 /\ m < n
      <4>1. f = 1 \/ f - 1 \in 1 .. (f - 1)
        BY <2>3
      <4>2. f - 1 <= m
        <5>1. CASE f = 1
          BY <1>0, <5>1
        <5>2. CASE f - 1 \in 1 .. (f - 1)
          BY <1>0, <2>3, <3>3, <5>2
        <5> QED BY <4>1, <5>1, <5>2
      <4> QED BY <1>0, <2>3, <3>1, <3>2, <4>2
    <3>5. \A i \in 1 .. m : L[i] = b[i] /\ i \in 1 .. n
      BY <1>1, <1>2, <2>4, <3>4
    <3> DEFINE q == SubSeq(b, 1, m)
    <3>6. q \in Seq(S) /\ Len(q) = m /\ \A i \in 1 .. m : q[i] = b[i]
      <4>1. \A i \in 1 .. m : b[i] \in S
        BY <3>5, <1>1 DEF S
      <4>2. /\ q \in Seq(S) /\ Len(q) = (IF 1 <= m THEN m - 1 + 1 ELSE 0)
            /\ \A i \in 1 .. (m - 1 + 1) : q[i] = b[1 + i - 1]
        <5>1. 1 \in Int /\ m \in Int
          BY <1>0
        <5> HIDE DEF m
        <5> QED BY <4>1, <5>1, SubSeqProperties
      <4>3. /\ m - 1 + 1 = m /\ (IF 1 <= m THEN m - 1 + 1 ELSE 0) = m
            /\ \A i \in 1 .. m : 1 + i - 1 = i
        BY <1>0
      <4> HIDE DEF q, m
      <4> QED BY <4>2, <4>3
    <3> HIDE DEF q
    <3>7. L = q
      BY <1>3, <3>5, <3>6, SeqEqual
    <3>8. ShorterThan(w, b)
      BY <1>3, <3>4, <3>7 DEF ShorterThan, L, q
    <3> QED BY <3>8
  <2> QED BY <1>4, <1>6, <2>2, <2>5
<1> QED BY <1>5, <1>6

(* The inductive invariant of the shell's commands.                        *)
RunInv == WordInv /\ RunsCommand

(* What parsenexec runs for a line it cut into words completely.           *)
LEMMA ParsedRuns ==
  ASSUME LineInv, sp = 0, short = "never", NEW n \in Nat, parsenexec(n),
         short' = "never", commands' # <<>>
  PROVE  LET w == Words(line)[1]
         IN  w \in Seq(Keys) /\ ran' = {b \in Builtins : istrncmp(b, w) = 0}
<1> DEFINE w == Words(line)[1]
           call == Tokens(line)
           total == First({k \in 1 .. (Len(line) + 1) : call[k].token = <<>>}) - 1
           m == IF n < total THEN n ELSE total
<1>1. commands' = Words(line)
  BY ParsedWords
<1>2. ran' = {b \in Builtins : istrncmp(b, w) = 0}
  <2>1. ran' \in Named(commands')
    BY DEF parsenexec
  <2> QED BY <1>1, <2>1 DEF Named
<1>3. w = strncpy(call[1].token, MaxArgument)
  <2>1. commands' = [k \in 1 .. m |-> strncpy(call[k].token, MaxArgument)]
    BY DEF parsenexec
  <2>2. Words(line) = [k \in 1 .. Len(Words(line)) |-> Words(line)[k]] /\ Len(Words(line)) \in Nat
    <3>1. Cardinality(Starts(line)) \in Nat
      BY StartsFinite DEF LineInv
    <3> QED BY <3>1 DEF Words
  <2> HIDE DEF m, call
  <2>3. 1 \in 1 .. m
    <3>1. DOMAIN commands' = 1 .. m
      BY <2>1
    <3>2. DOMAIN commands' = 1 .. Len(Words(line))
      BY <1>1, <2>2
    <3>3. Len(Words(line)) # 0
      BY <1>1, <2>2
    <3>4. 1 \in 1 .. Len(Words(line))
      BY <2>2, <3>3
    <3> QED BY <3>1, <3>2, <3>4, Zenon
  <2> QED BY <1>1, <2>1, <2>3
<1>4. call[1].token \in Seq(Keys)
  <2>1. call[1] = strtok(line, 1)
    BY TokensCalls DEF LineInv
  <2> HIDE DEF call
  <2> QED BY <2>1, strtokAdvances DEF LineInv
<1>5. w \in Seq(Keys)
  <2> DEFINE t == call[1].token
             e == IF Len(t) < MaxArgument THEN Len(t) ELSE MaxArgument - 1
  <2>1. t \in Seq(Keys) /\ Len(t) \in Nat /\ MaxArgument \in Nat \ {0}
    BY <1>4, CommandLineAssumption
  <2> HIDE DEF t
  <2>2. e \in Int /\ 1 \in Int /\ e <= Len(t)
    BY <2>1
  <2>3. w = SubSeq(t, 1, e)
    BY <1>3 DEF strncpy, t
  <2> HIDE DEF e, w
  <2>4. \A i \in 1 .. e : t[i] \in Keys
    BY <2>1, <2>2
  <2> QED BY <2>2, <2>3, <2>4, SubSeqProperties DEF w
<1> QED BY <1>2, <1>5

(* Every step keeps what was run to what was typed.                        *)
LEMMA NextRun ==
  ASSUME MaxPending <= Size, RunInv, [CNext]_cvars
  PROVE  RunInv'
<1>0. WordInv /\ WordInv' /\ LineInv /\ short \in {"never", "now", "before"} /\ MaxLine \in Nat
  BY NextWord, CommandLineAssumption DEF RunInv, WordInv, LineInv
<1>1. CASE UNCHANGED <<phase, line, commands, ran, short>>
  BY <1>0, <1>1 DEF RunInv, RunsCommand
<1>2. CASE phase' # "ran" \/ short' # "never"
  BY <1>0, <1>2 DEF RunInv, RunsCommand
<1>3. ASSUME NEW n \in 0 .. (MaxLine \div 2), parsenexec(n), short' = "never", commands' # <<>>
      PROVE  RunInv'
  <2> DEFINE w == Words(line)[1]
  <2>1. phase = "parse" /\ line' = line /\ short = "never"
    BY <1>0, <1>3 DEF parsenexec
  <2>2. sp = 0 /\ n \in Nat
    BY <1>0, <2>1 DEF WordInv
  <2>3. w \in Seq(Keys) /\ ran' = {b \in Builtins : istrncmp(b, w) = 0}
    BY <1>0, <1>3, <2>1, <2>2, ParsedRuns
  <2> HIDE DEF w
  <2>4. \A b \in Builtins : ~ShorterThan(w, b) => (b \in ran' <=> Lower(w) = b)
    BY <2>3, istrncmpEqual
  <2>5. RunsCommand'
    BY <2>1, <2>4, Zenon DEF RunsCommand, ShorterThan, Lower, w
  <2> QED BY <1>0, <2>5 DEF RunInv
<1>4. CASE commands' = <<>>
  BY <1>0, <1>4 DEF RunInv, RunsCommand
<1>5. CASE parsenexec_Stale
  <2>1. short' = short /\ sp > Len(line) + 1 /\ Len(line) \in Nat
    BY <1>0, <1>5 DEF parsenexec_Stale, LineInv
  <2>2. short' # "never"
    <3>1. sp # 0
      BY <2>1
    <3> QED BY <1>0, <2>1, <3>1 DEF WordInv
  <2> QED BY <1>2, <2>2
<1>6. peachos_terminal_readline \/ Prompt => phase' # "ran"
  BY DEF peachos_terminal_readline, Store, Prompt
<1>7. ASSUME NEW s \in Scancodes, classic_keyboard_interrupt_handler(s)
      PROVE  UNCHANGED <<phase, line, commands, ran, short>>
  BY <1>7 DEF classic_keyboard_interrupt_handler, shell
<1>8. UNCHANGED cvars => UNCHANGED <<phase, line, commands, ran, short>>
  BY DEF cvars
<1> QED BY <1>1, <1>2, <1>3, <1>4, <1>5, <1>6, <1>7, <1>8 DEF CNext, Parse

(* The command that runs is the one the first word of the line names, in   *)
(* capitals or not, for every line and every size of line and argument, as *)
(* long as memory lasts (parsenexec, istrncmp).                            *)
THEOREM CommandLineRunsCommand ==
  ASSUME MaxPending <= Size
  PROVE  CSpec => []RunsCommand
<1>1. CInit => RunInv
  BY InitLine DEF CInit, RunInv, WordInv, ArgumentsAreWords, RunsCommand
<1>2. RunInv => RunsCommand
  BY DEF RunInv
<1> QED BY <1>1, <1>2, NextRun, PTL DEF CSpec
=============================================================================
