--------------------------- MODULE TerminalProofs ---------------------------
(***************************************************************************)
(* The safety of the terminals, for every number of shells and every size  *)
(* of the screen.                                                          *)
(***************************************************************************)
EXTENDS Terminal, TLAPS

(* The inductive invariant: what the code keeps in terminal_row and        *)
(* terminal_col between two writes is the cursor of the last writer, so a  *)
(* set backspace flag does no harm as long as the same shell writes on.    *)
ScreenInv == TypeOK /\ ScreenShowsCurrent /\ cursor = terminal[writer]

-----------------------------------------------------------------------------
(* Cursors.                                                                *)

(* The counters wrap.                                                      *)
LEMMA CounterType ==
  /\ \A n \in Int : Inc(n) \in Counter /\ Dec(n) \in Counter
  /\ 0 \in Counter /\ Width - 1 \in Counter
<1>1. Range16 \in Nat /\ Range16 > 0 /\ Width \in Nat /\ Width > 0 /\ Width < Range16
  BY TerminalAssumption
<1> QED BY <1>1 DEF Inc, Dec, Counter

(* A cursor is its row and its column.                                     *)
LEMMA CursorParts ==
  ASSUME NEW at \in Cursor
  PROVE  /\ at.row \in Counter /\ at.col \in Counter /\ at.row \in Int /\ at.col \in Int
         /\ at = [row |-> at.row, col |-> at.col]
<1>1. Range16 \in Nat
  BY TerminalAssumption
<1> QED BY <1>1 DEF Cursor, Counter

LEMMA NextLineType ==
  ASSUME NEW at \in Cursor
  PROVE  NextLine(at) \in Cursor
BY CursorParts, CounterType DEF NextLine, Cursor

LEMMA AdvanceType ==
  ASSUME NEW at \in Cursor
  PROVE  Advance(at) \in Cursor
<1>1. /\ NextLine(at) \in Cursor /\ Inc(at.col) \in Counter
  BY CursorParts, CounterType, NextLineType
<1>2. [at EXCEPT !.col = Inc(at.col)] \in Cursor
  BY <1>1 DEF Cursor
<1> QED BY <1>1, <1>2 DEF Advance

LEMMA StepBackType ==
  ASSUME NEW at \in Cursor
  PROVE  StepBack(at) \in Cursor
<1>1. Dec(at.row) \in Counter /\ Dec(at.col) \in Counter /\ Width - 1 \in Counter
  BY CursorParts, CounterType
<1>2. [at EXCEPT !.col = Dec(at.col)] \in Cursor
  BY <1>1 DEF Cursor
<1>3. [row |-> Dec(at.row), col |-> Width - 1] \in Cursor
  BY <1>1 DEF Cursor
<1> QED BY <1>2, <1>3 DEF StepBack

LEMMA EraseType ==
  ASSUME NEW at \in Cursor
  PROVE  Erase(at) \in Cursor
<1> DEFINE then == Advance(StepBack(at))
<1>1. then \in Cursor
  BY StepBackType, AdvanceType
<1> HIDE DEF then
<1>2. Dec(then.col) \in Counter
  BY <1>1, CursorParts, CounterType
<1>3. [then EXCEPT !.col = Dec(then.col)] \in Cursor
  BY <1>1, <1>2 DEF Cursor
<1> QED BY <1>3 DEF Erase, then

-----------------------------------------------------------------------------
(* The parts of a write.                                                   *)

(* terminal_init gives a cursor: that of the shell itself, unless the flag *)
(* is set and another shell wrote last.                                    *)
LEMMA StartsAt ==
  ASSUME ScreenInv, NEW s \in Shells
  PROVE  /\ terminal_init(s) \in Cursor /\ terminal[s] \in Cursor
         /\ ~(backspace /\ writer # s) => terminal_init(s) = terminal[s]
BY DEF ScreenInv, TypeOK, terminal_init

(* A cursor that was hit is still a cursor, and no other is hit.           *)
LEMMA HitType ==
  ASSUME TypeOK, NEW hit \in Shells, NEW saved \in HitCursors(hit)
  PROVE  /\ saved \in [Shells -> Cursor]
         /\ \A t \in Shells \ {hit} : saved[t] = terminal[t]
<1>1. terminal \in [Shells -> Cursor] /\ terminal[hit] \in Cursor
  BY DEF TypeOK
<1>2. PICK n \in Counter : \/ saved = [terminal EXCEPT ![hit].row = n]
                           \/ saved = [terminal EXCEPT ![hit].col = n]
  BY DEF HitCursors
<1>3. [terminal[hit] EXCEPT !.row = n] \in Cursor /\ [terminal[hit] EXCEPT !.col = n] \in Cursor
  BY <1>1 DEF Cursor
<1> QED BY <1>1, <1>2, <1>3

(* A write of shell s, which leaves its cursor at after, changes the       *)
(* buffers and cursors of s and of the shells it strikes only.             *)
Confined(s, after) ==
  /\ video_mem' \in [Shells -> [Cells -> Chars]] /\ outside' \in BOOLEAN
  /\ terminal' \in [Shells -> Cursor] /\ cursor' \in Cursor
  /\ writer' = s /\ cursor' = after /\ terminal'[s] = after
  /\ struck \subseteq struck' /\ struck' \subseteq Shells
  /\ \A t \in Shells \ (struck' \cup {s}) :
       video_mem'[t] = video_mem[t] /\ terminal'[t] = terminal[t]

(* The conditions of Confined one by one.                                  *)
LEMMA IsConfined ==
  ASSUME TypeOK, NEW s \in Shells, NEW after \in Cursor,
         NEW saved \in [Shells -> Cursor], terminal_save(s, after, saved),
         video_mem' \in [Shells -> [Cells -> Chars]], outside' \in BOOLEAN,
         struck \subseteq struck', struck' \subseteq Shells,
         \A t \in Shells : t \notin struck' /\ t # s => video_mem'[t] = video_mem[t],
         \A t \in Shells : t \notin struck' /\ t # s => saved[t] = terminal[t]
  PROVE  Confined(s, after)
<1>1. /\ terminal' \in [Shells -> Cursor] /\ cursor' = after /\ writer' = s
      /\ terminal'[s] = after
      /\ \A t \in Shells : t # s => terminal'[t] = saved[t]
  BY DEF terminal_save
<1>2. \A t \in Shells \ (struck' \cup {s}) :
        video_mem'[t] = video_mem[t] /\ terminal'[t] = terminal[t]
  BY <1>1
<1> QED BY <1>1, <1>2 DEF Confined

(* A character written outside its buffer.                                 *)
LEMMA SpillStep ==
  ASSUME TypeOK, NEW s \in Shells, NEW ch \in Chars, NEW after \in Cursor,
         Spill(s, ch, after)
  PROVE  Confined(s, after) /\ (s \notin struck' => video_mem'[s] = video_mem[s])
<1>1. /\ video_mem \in [Shells -> [Cells -> Chars]] /\ terminal \in [Shells -> Cursor]
      /\ struck \subseteq Shells /\ outside' \in BOOLEAN
  BY DEF TypeOK, Spill
<1>2. CASE UNCHANGED <<video_mem, struck>> /\ terminal_save(s, after, terminal)
  BY <1>1, <1>2, IsConfined
<1>3. ASSUME NEW hit \in Shells, struck' = struck \cup {hit}, HitsBuffer(hit, ch),
             terminal_save(s, after, terminal)
      PROVE  Confined(s, after) /\ (s \notin struck' => video_mem'[s] = video_mem[s])
  <2>1. PICK i \in Cells : video_mem' = [video_mem EXCEPT ![hit][i] = ch]
    BY <1>3 DEF HitsBuffer
  <2>2. /\ video_mem' \in [Shells -> [Cells -> Chars]]
        /\ \A t \in Shells : t # hit => video_mem'[t] = video_mem[t]
    BY <1>1, <2>1
  <2>3. /\ struck \subseteq struck' /\ struck' \subseteq Shells
        /\ \A t \in Shells : t \notin struck' => t # hit
    BY <1>1, <1>3
  <2>4. Confined(s, after)
    BY <1>1, <1>3, <2>2, <2>3, IsConfined
  <2> QED BY <2>2, <2>3, <2>4
<1>4. ASSUME NEW hit \in Shells, struck' = struck \cup {hit}, UNCHANGED video_mem,
             NEW saved \in HitCursors(hit), terminal_save(s, after, saved)
      PROVE  Confined(s, after) /\ (s \notin struck' => video_mem'[s] = video_mem[s])
  <2>1. saved \in [Shells -> Cursor] /\ \A t \in Shells : t # hit => saved[t] = terminal[t]
    BY HitType
  <2>2. /\ struck \subseteq struck' /\ struck' \subseteq Shells
        /\ \A t \in Shells : t \notin struck' => t # hit
    BY <1>1, <1>4
  <2>3. Confined(s, after)
    BY <1>1, <1>4, <2>1, <2>2, IsConfined
  <2> QED BY <1>4, <2>3
<1> QED BY <1>2, <1>3, <1>4 DEF Spill

(* A character, inside its buffer or not, changes the buffer at its place  *)
(* and keeps the screen in step.                                           *)
LEMMA PutcharStep ==
  ASSUME ScreenInv, NEW s \in Shells, NEW at \in Cursor, NEW ch \in Chars,
         NEW after \in Cursor, terminal_putchar(s, at, ch, after), UNCHANGED current_shell
  PROVE  /\ Confined(s, after) /\ screen' \in [Cells -> Chars] /\ ScreenShowsCurrent'
         /\ s \notin struck' =>
              \A i \in Cells : i # Index(at) => video_mem'[s][i] = video_mem[s][i]
<1>1. /\ TypeOK /\ video_mem \in [Shells -> [Cells -> Chars]] /\ outside \in BOOLEAN
      /\ terminal \in [Shells -> Cursor] /\ struck \subseteq Shells
      /\ screen \in [Cells -> Chars] /\ current_shell \in Shells
      /\ current_shell \notin struck => screen = video_mem[current_shell]
  BY DEF ScreenInv, TypeOK, ScreenShowsCurrent
<1>2. /\ Confined(s, after)
      /\ s \notin struck' =>
           \A i \in Cells : i # Index(at) => video_mem'[s][i] = video_mem[s][i]
  <2>1. CASE Index(at) \in Cells /\ ~Spill(s, ch, after)
    <3> DEFINE new == [video_mem[s] EXCEPT ![Index(at)] = ch]
    <3>1. /\ video_mem' = [video_mem EXCEPT ![s] = new] /\ UNCHANGED <<outside, struck>>
          /\ terminal_save(s, after, terminal)
      BY <2>1 DEF terminal_putchar
    <3>2. new \in [Cells -> Chars] /\ \A i \in Cells : i # Index(at) => new[i] = video_mem[s][i]
      BY <1>1
    <3> HIDE DEF new
    <3>3. /\ video_mem' \in [Shells -> [Cells -> Chars]] /\ video_mem'[s] = new
          /\ \A t \in Shells : t # s => video_mem'[t] = video_mem[t]
      BY <1>1, <3>1, <3>2
    <3>4. Confined(s, after)
      BY <1>1, <3>1, <3>3, IsConfined
    <3> QED BY <3>2, <3>3, <3>4
  <2>2. CASE Spill(s, ch, after)
    BY <1>1, <2>2, SpillStep
  <2> QED BY <2>1, <2>2 DEF terminal_putchar
<1>3. screen' = IF s = current_shell THEN video_mem'[s] ELSE screen
  BY DEF terminal_putchar
<1>4. screen' \in [Cells -> Chars]
  BY <1>1, <1>2, <1>3 DEF Confined
<1>5. ScreenShowsCurrent'
  BY <1>1, <1>2, <1>3 DEF Confined, ScreenShowsCurrent
<1> QED BY <1>2, <1>4, <1>5

(* What a confined write that keeps the screen in step leaves.             *)
LEMMA ConfinedScreen ==
  ASSUME ScreenInv, NEW s \in Shells, NEW after \in Cursor, Confined(s, after),
         screen' \in [Cells -> Chars], ScreenShowsCurrent', backspace' \in BOOLEAN,
         UNCHANGED current_shell
  PROVE  ScreenInv'
BY DEF ScreenInv, TypeOK, Confined

(* A write that puts no character.                                         *)
LEMMA SaveOnly ==
  ASSUME ScreenInv, NEW s \in Shells, NEW after \in Cursor,
         terminal_save(s, after, terminal),
         UNCHANGED <<video_mem, screen, outside, struck, current_shell>>
  PROVE  Confined(s, after) /\ screen' \in [Cells -> Chars] /\ ScreenShowsCurrent'
<1>1. /\ TypeOK /\ ScreenShowsCurrent /\ terminal \in [Shells -> Cursor]
      /\ video_mem \in [Shells -> [Cells -> Chars]] /\ outside \in BOOLEAN
      /\ struck \subseteq Shells /\ screen \in [Cells -> Chars]
  BY DEF ScreenInv, TypeOK
<1>2. Confined(s, after)
  BY <1>1, IsConfined
<1>3. ScreenShowsCurrent'
  BY <1>1 DEF ScreenShowsCurrent
<1> QED BY <1>1, <1>2, <1>3

-----------------------------------------------------------------------------
(* The three writes.                                                       *)

LEMMA CharStep ==
  ASSUME ScreenInv, NEW s \in Shells, WriteChar(s)
  PROVE  /\ ScreenInv' /\ Confined(s, Advance(terminal_init(s)))
         /\ s \notin struck' /\ terminal_init(s) = terminal[s] => WritesAsIfAlone(s)
<1> DEFINE at == terminal_init(s)
<1>1. terminal_putchar(s, at, "x", Advance(at)) /\ UNCHANGED <<backspace, current_shell>>
  BY DEF WriteChar
<1>2. at \in Cursor /\ Advance(at) \in Cursor /\ backspace' \in BOOLEAN
  BY <1>1, StartsAt, AdvanceType DEF ScreenInv, TypeOK
<1> HIDE DEF at
<1>3. /\ Confined(s, Advance(at)) /\ screen' \in [Cells -> Chars] /\ ScreenShowsCurrent'
      /\ s \notin struck' =>
           \A i \in Cells : i # Index(at) => video_mem'[s][i] = video_mem[s][i]
  BY <1>1, <1>2, PutcharStep DEF Chars
<1>4. ScreenInv'
  BY <1>1, <1>2, <1>3, ConfinedScreen
<1>5. s \notin struck' /\ at = terminal[s] => WritesAsIfAlone(s)
  BY <1>3 DEF WritesAsIfAlone, Confined
<1> QED BY <1>3, <1>4, <1>5 DEF at

LEMMA NewlineStep ==
  ASSUME ScreenInv, NEW s \in Shells, WriteNewline(s)
  PROVE  /\ ScreenInv' /\ Confined(s, NextLine(terminal_init(s)))
         /\ terminal_init(s) = terminal[s] => WritesAsIfAlone(s)
<1> DEFINE at == terminal_init(s)
<1>1. /\ terminal_save(s, NextLine(at), terminal)
      /\ UNCHANGED <<video_mem, backspace, current_shell, screen, outside, struck>>
  BY DEF WriteNewline
<1>2. at \in Cursor /\ NextLine(at) \in Cursor /\ backspace' \in BOOLEAN
  BY <1>1, StartsAt, NextLineType DEF ScreenInv, TypeOK
<1> HIDE DEF at
<1>3. Confined(s, NextLine(at)) /\ screen' \in [Cells -> Chars] /\ ScreenShowsCurrent'
  BY <1>1, <1>2, SaveOnly
<1>4. ScreenInv'
  BY <1>1, <1>2, <1>3, ConfinedScreen
<1>5. at = terminal[s] => WritesAsIfAlone(s)
  BY <1>1, <1>3 DEF WritesAsIfAlone, Confined
<1> QED BY <1>3, <1>4, <1>5 DEF at

LEMMA BackspaceStep ==
  ASSUME ScreenInv, NEW s \in Shells, WriteBackspace(s)
  PROVE  /\ ScreenInv' /\ Confined(s, Erase(terminal_init(s)))
         /\ s \notin struck' /\ terminal_init(s) = terminal[s] => WritesAsIfAlone(s)
<1> DEFINE at == terminal_init(s)
<1>1. /\ at = Home => /\ terminal_save(s, at, terminal)
                      /\ UNCHANGED <<video_mem, screen, outside, struck>>
      /\ at # Home => terminal_putchar(s, StepBack(at), " ", Erase(at))
      /\ UNCHANGED current_shell
  BY DEF WriteBackspace
<1>2. /\ at \in Cursor /\ StepBack(at) \in Cursor /\ Erase(at) \in Cursor
      /\ backspace' \in BOOLEAN
  BY StartsAt, StepBackType, EraseType DEF WriteBackspace
<1>3. at = Home => Erase(at) = at
  BY DEF Erase
<1> HIDE DEF at
<1>4. /\ Confined(s, Erase(at)) /\ screen' \in [Cells -> Chars] /\ ScreenShowsCurrent'
      /\ s \notin struck' =>
           \A i \in Cells : i # Index(StepBack(at)) => video_mem'[s][i] = video_mem[s][i]
  <2>1. CASE at = Home
    BY <1>1, <1>2, <1>3, <2>1, SaveOnly
  <2>2. CASE at # Home
    BY <1>1, <1>2, <2>2, PutcharStep DEF Chars
  <2> QED BY <2>1, <2>2
<1>5. ScreenInv'
  BY <1>1, <1>2, <1>4, ConfinedScreen
<1>6. s \notin struck' /\ at = terminal[s] => WritesAsIfAlone(s)
  BY <1>4 DEF WritesAsIfAlone, Confined
<1> QED BY <1>4, <1>5, <1>6 DEF at

(* The user switches to another shell.                                     *)
LEMMA SwitchStep ==
  ASSUME ScreenInv, NEW s \in Shells, shell_switch(s)
  PROVE  ScreenInv' /\ UNCHANGED <<video_mem, terminal>>
BY DEF shell_switch, ScreenInv, TypeOK, ScreenShowsCurrent

(* A step that does nothing.                                               *)
LEMMA StutterScreen ==
  ASSUME ScreenInv, UNCHANGED vars
  PROVE  ScreenInv' /\ UNCHANGED <<video_mem, terminal>>
BY DEF vars, ScreenInv, TypeOK, ScreenShowsCurrent

-----------------------------------------------------------------------------
(* Every step keeps the invariant.                                         *)
LEMMA NextScreen ==
  ASSUME ScreenInv, [Next]_vars
  PROVE  ScreenInv'
BY CharStep, NewlineStep, BackspaceStep, SwitchStep, StutterScreen DEF Next

(* The initial state satisfies the invariant.                              *)
LEMMA InitScreen == Init => ScreenInv
<1>1. Home \in Cursor
  BY CounterType DEF Home, Cursor
<1>2. Blank \in [Cells -> Chars]
  BY DEF Blank, Chars
<1> QED BY <1>1, <1>2 DEF Init, ScreenInv, TypeOK, ScreenShowsCurrent

THEOREM TerminalInvariant == Spec => []ScreenInv
BY InitScreen, NextScreen, PTL DEF Spec

(* What programs print keeps the types, past the end of the buffer too.    *)
THEOREM TerminalTypeCorrect == Spec => []TypeOK
<1>1. ScreenInv => TypeOK
  BY DEF ScreenInv
<1> QED BY <1>1, TerminalInvariant, PTL

(* The display shows the buffer of the current shell after every           *)
(* terminal_putchar and every shell_switch, whatever programs print, until *)
(* a character that missed its own buffer hits that one.                   *)
THEOREM TerminalScreenShowsCurrent == Spec => []ScreenShowsCurrent
<1>1. ScreenInv => ScreenShowsCurrent
  BY DEF ScreenInv
<1> QED BY <1>1, TerminalInvariant, PTL

(* What a shell writes goes to its own cursor and moves that one, whoever  *)
(* wrote in between, and neither moves the cursor nor changes the buffer   *)
(* of another shell.  Shells that a write outside a buffer has hit, and    *)
(* writes by another shell after a backspace in a first cell, are left     *)
(* out, as OwnCursor says.                                                 *)
THEOREM TerminalOwnCursor == Spec => OwnCursor
<1> DEFINE Own(s) == IF WriteChar(s) \/ WriteNewline(s) \/ WriteBackspace(s)
                       THEN WritesAsIfAlone(s) \/ (backspace /\ writer # s)
                       ELSE UNCHANGED <<video_mem[s], terminal[s]>>
<1>1. ASSUME ScreenInv, [Next]_vars, NEW s \in Shells \ struck' PROVE Own(s)
  <2>1. CASE WriteChar(s) \/ WriteNewline(s) \/ WriteBackspace(s)
    <3>1. ~(backspace /\ writer # s) => WritesAsIfAlone(s)
      BY <1>1, <2>1, StartsAt, CharStep, NewlineStep, BackspaceStep
    <3> QED BY <2>1, <3>1
  <2>2. CASE ~(WriteChar(s) \/ WriteNewline(s) \/ WriteBackspace(s))
    <3>1. ASSUME NEW t \in Shells, WriteChar(t) \/ WriteNewline(t) \/ WriteBackspace(t)
          PROVE  UNCHANGED <<video_mem[s], terminal[s]>>
      <4>1. t # s
        BY <2>2, <3>1
      <4>2. \/ Confined(t, Advance(terminal_init(t)))
            \/ Confined(t, NextLine(terminal_init(t)))
            \/ Confined(t, Erase(terminal_init(t)))
        BY <1>1, <3>1, CharStep, NewlineStep, BackspaceStep
      <4> QED BY <1>1, <4>1, <4>2 DEF Confined
    <3>2. ASSUME NEW t \in Shells, shell_switch(t)
          PROVE  UNCHANGED <<video_mem[s], terminal[s]>>
      BY <1>1, <3>2, SwitchStep
    <3>3. ASSUME UNCHANGED vars PROVE UNCHANGED <<video_mem[s], terminal[s]>>
      BY <1>1, <3>3, StutterScreen
    <3>4. UNCHANGED <<video_mem[s], terminal[s]>>
      BY <1>1, <3>1, <3>2, <3>3 DEF Next
    <3> QED BY <2>2, <3>4
  <2> QED BY <2>1, <2>2
<1>2. ScreenInv /\ [Next]_vars => \A s \in Shells \ struck' : Own(s)
  BY <1>1
<1> QED BY <1>2, TerminalInvariant, PTL DEF OwnCursor, Spec
=============================================================================
