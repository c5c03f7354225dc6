------------------------------ MODULE Terminal ------------------------------
(***************************************************************************)
(* The text terminals of the shells (src/video/video.c, and shell_switch   *)
(* of src/task/shell.c).  Every shell has a video buffer and a cursor; the *)
(* task that prints works on those of its shell through the global         *)
(* variables terminal_row, terminal_col and backspace.  Characters come    *)
(* one system call or one loop turn of print at a time; the clock may run  *)
(* a task of another shell between two calls.                              *)
(***************************************************************************)
EXTENDS Integers

CONSTANTS
  Shells,       \* the shells, each with tasks that print
  Width,        \* VGA_WIDTH
  BufferCells,  \* cells of a video buffer (2048: 4096 bytes)
  Range16       \* number of values of a uint16_t (65536)

ASSUME TerminalAssumption ==
  /\ Shells # {}
  /\ Width \in Nat \ {0} /\ BufferCells \in Nat
  /\ Range16 \in Nat /\ Range16 > Width

VARIABLES
  video_mem,      \* the video buffer of every shell
  terminal,       \* the saved cursor of every shell
  cursor,         \* terminal_row and terminal_col
  backspace,      \* the global flag of terminal_writechar
  current_shell,  \* the shell on the screen
  screen,         \* the memory of the display, 0xB8000
  writer,         \* history: the shell that wrote last
  outside,        \* history: a character was written outside its buffer
  struck          \* history: the shells whose buffer or cursor one has hit

vars == <<video_mem, terminal, cursor, backspace, current_shell, screen,
          writer, outside, struck>>

Cells == 0 .. (BufferCells - 1)
Chars == {" ", "x"}
Counter == 0 .. (Range16 - 1)
Cursor == [row : Counter, col : Counter]
Home == [row |-> 0, col |-> 0]
Blank == [i \in Cells |-> " "]                            \* shell_initialize

Index(at) == at.row * Width + at.col

(* Seeded fault: a counter that does not wrap.                             *)
Dec_Signed(n) == n - 1

Dec(n) == (n - 1) % Range16
Inc(n) == (n + 1) % Range16

NextLine(at) == [row |-> Inc(at.row), col |-> 0]

(* The cursor after a character was written at it.                         *)
Advance(at) ==
  IF Inc(at.col) >= Width THEN NextLine(at) ELSE [at EXCEPT !.col = Inc(at.col)]

(* terminal_backspace steps back, to the last column of the line above if  *)
(* need be, and writes a blank there.                                      *)
StepBack(at) ==
  IF at.col = 0 THEN [row |-> Dec(at.row), col |-> Width - 1]
  ELSE [at EXCEPT !.col = Dec(at.col)]

(* The blank moves the cursor on; then it goes one column back.            *)
Erase(at) ==
  LET then == Advance(StepBack(at))
  IN  IF at = Home THEN at ELSE [then EXCEPT !.col = Dec(then.col)]

-----------------------------------------------------------------------------
Init ==
  /\ video_mem = [s \in Shells |-> Blank]
  /\ terminal = [s \in Shells |-> Home]
  /\ cursor = Home
  /\ backspace = FALSE
  /\ current_shell \in Shells /\ writer \in Shells
  /\ screen = Blank
  /\ outside = FALSE /\ struck = {}

(* Seeded fault: the cursor is saved for all shells.                       *)
terminal_save_All(s, at, saved) ==
  /\ cursor' = at /\ writer' = s
  /\ terminal' = [t \in Shells |-> at]

(* terminal_save, at the end of what a task of shell s writes.             *)
terminal_save(s, at, saved) ==
  /\ cursor' = at /\ writer' = s
  /\ terminal' = [saved EXCEPT ![s] = at]

(* A character outside the buffer goes to the heap behind it, which holds  *)
(* the buffers and cursors of the shells and much that is not modelled     *)
(* here: hit is a shell whose memory it changes.                           *)
HitsBuffer(hit, ch) ==
  \E i \in Cells : video_mem' = [video_mem EXCEPT ![hit][i] = ch]

HitCursors(hit) ==
  UNION {{[terminal EXCEPT ![hit].row = n], [terminal EXCEPT ![hit].col = n]} : n \in Counter}

Spill(s, ch, after) ==
  /\ outside' = TRUE
  /\ \/ UNCHANGED <<video_mem, struck>> /\ terminal_save(s, after, terminal)
     \/ \E hit \in Shells :
          /\ struck' = struck \cup {hit}
          /\ \/ HitsBuffer(hit, ch) /\ terminal_save(s, after, terminal)
             \/ /\ UNCHANGED video_mem
                /\ \E saved \in HitCursors(hit) : terminal_save(s, after, saved)

(* terminal_putchar for a task of shell s, which moves the cursor on; the  *)
(* whole buffer is copied to the screen if s is the current shell.         *)
terminal_putchar(s, at, ch, after) ==
  /\ \/ /\ Index(at) \in Cells
        /\ video_mem' = [video_mem EXCEPT ![s][Index(at)] = ch]
        /\ terminal_save(s, after, terminal)
        /\ UNCHANGED <<outside, struck>>
     \/ Index(at) \notin Cells /\ Spill(s, ch, after)
  /\ screen' = IF s = current_shell THEN video_mem'[s] ELSE screen

(* terminal_init, which terminal_writechar skips while backspace is set.   *)
terminal_init(s) == IF backspace THEN cursor ELSE terminal[s]

WriteChar(s) ==
  LET at == terminal_init(s)
  IN  /\ terminal_putchar(s, at, "x", Advance(at))
      /\ UNCHANGED <<backspace, current_shell>>

WriteNewline(s) ==
  /\ terminal_save(s, NextLine(terminal_init(s)), terminal)
  /\ UNCHANGED <<video_mem, backspace, current_shell, screen, outside, struck>>

(* terminal_backspace: in the first cell it returns with the flag set.     *)
WriteBackspace(s) ==
  LET at == terminal_init(s)
  IN  /\ IF at = Home
           THEN /\ terminal_save(s, at, terminal)
                /\ UNCHANGED <<video_mem, screen, outside, struck>>
           ELSE terminal_putchar(s, StepBack(at), " ", Erase(at))
      /\ backspace' = (at = Home)
      /\ UNCHANGED current_shell

(* Seeded fault: the display keeps the old picture.                        *)
shell_switch_NoCopy(s) ==
  /\ current_shell' = s
  /\ UNCHANGED <<video_mem, terminal, cursor, backspace, screen, writer, outside, struck>>

shell_switch(s) ==
  /\ current_shell' = s
  /\ screen' = video_mem[s]
  /\ UNCHANGED <<video_mem, terminal, cursor, backspace, writer, outside, struck>>

Next ==
  \E s \in Shells :
    WriteChar(s) \/ WriteNewline(s) \/ WriteBackspace(s) \/ shell_switch(s)

Spec == Init /\ [][Next]_vars

-----------------------------------------------------------------------------
(* Type invariant: buffers hold characters, cursors are 16-bit.            *)
TypeOK ==
  /\ video_mem \in [Shells -> [Cells -> Chars]]
  /\ terminal \in [Shells -> Cursor] /\ cursor \in Cursor
  /\ backspace \in BOOLEAN /\ outside \in BOOLEAN
  /\ current_shell \in Shells /\ writer \in Shells /\ struck \subseteq Shells
  /\ screen \in [Cells -> Chars]

(* The screen shows the buffer of the current shell, whichever shells      *)
(* print in the background and however often the user switches, unless a   *)
(* character that missed its own buffer has hit this one.                  *)
ScreenShowsCurrent ==
  current_shell \notin struck => screen = video_mem[current_shell]

(* What shell s writes is written at its own cursor and moves that.        *)
WritesAsIfAlone(s) ==
  LET at == terminal[s]
      OnlyAt(place) == \A i \in Cells : i # Index(place) => video_mem'[s][i] = video_mem[s][i]
  IN  \/ WriteChar(s) /\ terminal'[s] = Advance(at) /\ OnlyAt(at)
      \/ WriteNewline(s) /\ terminal'[s] = NextLine(at) /\ UNCHANGED video_mem
      \/ WriteBackspace(s) /\ terminal'[s] = Erase(at) /\ OnlyAt(StepBack(at))

(* A shell goes on writing where it stopped, whoever printed in between,   *)
(* and what it writes moves no other shell's cursor and changes no other   *)
(* shell's buffer.  Left out are shells that a write outside a buffer has  *)
(* hit, and a write by another shell than the last while the flag of       *)
(* terminal_backspace is left set, which skips terminal_init.              *)
OwnCursor ==
  [][\A s \in Shells \ struck' :
       IF WriteChar(s) \/ WriteNewline(s) \/ WriteBackspace(s)
         THEN WritesAsIfAlone(s) \/ (backspace /\ writer # s)
         ELSE UNCHANGED <<video_mem[s], terminal[s]>>]_vars

(* "get terminal information from shell this tasks process belongs to"     *)
(* (terminal_init): every character goes to the cursor of the shell that   *)
(* prints it.                                                              *)
AlwaysOwnCursor ==
  [][\A s \in Shells : WriteChar(s) => terminal'[s] = Advance(terminal[s])]_vars

(* "puts a character into the shells video buffer" (terminal_putchar).     *)
StaysInBuffer == ~outside
=============================================================================
