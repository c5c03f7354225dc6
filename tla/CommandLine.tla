---------------------------- MODULE CommandLine ----------------------------
(***************************************************************************)
(* From the key to the command: the keyboard driver of                     *)
(* src/keyboard/classic.c fills the ring of the process in the foreground, *)
(* the shell (programs/shell/src/shell.c) takes a line from its ring, cuts *)
(* it into words and runs the built-in command the first word names, with  *)
(* the routines of programs/stdlib/src/peachos.c and string.c.  Characters *)
(* are ASCII codes.  The interrupt comes between any two system calls.     *)
(***************************************************************************)
EXTENDS Keyboard, FiniteSets

CONSTANTS
  Scancodes,    \* bytes the keyboard sends
  PastTable,    \* what the byte after the table of characters may hold
  MaxLine,      \* size of the shell's buffer (1024)
  MaxArgument,  \* size of command_argument.argument (512)
  EraseEmpty,   \* whether the user presses backspace when there is nothing to erase
  MaxTyped      \* bound: keys pressed for one line

BS == 8
CR == 13
SPACE == 32
SWITCH == 96      \* the character that switches shells

ASSUME CommandLineAssumption ==
  /\ NUL = 0 /\ Scancodes \subseteq 0 .. 255 /\ PastTable \subseteq Keys \cup {NUL}
  /\ MaxLine \in Nat /\ MaxLine >= 2 /\ MaxArgument \in Nat \ {0}
  /\ MaxTyped \in Nat

VARIABLES
  caps,      \* classic_keyboard.capslock_state
  phase,     \* the shell is in "read", "parse" or "ran"
  line,      \* out[0 .. i - 1] of peachos_terminal_readline
  sp,        \* the static pointer of strtok, as a position; null: 0
  commands,  \* the list peachos_parse_command returned; null: <<>>
  ran,       \* the built-in commands parsenexec ran
  typed,     \* history: characters that reached the ring since the line began
  short      \* history: memory has run out "never", "now" or "before"

cvars == <<vars, caps, phase, line, sp, commands, ran, typed, short>>
shell == <<phase, line, sp, commands, ran, short>>

keyboard_scan_set_one ==
  <<0, 27, 49, 50, 51, 52, 53, 54, 55, 56, 57, 48, 45, 61, 8, 9, 81, 87, 69, 82, 84,
    89, 85, 73, 79, 80, 91, 93, 13, 0, 65, 83, 68, 70, 71, 72, 74, 75, 76, 59, 39, 96,
    0, 92, 90, 88, 67, 86, 66, 78, 77, 44, 46, 47, 0, 42, 0, 32, 0, 0, 0, 0, 0, 0, 0,
    0, 0, 0, 0, 55, 56, 57, 45, 52, 53, 54, 43, 49, 50, 51, 48, 46>>

(* The shell's own commands: cd, ls, pwd and -h.                           *)
Builtins == {<<99, 100>>, <<108, 115>>, <<112, 119, 100>>, <<45, 104>>}

-----------------------------------------------------------------------------
(* The check lets the code that equals the size of the table pass.         *)
classic_keyboard_scancode_to_char(scancode, on) ==
  {IF ~on /\ c \in 65 .. 90 THEN c + 32 ELSE c :
     c \in IF scancode > Len(keyboard_scan_set_one) THEN {NUL}
           ELSE IF scancode = Len(keyboard_scan_set_one) THEN PastTable
           ELSE {keyboard_scan_set_one[scancode + 1]}}

(* Keys holds what the scan codes can put into a ring.                     *)
ASSUME KeysAssumption ==
  \A s \in Scancodes, on \in BOOLEAN :
    classic_keyboard_scancode_to_char(s, on) \subseteq Keys \cup {NUL, SWITCH}

(* The n-th number of a set, from the least on.                            *)
Nth(S, n) == CHOOSE i \in S : Cardinality({j \in S : j <= i}) = n

(* The reference for a line: a character stays if at no later time more    *)
(* characters have been erased than typed since.  The return key is not    *)
(* part of the line.                                                       *)
Erased(s, i, j) == Cardinality({k \in (i + 1) .. j : s[k] = BS})
Stays(s) == {i \in DOMAIN s : /\ s[i] \notin {BS, CR}
                              /\ \A j \in i .. Len(s) : 2 * Erased(s, i, j) <= j - i}
Edited(s) == [n \in 1 .. Cardinality(Stays(s)) |-> s[Nth(Stays(s), n)]]

(* There is a character in this line to erase, typed ahead or not, and the *)
(* line has not been full.                                                 *)
CanErase ==
  /\ phase = "read" /\ ~\E i \in DOMAIN typed : typed[i] = CR
  /\ Edited(typed) # <<>>
  /\ \A n \in DOMAIN typed : Len(Edited(SubSeq(typed, 1, n))) < MaxLine - 1

(* Interrupt 0x21 while this shell is in the foreground.  The key that     *)
(* switches shells never reaches a ring; where the keys go after it is in  *)
(* module Kernel.                                                          *)
classic_keyboard_interrupt_handler(scancode) ==
  /\ scancode < 128                            \* CLASSIC_KEYBOARD_KEY_RELEASED
  /\ caps' = IF scancode = 58 THEN ~caps ELSE caps
  /\ \E c \in classic_keyboard_scancode_to_char(scancode, caps') :
       \/ /\ c \in {SWITCH, NUL}
          /\ UNCHANGED <<vars, typed>>
       \/ /\ c \notin {SWITCH, NUL}
          /\ c = BS => (EraseEmpty \/ CanErase)
          /\ Len(typed) < MaxTyped
          /\ keyboard_push(c)
          /\ typed' = Append(typed, c)
  /\ UNCHANGED shell

-----------------------------------------------------------------------------
(* Seeded fault: the position is not taken back by a backspace.            *)
Store_NoStepBack(key) ==
  \/ /\ key = BS /\ Len(line) >= 1
     /\ line' = [line EXCEPT ![Len(line)] = NUL]
     /\ UNCHANGED phase
  \/ /\ ~(key = BS /\ Len(line) >= 1)
     /\ line' = Append(line, key)
     /\ phase' = IF Len(line') < MaxLine - 1 THEN "read" ELSE "parse"

(* The body of the loop for a key: a backspace takes one character back,   *)
(* unless there is none: then it is stored.                                *)
Store(key) ==
  \/ /\ key = BS /\ Len(line) >= 1
     /\ line' = SubSeq(line, 1, Len(line) - 1)
     /\ UNCHANGED phase
  \/ /\ ~(key = BS /\ Len(line) >= 1)
     /\ line' = Append(line, key)
     /\ phase' = IF Len(line') < MaxLine - 1 THEN "read" ELSE "parse"

(* peachos_terminal_readline: one getkey, and what is done with its key.   *)
peachos_terminal_readline ==
  /\ phase = "read"
  /\ keyboard_pop
  /\ \/ got' = NUL /\ UNCHANGED <<line, phase>>          \* peachos_getkeyblock
     \/ got' = CR /\ phase' = "parse" /\ UNCHANGED line
     \/ got' \notin {NUL, CR} /\ Store(got')
  /\ UNCHANGED <<caps, sp, commands, ran, typed, short>>

-----------------------------------------------------------------------------
First(S) == CHOOSE i \in S : \A j \in S : i <= j

(* Seeded fault: only one delimiter is passed over.                        *)
strtok_OneSpace(s, at) ==
  LET start == IF at <= Len(s) /\ s[at] = SPACE THEN at + 1 ELSE at
      end == First({i \in start .. Len(s) : s[i] = SPACE} \cup {Len(s) + 1})
  IN  IF at = 0 \/ start > Len(s) THEN [token |-> <<>>, sp |-> 0]
      ELSE [token |-> SubSeq(s, start, end - 1),
            sp |-> IF end <= Len(s) THEN end + 1 ELSE end]

(* strtok from position at of the string s, which ends after Len(s): the   *)
(* next token, <<>> if there is none, and the new value of sp.             *)
strtok(s, at) ==
  LET start == First({i \in at .. Len(s) : s[i] # SPACE} \cup {Len(s) + 1})
      end == First({i \in start .. Len(s) : s[i] = SPACE} \cup {Len(s) + 1})
  IN  IF at = 0 \/ start > Len(s) THEN [token |-> <<>>, sp |-> 0]
      ELSE [token |-> SubSeq(s, start, end - 1),
            sp |-> IF end <= Len(s) THEN end + 1 ELSE end]

strncpy(s, count) == SubSeq(s, 1, IF Len(s) < count THEN Len(s) ELSE count - 1)

tolower(c) == IF c \in 65 .. 90 THEN c + 32 ELSE c
Char(s, i) == IF i <= Len(s) THEN s[i] ELSE NUL

(* Seeded fault: capital letters are not the same.                         *)
istrncmp_CaseSensitive(s1, s2) ==
  IF s1 = s2 THEN 0 ELSE 1

(* istrncmp of the user library: at the first difference the result is the *)
(* character of s2 (u1 = u2), which is 0 if s2 ends there.                 *)
istrncmp(s1, s2) ==
  LET differ == {i \in 1 .. (Len(s1) + 1) : tolower(Char(s1, i)) # tolower(Char(s2, i))}
  IN  IF differ = {} THEN 0 ELSE Char(s2, First(differ))

(* The calls of strtok in peachos_parse_command: the n-th one.  A pointer  *)
(* sp that is left from before is used in place of the new string.         *)
Tokens(s) ==
  LET call[n \in 1 .. (Len(s) + 1)] ==
        strtok(s, IF n > 1 THEN call[n - 1].sp ELSE IF sp = 0 THEN 1 ELSE sp)
  IN  call

(* What parsenexec runs for a list of arguments.  It does not ask whether  *)
(* there is one: a null pointer reads the bytes at address 0.              *)
Named(list) ==
  IF list = <<>> THEN {{}, Builtins}
  ELSE {{b \in Builtins : istrncmp(b, list[1]) = 0}}

(* peachos_parse_command with memory for n arguments, and parsenexec.      *)
parsenexec(n) ==
  LET call == Tokens(line)
      total == First({k \in 1 .. (Len(line) + 1) : call[k].token = <<>>}) - 1
      m == IF n < total THEN n ELSE total
  IN  /\ phase = "parse" /\ sp <= Len(line) + 1
      /\ commands' = [k \in 1 .. m |-> strncpy(call[k].token, MaxArgument)]
      /\ sp' = call[m + 1].sp
      /\ short' = IF m < total /\ short = "never" THEN "now" ELSE short
      /\ ran' \in Named(commands')
      /\ phase' = "ran"
      /\ UNCHANGED <<vars, caps, line, typed>>

(* sp is left from a longer line: there is no telling what it points to,   *)
(* the end of a string or some word.                                       *)
parsenexec_Stale ==
  /\ phase = "parse" /\ sp > Len(line) + 1
  /\ commands' \in {<<>>, <<<<SWITCH>>>>}
  /\ ran' \in {{}, Builtins}
  /\ sp' \in {0, sp}
  /\ phase' = "ran"
  /\ UNCHANGED <<vars, caps, line, typed, short>>

(* Back to the prompt.  The arguments are never freed.                     *)
Prompt ==
  /\ phase = "ran"
  /\ phase' = "read" /\ line' = <<>> /\ commands' = <<>> /\ ran' = {}
  /\ short' = IF short = "now" THEN "before" ELSE short
  /\ typed' = SubSeq(typed, Len(typed) - Pending + 1, Len(typed))
  /\ UNCHANGED <<vars, caps, sp>>

CInit ==
  /\ Init
  /\ caps = FALSE /\ phase = "read" /\ line = <<>>
  /\ sp = 0 /\ commands = <<>> /\ ran = {} /\ typed = <<>> /\ short = "never"

Parse == (\E n \in 0 .. (MaxLine \div 2) : parsenexec(n)) \/ parsenexec_Stale

CNext ==
  \/ peachos_terminal_readline
  \/ Parse
  \/ Prompt
  \/ \E s \in Scancodes : classic_keyboard_interrupt_handler(s)

(* The shell never blocks in the kernel: it polls, and goes on when it is  *)
(* its task's turn.  A step of CNext from "parse" to "ran" is Parse, which *)
(* can always be taken in "parse".                                         *)
Parses == phase = "parse" /\ phase' = "ran"

CSpec ==
  /\ CInit /\ [][CNext]_cvars
  /\ WF_cvars(peachos_terminal_readline) /\ WF_phase(Parses) /\ WF_cvars(Prompt)

-----------------------------------------------------------------------------
(* The characters of this line that the shell has taken from its ring.     *)
Taken == SubSeq(typed, 1, Len(typed) - Pending)

(* Type invariant of the keyboard driver and the shell.                    *)
CTypeOK ==
  /\ TypeOK
  /\ phase \in {"read", "parse", "ran"} /\ short \in {"never", "now", "before"}
  /\ Len(line) \in 0 .. (MaxLine - 1) /\ sp \in 0 .. MaxLine
  /\ Pending <= Len(typed)

(* The line is what was typed, corrected as the user corrected it, however *)
(* far the typing was ahead of the shell, also when it went on while the   *)
(* line before was run, and wherever in the ring the characters were.      *)
LineIsWhatWasTyped ==
  line = Edited(Taken)

(* The words of a line: the pieces between spaces, cut to the size of an   *)
(* argument.                                                               *)
Starts(s) == {i \in DOMAIN s : s[i] # SPACE /\ (i = 1 \/ s[i - 1] = SPACE)}
WordLength(s, i) == CHOOSE l \in 1 .. Len(s) :
                      /\ \A k \in i .. (i + l - 1) : k <= Len(s) /\ s[k] # SPACE
                      /\ i + l <= Len(s) => s[i + l] = SPACE
Words(s) ==
  LET word(i) == SubSeq(s, i, i + WordLength(s, i) - 1)
  IN  [n \in 1 .. Cardinality(Starts(s)) |-> strncpy(word(Nth(Starts(s), n)), MaxArgument)]

(* The list of arguments is the words of the line (peachos_parse_command), *)
(* and strtok is ready for the next line; the first of the words if memory *)
(* ran out.  Nothing is said of the lines after that: strtok has kept its  *)
(* place in a line that is gone.                                           *)
ArgumentsAreWords ==
  phase = "ran" =>
    /\ short = "never" => commands = Words(line) /\ sp = 0
    /\ short = "now" => /\ Len(commands) < Len(Words(line))
                        /\ commands = SubSeq(Words(line), 1, Len(commands))

(* "this string compare function is not case sensitive" (istrncmp): a      *)
(* command runs exactly if the first word is its name, in capitals or not; *)
(* not said of a word that the name goes on from, which istrncmp takes for *)
(* equal.                                                                  *)
RunsCommand ==
  (phase = "ran" /\ short = "never" /\ commands # <<>>) =>
    LET word == [i \in DOMAIN Words(line)[1] |-> tolower(Words(line)[1][i])]
        shorter(b) == Len(word) < Len(b) /\ word = SubSeq(b, 1, Len(word))
    IN  \A b \in Builtins : ~shorter(b) => (b \in ran <=> word = b)

(* Once the return key is in the ring, the shell comes to run a line.      *)
EnterRuns ==
  (\E i \in 0 .. (Pending - 1) : buffer[(head + i) % Size] = CR) ~> (phase = "parse")

(* Not true of the code: a command runs only if it is typed in full, and   *)
(* a line is parsed whatever became of the lines before it.                *)
RunsOnlyNamed ==
  \A b \in ran : commands # <<>> /\ [i \in DOMAIN commands[1] |-> tolower(commands[1][i])] = b
LinesAreParsedAlone ==
  (phase = "ran" /\ short # "now") => commands = Words(line)
=============================================================================
