------------------------------ MODULE TaskList ------------------------------
(***************************************************************************)
(* Tasks and the context switch (src/task/task.c, task.asm and the clock   *)
(* of src/idt/idt.c).  A task is the address of its struct task; the       *)
(* fields of a freed structure keep their values until kzalloc hands the   *)
(* memory to a new task, and a freed task that is still linked may be run. *)
(* An interrupt handler runs with interrupts off, so everything between    *)
(* two user instructions is one step.                                      *)
(***************************************************************************)
EXTENDS Integers, Sequences, FiniteSets

CONSTANTS
  Tasks,          \* addresses that hold a struct task
  NULL,           \* the null pointer
  Values,         \* values of the general registers
  FlagValues,     \* values of the processor flags
  Delay           \* idt_clock: ticks before the first context switch (10)

ASSUME TaskAssumption ==
  /\ NULL \notin Tasks /\ Tasks # {} /\ IsFiniteSet(Tasks)
  /\ 0 \in Values /\ 0 \in FlagValues
  /\ Delay \in Nat

VARIABLES
  list,       \* task_head, task_tail, current_task and the links of the tasks
  alive,      \* the tasks that are allocated
  registers,  \* task->registers of every task
  cpu,        \* registers and page directory of the processor in user mode
  at,         \* history, while intact: the registers of each task when it last ran
  c,          \* ticks counted by idt_clock
  mode,       \* "boot", "user", or how the system ended: "panic" or "crash"
  intact      \* history: every task so far exited in order (InOrder)

vars == <<list, alive, registers, cpu, at, c, mode, intact>>

Pointers == Tasks \cup {NULL}
Context == [gp : Values, flags : FlagValues]
Zeroed == [gp |-> 0, flags |-> 0]                \* memset in task_init

-----------------------------------------------------------------------------
(* The functions of task.c on the list.                                    *)

(* Seeded fault: the list is never walked past its head.                   *)
task_get_next_Head(L) == L.head

task_get_next(L) ==
  IF L.next[L.current] = NULL THEN L.head ELSE L.next[L.current]

(* Seeded fault: new tasks are put in front.                               *)
task_new_AtHead(L, t) ==
  LET Z == [L EXCEPT !.next[t] = NULL, !.prev[t] = NULL]
  IN  IF L.head = NULL
        THEN [Z EXCEPT !.head = t, !.tail = t, !.current = t]
        ELSE [Z EXCEPT !.next[t] = L.head, !.head = t]

task_new(L, t) ==
  LET Z == [L EXCEPT !.next[t] = NULL, !.prev[t] = NULL]
  IN  IF L.head = NULL
        THEN [Z EXCEPT !.head = t, !.tail = t, !.current = t]
        ELSE [Z EXCEPT !.next[L.tail] = t, !.prev[t] = L.tail, !.tail = t]

(* Seeded fault: the head is not moved on.                                 *)
task_list_remove_KeepsHead(L, t) ==
  LET A == IF L.prev[t] = NULL THEN L
           ELSE [L EXCEPT !.next[L.prev[t]] = L.next[t]]
      B == IF t = A.tail THEN [A EXCEPT !.tail = A.prev[t]] ELSE A
  IN  IF t = B.current THEN [B EXCEPT !.current = task_get_next(B)] ELSE B

(* Seeded fault: the tail is not moved back.                               *)
task_list_remove_KeepsTail(L, t) ==
  LET A == IF L.prev[t] = NULL THEN L
           ELSE [L EXCEPT !.next[L.prev[t]] = L.next[t]]
      B == IF t = A.head THEN [A EXCEPT !.head = A.next[t]] ELSE A
  IN  IF t = B.current THEN [B EXCEPT !.current = task_get_next(B)] ELSE B

(* task_list_remove corrects the next of the task before, never the prev   *)
(* of the task after.                                                      *)
task_list_remove(L, t) ==
  LET A == IF L.prev[t] = NULL THEN L
           ELSE [L EXCEPT !.next[L.prev[t]] = L.next[t]]
      B == IF t = A.head THEN [A EXCEPT !.head = A.next[t]] ELSE A
      C == IF t = B.tail THEN [B EXCEPT !.tail = B.prev[t]] ELSE B
  IN  IF t = C.current THEN [C EXCEPT !.current = task_get_next(C)] ELSE C

(* task_switch and task_return: the processor takes the page directory and *)
(* the general registers of task t; the flags are those of the kernel at   *)
(* the time (pushf), not the ones that were saved.                         *)
task_return(t, saved) ==
  \E f \in FlagValues :
    cpu' = [gp |-> saved.gp, flags |-> f, cr3 |-> t]

(* What becomes of the system when it goes on with task t, A being the     *)
(* tasks that are allocated: a freed task may still run as it was, or what *)
(* is left of its structure and page tables brings the system down.        *)
Resumes(t, A) ==
  IF t \in A THEN {"user"} ELSE IF t = NULL THEN {"crash"} ELSE {"user", "crash"}

(* task_next: the task after the current one runs.  A null current_task is *)
(* followed all the same; a list without a head is a panic.                *)
task_next(L, A) ==
  LET next_task == task_get_next(L)
  IN  \/ L.current = NULL /\ mode' = "crash" /\ list' = L /\ UNCHANGED cpu
      \/ /\ L.current # NULL /\ next_task = NULL
         /\ mode' = "panic" /\ list' = L /\ UNCHANGED cpu
      \/ /\ L.current # NULL /\ next_task # NULL
         /\ list' = [L EXCEPT !.current = next_task]
         /\ task_return(next_task, registers'[next_task])
         /\ mode' \in Resumes(next_task, A)

(* task_page, at the end of a handler that returns: the registers are the  *)
(* caller's, the page directory is that of current_task.                   *)
task_page(L, A) ==
  /\ list' = L
  /\ cpu' = [cpu EXCEPT !.cr3 = L.current]
  /\ mode' \in Resumes(L.current, A)

(* Seeded fault: nothing is saved.                                         *)
task_save_state_None == registers

(* The registers of the interrupted task, kept for its next turn.          *)
task_save_state ==
  [registers EXCEPT ![list.current] = [gp |-> cpu.gp, flags |-> cpu.flags]]

-----------------------------------------------------------------------------
Init ==
  /\ list = [head |-> NULL, tail |-> NULL, current |-> NULL,
             next |-> [t \in Tasks |-> NULL], prev |-> [t \in Tasks |-> NULL]]
  /\ alive = {}
  /\ registers = [t \in Tasks |-> Zeroed]
  /\ at = [t \in Tasks |-> Zeroed]
  /\ cpu = [gp |-> 0, flags |-> 0, cr3 |-> NULL]
  /\ c = 0
  /\ mode = "boot"
  /\ intact = TRUE

(* shell_new in kernel_main: a task joins the list and does not run yet.   *)
BootTask(t) ==
  /\ mode = "boot" /\ t \notin alive
  /\ list' = task_new(list, t)
  /\ alive' = alive \cup {t}
  /\ registers' = [registers EXCEPT ![t] = Zeroed]
  /\ at' = [at EXCEPT ![t] = Zeroed]
  /\ UNCHANGED <<cpu, c, mode, intact>>

task_run_first_ever_task ==
  /\ mode = "boot"
  /\ IF list.current = NULL
       THEN mode' = "panic" /\ UNCHANGED <<list, cpu>>
       ELSE /\ mode' = "user"
            /\ list' = [list EXCEPT !.current = list.head]
            /\ task_return(list.head, registers[list.head])
  /\ UNCHANGED <<alive, registers, at, c, intact>>

(* The current task executes in user mode.                                 *)
UserStep ==
  /\ mode = "user"
  /\ \E x \in Context :
       /\ cpu' = [cpu EXCEPT !.gp = x.gp, !.flags = x.flags]
       /\ at' = IF intact THEN [at EXCEPT ![list.current] = x] ELSE at
  /\ UNCHANGED <<list, alive, registers, c, mode, intact>>

(* Seeded fault: the ticks are counted once too often.                     *)
idt_clock_CountsOn ==
  /\ mode = "user"
  /\ c <= Delay /\ c' = c + 1
  /\ registers' = task_save_state
  /\ UNCHANGED <<list, cpu, alive, at, mode, intact>>

(* interrupt_handler with idt_clock: save, then task_next.                 *)
idt_clock ==
  /\ mode = "user"
  /\ registers' = task_save_state
  /\ IF c < Delay
       THEN c' = c + 1 /\ UNCHANGED <<list, cpu, mode>>
       ELSE task_next(list, alive) /\ UNCHANGED c
  /\ UNCHANGED <<alive, at, intact>>

(* System commands 6 and 7 when the program loads: the caller is saved,    *)
(* the new task joins the list and runs at once.                           *)
process_load_start(t) ==
  /\ mode = "user" /\ t \notin alive
  /\ list' = [task_new(list, t) EXCEPT !.current = t]
  /\ alive' = alive \cup {t}
  /\ registers' = [task_save_state EXCEPT ![t] = Zeroed]
  /\ at' = [at EXCEPT ![t] = Zeroed]
  /\ task_return(t, Zeroed)
  /\ UNCHANGED <<c, mode, intact>>

(* Command 7 when the arguments of the loaded program cannot be injected:  *)
(* the caller gets the error, the new task stays in the list.              *)
process_load_only(t) ==
  /\ mode = "user" /\ t \notin alive
  /\ task_page(task_new(list, t), alive \cup {t})
  /\ alive' = alive \cup {t}
  /\ registers' = [task_save_state EXCEPT ![t] = Zeroed]
  /\ at' = [at EXCEPT ![t] = Zeroed]
  /\ UNCHANGED <<c, intact>>

(* process_load_for_slot when process_map_memory fails: the task that was  *)
(* just created is freed again.                                            *)
process_load_fails(t) ==
  /\ mode = "user" /\ t \notin alive
  /\ task_page(task_list_remove(task_new(list, t), t), alive)
  /\ registers' = task_save_state
  /\ UNCHANGED <<alive, at, c, intact>>

(* The prev of task t, which is the task that was last when t was created, *)
(* is the task before t; or t is first and its prev is no task of the      *)
(* system (none, or a freed one).                                          *)
InOrder(t) ==
  IF t = list.head THEN list.prev[t] \notin alive
  ELSE list.prev[t] \in alive /\ list.next[list.prev[t]] = t

(* process_terminate of the current process, as far as it concerns tasks.  *)
process_terminate ==
  /\ mode = "user"
  /\ alive' = alive \ {list.current}
  /\ registers' = task_save_state
  /\ intact' = (intact /\ InOrder(list.current))
  /\ at' = IF intact' THEN at ELSE [t \in Tasks |-> Zeroed]
  /\ UNCHANGED c

(* Command 9 (exit) and idt_handle_execption: process_terminate frees the  *)
(* task, which moves current_task on, and task_next moves on once more.    *)
exit ==
  /\ process_terminate
  /\ task_next(task_list_remove(list, list.current), alive \ {list.current})

(* The same when process_switch_to_any finds no process: while the list is *)
(* intact, that is when the task was the last one.                         *)
exit_panics ==
  /\ process_terminate
  /\ alive = {list.current} \/ ~intact
  /\ list' = task_list_remove(list, list.current)
  /\ mode' = "panic"
  /\ UNCHANGED cpu

Stopped == mode \in {"panic", "crash"} /\ UNCHANGED vars

Next ==
  \/ \E t \in Tasks : BootTask(t) \/ process_load_start(t)
                        \/ process_load_only(t) \/ process_load_fails(t)
  \/ task_run_first_ever_task
  \/ UserStep
  \/ idt_clock
  \/ exit \/ exit_panics
  \/ Stopped

(* The timer keeps interrupting and the boot sequence runs to its end.     *)
Spec ==
  /\ Init /\ [][Next]_vars
  /\ WF_vars(task_run_first_ever_task)
  /\ WF_vars(idt_clock)

-----------------------------------------------------------------------------
(* The tasks met by following next from the head of L, as a sequence.      *)
Walk(L) ==
  LET step[n \in 0 .. Cardinality(Tasks)] ==
        IF n = 0 THEN L.head
        ELSE IF step[n - 1] = NULL THEN NULL ELSE L.next[step[n - 1]]
      length == Cardinality({n \in 0 .. Cardinality(Tasks) : step[n] # NULL})
  IN  [i \in 1 .. length |-> step[i - 1]]

Chain == Walk(list)

(* Type invariant: pointers lead to tasks and registers hold values.       *)
TypeOK ==
  /\ list \in [head : Pointers, tail : Pointers, current : Pointers,
               next : [Tasks -> Pointers], prev : [Tasks -> Pointers]]
  /\ alive \subseteq Tasks
  /\ registers \in [Tasks -> Context] /\ at \in [Tasks -> Context]
  /\ cpu \in [gp : Values, flags : FlagValues, cr3 : Pointers]
  /\ c \in 0 .. Delay
  /\ mode \in {"boot", "user", "panic", "crash"} /\ intact \in BOOLEAN
  /\ mode = "user" => list.current \in Tasks

(* The list that task_next walks has every task of the system, once, and   *)
(* ends at task_tail; nothing in it has been freed.                        *)
Sound ==
  /\ Len(Chain) = Cardinality(alive)
  /\ {Chain[i] : i \in DOMAIN Chain} = alive
  /\ alive # {} => list.tail = Chain[Len(Chain)]
  /\ mode = "user" => list.current \in alive

(* The list stays sound, however tasks are created, fail to load and exit, *)
(* until one exits out of order: task_list_remove trusts the prev of the   *)
(* task, which nothing corrects when the task before it goes.              *)
ListSound == intact => Sound

(* An exit leaves the list sound exactly if it was in order.  So a stale   *)
(* prev always does harm, except to a task that has become the first one   *)
(* while the memory its prev leads to is not a task again.                 *)
BreaksExactly == [][exit /\ intact => (Sound' <=> intact')]_vars

(* A task is resumed with the general registers it had when it was stopped *)
(* and in its own page directory, whoever ran in between, as long as tasks *)
(* exit in order.                                                          *)
ContextIntact ==
  mode = "user" /\ intact =>
    /\ cpu.cr3 = list.current
    /\ cpu.gp = at[list.current].gp
    /\ \A t \in alive \ {list.current} : registers[t].gp = at[t].gp

(* "we change all register to the tasks registers, which also includes all *)
(* the flags" (task_run_first_ever_task): so do the flags.                 *)
FlagsIntact ==
  mode = "user" /\ intact => cpu.flags = at[list.current].flags

(* "Removes the task from the system completely" (task_free): no pointer   *)
(* that the scheduler follows leads to a freed task.                       *)
NothingFreedIsLinked ==
  mode = "user" =>
    /\ {list.head, list.tail, list.current} \subseteq alive
    /\ \A t \in alive : list.next[t] \in alive \cup {NULL}

(* The linked list implements the run queue, which is lost with the first  *)
(* exit out of order.                                                      *)
Queue == INSTANCE RunQueue WITH order <- Chain, running <- list.current,
                                behind <- list.prev
ImplementsRunQueue == Queue!Spec

(* "on every clock we switch to the next task (multitasking)" (idt_clock): *)
(* every task of the system runs again and again as the clock ticks.  Only *)
(* a list that is intact is asked for this: a task behind one that exited  *)
(* out of order may never be met again.                                    *)
NoStarvation ==
  \A t \in Tasks :
    (mode = "user" /\ t \in alive)
      ~> (list.current = t \/ t \notin alive \/ ~intact)

(* Every task runs again and again as the clock ticks, even while others   *)
(* start programs, which run at once and move the clock's position to the  *)
(* end of the list, unless tasks keep exiting for ever or two neighbours   *)
(* have exited: then the list is no longer intact, and what is left of it  *)
(* may miss a task for ever.                                               *)
NoStarvationWithoutExits == []<><<exit>>_vars \/ NoStarvation
=============================================================================
