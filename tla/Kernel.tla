------------------------------- MODULE Kernel -------------------------------
(***************************************************************************)
(* Processes and shells on top of the task list (src/task/process.c,       *)
(* shell.c, src/kernel.c, and the commands of src/isr80h/process.c): the   *)
(* table of processes, the foreground process that the keyboard feeds, the *)
(* shells and the key that switches between them.  A struct process is     *)
(* never freed, so each element of Procs is loaded at most once.           *)
(***************************************************************************)
EXTENDS TaskList

CONSTANTS
  Procs,          \* the struct process that are ever allocated
  MaxProcesses,   \* PEACHOS_MAX_PROCESSES
  NumShells,      \* shells that kernel_main creates (5)
  BootMayFail     \* whether shell_new may fail (no memory, shell.elf unreadable)

ASSUME KernelAssumption ==
  /\ NULL \notin Procs
  /\ MaxProcesses \in Nat \ {0} /\ NumShells \in 1 .. MaxProcesses
  /\ BootMayFail \in BOOLEAN

Slots == 0 .. (MaxProcesses - 1)
ShellIds == 0 .. (NumShells - 1)

VARIABLES
  processes,        \* the table: slot -> process or NULL
  current_process,  \* the foreground process
  process,          \* task->process of every task
  task,             \* process->task of every process
  id,               \* process->id of every process
  shell,            \* process->shell of every process, NULL if never set
  loaded,           \* history: the processes loaded so far
  booted,           \* the number of shell_new calls kernel_main has made
  shells,           \* shell id -> its process[0], NULL if shells[id] is null
  current_shell     \* shell_id of the current shell, NULL if there is none

procVars == <<processes, current_process, process, task, id, loaded>>
shellVars == <<shell, booted, shells, current_shell>>
kvars == <<vars, procVars, shellVars>>

process_get_free_slot(s) ==
  processes[s] = NULL /\ \A i \in 0 .. (s - 1) : processes[i] # NULL

-----------------------------------------------------------------------------
KInit ==
  /\ Init
  /\ processes = [s \in Slots |-> NULL]
  /\ current_process = NULL
  /\ process = [t \in Tasks |-> NULL]
  /\ task = [p \in Procs |-> NULL]
  /\ id = [p \in Procs |-> NULL]
  /\ shell = [p \in Procs |-> NULL]
  /\ loaded = {} /\ booted = 0
  /\ shells = [i \in ShellIds |-> NULL]
  /\ current_shell = NULL

(* process_load_switch when everything succeeds: a free slot, a struct     *)
(* process and a task, linked to each other; the process goes to the       *)
(* foreground.                                                             *)
process_load_switch(p, t) ==
  /\ p \notin loaded
  /\ \E s \in Slots :
       /\ process_get_free_slot(s)
       /\ processes' = [processes EXCEPT ![s] = p]
       /\ id' = [id EXCEPT ![p] = s]
  /\ process' = [process EXCEPT ![t] = p]
  /\ task' = [task EXCEPT ![p] = t]
  /\ loaded' = loaded \cup {p}
  /\ current_process' = p

(* Seeded fault: kernel_main makes one shell too many.                     *)
shell_new_TooMany(p, t) ==
  /\ booted <= NumShells
  /\ BootTask(t)
  /\ process_load_switch(p, t)
  /\ shell' = [shell EXCEPT ![p] = booted]
  /\ shells' = [shells EXCEPT ![booted] = p]
  /\ current_shell' = booted
  /\ booted' = booted + 1

(* shell_new, called by kernel_main for 0, 1, ... in turn: load shell.elf, *)
(* link process and shell both ways, make the shell current.               *)
shell_new(p, t) ==
  /\ booted < NumShells
  /\ BootTask(t)
  /\ process_load_switch(p, t)
  /\ shell' = [shell EXCEPT ![p] = booted]
  /\ shells' = [shells EXCEPT ![booted] = p]
  /\ current_shell' = booted
  /\ booted' = booted + 1

(* shell_new when process_load_switch fails: shells[id] stays null and     *)
(* kernel_main, which ignores the result, goes on to the next id.          *)
shell_new_fails ==
  /\ mode = "boot" /\ booted < NumShells
  /\ BootMayFail
  /\ booted' = booted + 1
  /\ UNCHANGED <<vars, procVars, shell, shells, current_shell>>

RunFirst ==
  /\ booted = NumShells
  /\ task_run_first_ever_task
  /\ UNCHANGED <<procVars, shellVars>>

Clock == idt_clock /\ UNCHANGED <<procVars, shellVars>>

(* Commands 6 and 7: the new process has no shell.                         *)
LoadStart(p, t) ==
  /\ process_load_start(t)
  /\ process_load_switch(p, t)
  /\ UNCHANGED shellVars

(* Command 7 when process_inject_arguments fails after the load.           *)
LoadOnly(p, t) ==
  /\ process_load_only(t)
  /\ process_load_switch(p, t)
  /\ UNCHANGED shellVars

(* Command 6 or 7 when process_map_memory fails: the struct process is     *)
(* lost, its task freed, nothing is entered in the table.                  *)
LoadFails(p, t) ==
  /\ p \notin loaded
  /\ \E s \in Slots : process_get_free_slot(s) /\ id' = [id EXCEPT ![p] = s]
  /\ process_load_fails(t)
  /\ loaded' = loaded \cup {p}
  /\ process' = [process EXCEPT ![t] = p]
  /\ task' = [task EXCEPT ![p] = t]
  /\ UNCHANGED <<processes, current_process, shellVars>>

(* Command 6 or 7 when there is no memory for the task: task_new frees a   *)
(* null pointer and returns ERROR(-ENOMEM), which the comparison with 0    *)
(* does not catch, and the load goes on with that value for a task.        *)
LoadCrashes(p) ==
  /\ mode = "user" /\ p \notin loaded
  /\ \E s \in Slots : process_get_free_slot(s)
  /\ mode' = "crash"
  /\ registers' = task_save_state
  /\ UNCHANGED <<list, alive, cpu, at, c, intact, procVars, shellVars>>

(* Commands that change neither tasks nor processes: the others of the     *)
(* table, a number outside it, a load refused before there is a task (no   *)
(* slot, no such file, no memory).                                         *)
isr80h_handle_command ==
  /\ mode = "user"
  /\ registers' = task_save_state
  /\ UNCHANGED <<list, alive, cpu, at, c, mode, intact, procVars, shellVars>>

(* A number within the table that has no command: panic.                   *)
UnknownCommand ==
  /\ mode = "user"
  /\ mode' = "panic"
  /\ registers' = task_save_state
  /\ UNCHANGED <<list, alive, cpu, at, c, intact, procVars, shellVars>>

(* Commands 1 and 3: print and putchar, to the shell of the process.  With *)
(* none, what the kernel reads and writes through the null pointer may or  *)
(* may not leave it running.                                               *)
PrintCommand ==
  /\ mode = "user"
  /\ mode' \in IF shell[process[list.current]] = NULL THEN {"user", "crash"} ELSE {"user"}
  /\ registers' = task_save_state
  /\ UNCHANGED <<list, alive, cpu, at, c, intact, procVars, shellVars>>

(* Seeded fault: only the foreground process leaves the table.             *)
process_unlink_ForegroundOnly(p) ==
  IF current_process # p THEN UNCHANGED <<processes, current_process>>
  ELSE /\ processes' = [processes EXCEPT ![id[p]] = NULL]
       /\ current_process' \in ({processes'[s] : s \in Slots} \ {NULL}) \cup {p}

(* Seeded fault: the foreground process is not replaced.                   *)
process_unlink_KeepsForeground(p) ==
  /\ processes' = [processes EXCEPT ![id[p]] = NULL]
  /\ UNCHANGED current_process

(* process_unlink, with process_switch_to_any if p was in the foreground.  *)
process_unlink(p) ==
  /\ processes' = [processes EXCEPT ![id[p]] = NULL]
  /\ IF current_process # p \/ \A s \in Slots : processes'[s] = NULL
       THEN UNCHANGED current_process
       ELSE \E s \in Slots :
              /\ processes'[s] # NULL
              /\ \A i \in 0 .. (s - 1) : processes'[i] = NULL
              /\ current_process' = processes'[s]

(* Command 9 and every exception: process_terminate, then task_next.  A    *)
(* freed task that still runs can end its process again: the slot that is  *)
(* emptied is then perhaps that of another.                                *)
Exit ==
  LET p == process[list.current]
  IN  /\ mode = "user"
      /\ process_unlink(p)
      /\ IF current_process = p /\ \A s \in Slots : processes'[s] = NULL
           THEN exit_panics
           ELSE exit
      /\ UNCHANGED <<process, task, id, loaded, shellVars>>

(* shell_switch: does nothing if there is no such shell.                   *)
shell_switch(s) ==
  IF shells[s] = NULL
    THEN UNCHANGED <<current_shell, current_process>>
    ELSE current_shell' = s /\ current_process' = shells[s]

(* Seeded fault: the last shell is not followed by the first.              *)
next_shell_Stays(s) == IF s + 1 \in ShellIds THEN s + 1 ELSE s

(* The shell that shell_switch_to_next asks for when s is the current one. *)
next_shell(s) ==
  IF s + 1 \in ShellIds /\ shells[s + 1] # NULL THEN s + 1 ELSE 0

shell_switch_to_next == shell_switch(next_shell(current_shell))

(* The keyboard interrupt for the key that switches shells.                *)
SwitchKey ==
  /\ mode = "user"
  /\ shell_switch_to_next
  /\ registers' = task_save_state
  /\ UNCHANGED <<list, alive, cpu, at, c, mode, intact>>
  /\ UNCHANGED <<processes, process, task, id, loaded, shell, booted, shells>>

KStopped == Stopped /\ UNCHANGED <<procVars, shellVars>>

KNext ==
  \/ \E p \in Procs, t \in Tasks :
       shell_new(p, t) \/ LoadStart(p, t) \/ LoadOnly(p, t) \/ LoadFails(p, t)
  \/ \E p \in Procs : LoadCrashes(p)
  \/ isr80h_handle_command \/ UnknownCommand \/ PrintCommand
  \/ shell_new_fails
  \/ RunFirst
  \/ Clock
  \/ Exit
  \/ SwitchKey
  \/ KStopped

(* The boot sequence runs to its end and the timer keeps interrupting.     *)
KSpec ==
  /\ KInit /\ [][KNext]_kvars
  /\ WF_kvars(RunFirst)
  /\ WF_kvars(Clock)

-----------------------------------------------------------------------------
Running == {processes[s] : s \in Slots} \ {NULL}

(* Type invariant of the process and shell state.                          *)
KTypeOK ==
  /\ TypeOK
  /\ processes \in [Slots -> Procs \cup {NULL}]
  /\ current_process \in Procs \cup {NULL}
  /\ process \in [Tasks -> Procs \cup {NULL}] /\ task \in [Procs -> Pointers]
  /\ id \in [Procs -> Slots \cup {NULL}]
  /\ shell \in [Procs -> ShellIds \cup {NULL}]
  /\ loaded \subseteq Procs /\ booted \in 0 .. NumShells
  /\ shells \in [ShellIds -> Procs \cup {NULL}]
  /\ current_shell \in ShellIds \cup {NULL}

(* The table of processes and the list of tasks describe the same system:  *)
(* each process in the table has its own task, that task is in the list    *)
(* and leads back to the process, and no other task exists.                *)
Matching ==
  /\ \A s \in Slots : processes[s] # NULL =>
       LET p == processes[s]
       IN  id[p] = s /\ task[p] \in alive /\ process[task[p]] = p
  /\ alive = {task[p] : p \in Running}

(* Loading, failing to load and exiting keep table and tasks in step, as   *)
(* long as tasks exit in order: a freed task that the broken list still    *)
(* runs can exit again and empty the slot of another process.              *)
TableMatchesTasks == intact => Matching

(* A process that ends never stays in the foreground: keys typed after it  *)
(* go to a process of the table, as long as the list of tasks was intact   *)
(* (see TableMatchesTasks).  Only switching to a shell whose process has   *)
(* ended puts a dead process in front (see ForegroundIsRunning).           *)
ExitLeavesForeground ==
  [][Exit /\ intact /\ current_process \in Running /\ mode' = "user"
       => current_process' \in Running']_kvars

(* The shells on the screen as the key is pressed 0, 1, ... times.         *)
ShownByKey ==
  LET visit[n \in 0 .. NumShells] ==
        IF n = 0 THEN current_shell
        ELSE LET s == next_shell(visit[n - 1])
             IN  IF shells[s] = NULL THEN visit[n - 1] ELSE s
  IN  {visit[n] : n \in 0 .. NumShells}

(* When kernel_main has started all its shells, pressing the key often     *)
(* enough shows every one of them, from whichever is on the screen and     *)
(* whatever processes have come and gone.                                  *)
EveryShellReached ==
  mode = "user" /\ (\A s \in ShellIds : shells[s] # NULL)
    => ShellIds \subseteq ShownByKey

(* "switches to next shell in round order" (shell_switch_to_next): the key *)
(* shows every shell that was started, even if others were not.            *)
RoundOrder ==
  mode = "user" => {s \in ShellIds : shells[s] # NULL} \subseteq ShownByKey

(* "Current process that is running" (current_process).                    *)
ForegroundIsRunning ==
  mode = "user" => current_process \in Running

(* "Check: if able to create new task" (process_load_for_slot), "returns   *)
(* the shell that the current task belong to" (get_current_task_shell),    *)
(* panic("No more tasks!\n") (task_next): a load without memory is         *)
(* refused, every program prints through a shell, the end of the last task *)
(* is a panic.  So the kernel never follows a pointer that is not one.     *)
NoInvalidPointer == mode # "crash"
=============================================================================
