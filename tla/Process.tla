------------------------------ MODULE Process ------------------------------
(***************************************************************************)
(* Process management, kernel/process.c, driven by the "proc" commands of  *)
(* the shell.  There is one processor and no preemption: a command runs to *)
(* its end, except that create, run, execute and runall call the entry     *)
(* point of a process on the kernel's own stack, and what that function    *)
(* calls (yield, exit) happens inside the command.                         *)
(*                                                                         *)
(* switch_context loads the stack pointer of the process it switches to.   *)
(* A process that was created and not switched from has stack pointer 0,   *)
(* so that the first push writes to the top of the address space and the   *)
(* ret takes its address from there: nothing is known of the machine any   *)
(* more (mode "lost").  Only a process that switches to itself goes on.    *)
(***************************************************************************)
EXTENDS Integers, Sequences

CONSTANTS MaxProcesses,  (* MAX_PROCESSES: 8 in the kernel                 *)
          PidBound,      (* bound of the model: no process gets this pid   *)
          EntryCalls,    (* what the entry points call: "yield", "exit"... *)
          NULL

ASSUME ProcessAssumption == /\ MaxProcesses \in Nat \ {0, 1}
                            /\ PidBound \in Nat \ {0}
                            /\ NULL \notin Int

VARIABLES pid, state, next, exit_code,  (* the fields of process_table     *)
          current_process, ready_queue_head, ready_queue_tail,
          next_pid,
          initialized,  (* process_system_initialized                      *)
          mode,         (* "shell": at the prompt; "entry": in an entry    *)
                        (* point; "runall": between two of them; "lost"    *)
          frame,        (* the command whose entry point runs              *)
          dangling      (* whether a queued process has been cleaned up    *)

table == <<pid, state, next, exit_code>>
queue == <<ready_queue_head, ready_queue_tail>>
control == <<mode, frame>>
vars == <<table, current_process, queue, next_pid, initialized, control, dangling>>

INVALID_PID == -1
KERNEL_PID == 0
FIRST_USER_PID == 1

Slot == 0 .. MaxProcesses - 1
UserSlot == FIRST_USER_PID .. MaxProcesses - 1
SlotOrNull == Slot \cup {NULL}

InUse(i) == pid[i] # INVALID_PID
NoFrame == [command |-> "none", slot |-> NULL, old |-> NULL]

\* The way from slot h along next: the k-th slot, the slots met, whether the
\* way ends, and then the slots in order.
Walk(h) ==
  LET w[k \in 0 .. MaxProcesses] ==
        IF k = 0 THEN h ELSE IF w[k - 1] = NULL THEN NULL ELSE next[w[k - 1]]
  IN w
LinkedFrom(h) == { Walk(h)[k] : k \in 0 .. MaxProcesses } \ {NULL}
EndsFrom(h) == Walk(h)[MaxProcesses] = NULL
ListFrom(h) ==
  LET w == Walk(h)
      n == CHOOSE k \in 0 .. MaxProcesses : w[k] = NULL /\ \A j \in 0 .. k - 1 : w[j] # NULL
  IN [k \in 1 .. n |-> w[k - 1]]

Queued == LinkedFrom(ready_queue_head)
ReadyQueue == ListFrom(ready_queue_head)

\* What calls the operations of ipc.c: a shell command, or an entry point.
Calling(call) == mode = "shell" \/ (mode = "entry" /\ call \in EntryCalls)

-----------------------------------------------------------------------------
\* Before "proc init" the table is zero: every slot has pid 0 and state READY.
Init ==
  /\ pid = [i \in Slot |-> 0]
  /\ state = [i \in Slot |-> "READY"]
  /\ next = [i \in Slot |-> NULL]
  /\ exit_code = [i \in Slot |-> 0]
  /\ current_process = NULL
  /\ ready_queue_head = NULL
  /\ ready_queue_tail = NULL
  /\ next_pid = FIRST_USER_PID
  /\ initialized = FALSE
  /\ mode = "shell"
  /\ frame = NoFrame
  /\ dangling = FALSE

\* process_init; a second call changes nothing.  It also calls vmm_init and
\* heap_init if nobody has, which touches nothing here.
ProcessInit ==
  /\ mode = "shell"
  /\ ~initialized
  /\ pid' = [i \in Slot |-> IF i = KERNEL_PID THEN KERNEL_PID ELSE INVALID_PID]
  /\ state' = [i \in Slot |-> IF i = KERNEL_PID THEN "RUNNING" ELSE "TERMINATED"]
  /\ next' = [i \in Slot |-> NULL]
  /\ exit_code' = [i \in Slot |-> 0]
  /\ current_process' = KERNEL_PID
  /\ ready_queue_head' = NULL
  /\ ready_queue_tail' = NULL
  /\ initialized' = TRUE
  /\ UNCHANGED <<next_pid, control, dangling>>

-----------------------------------------------------------------------------
\* The slot both create functions take: the first unused one.
FirstFreeSlot(i) == ~InUse(i) /\ \A j \in FIRST_USER_PID .. i - 1 : InUse(j)

\* process_find: a pid of MAX_PROCESSES or more is never found.
Found(p, i) ==
  /\ p \in 0 .. MaxProcesses - 1
  /\ pid[i] = p
  /\ \A j \in 0 .. i - 1 : pid[j] # p

NextPid_Kept == next_pid
NextPid == next_pid + 1

NewState == "READY"

\* What both create functions write, but for next and the queue.
NewProcess(i) ==
  /\ next_pid < PidBound
  /\ FirstFreeSlot(i)
  /\ pid' = [pid EXCEPT ![i] = next_pid]
  /\ state' = [state EXCEPT ![i] = NewState]
  /\ exit_code' = [exit_code EXCEPT ![i] = 0]
  /\ next_pid' = NextPid
  /\ UNCHANGED <<current_process, initialized, dangling>>

\* Appending i to a queue that starts at h and ends at t.
HeadWith_InFront(h, t, i) == i
HeadWith(h, t, i) == IF t = NULL THEN i ELSE h
TailWith_OnlyFirst(t, i) == IF t = NULL THEN i ELSE t
TailWith(t, i) == i
LinksWith(t, i) ==
  LET alone == [next EXCEPT ![i] = NULL]
  IN IF t = NULL THEN alone ELSE [alone EXCEPT ![t] = i]

CreateSimple(i) ==
  /\ mode = "shell"
  /\ NewProcess(i)
  /\ next' = [next EXCEPT ![i] = NULL]
  /\ UNCHANGED <<queue, control>>

\* process_create, and then the command calls the entry point at once if
\* process_find finds the process.
Create(i) ==
  /\ mode = "shell"
  /\ NewProcess(i)
  /\ next' = LinksWith(ready_queue_tail, i)
  /\ ready_queue_head' = HeadWith(ready_queue_head, ready_queue_tail, i)
  /\ ready_queue_tail' = TailWith(ready_queue_tail, i)
  /\ IF next_pid < MaxProcesses
     THEN /\ mode' = "entry"
          /\ frame' = [command |-> "create", slot |-> i, old |-> NULL]
     ELSE UNCHANGED control

\* "proc run": the function is called without a process.
Run ==
  /\ mode = "shell"
  /\ mode' = "entry"
  /\ frame' = [command |-> "run", slot |-> NULL, old |-> NULL]
  /\ UNCHANGED <<table, current_process, queue, next_pid, initialized, dangling>>

\* process_execute_simple goes on with a READY process that has an entry
\* point: the kernel's slot, and every slot before "proc init", has none.
Executable(p, i) == Found(p, i) /\ state[i] = "READY" /\ i \in UserSlot

StartEntry(command, i) ==
  /\ current_process' = i
  /\ state' = [state EXCEPT ![i] = "RUNNING"]
  /\ mode' = "entry"
  /\ frame' = [command |-> command, slot |-> i, old |-> current_process]
  /\ UNCHANGED <<pid, next, exit_code, queue, next_pid, initialized, dangling>>

Execute(p) ==
  /\ mode = "shell"
  /\ \E i \in Slot : Executable(p, i) /\ StartEntry("execute", i)

-----------------------------------------------------------------------------
\* process_run_all_ready: one pass over the table.
RunAll ==
  /\ mode = "shell"
  /\ mode' = "runall"
  /\ frame' = [command |-> "runall", slot |-> 0, old |-> NULL]
  /\ UNCHANGED <<table, current_process, queue, next_pid, initialized, dangling>>

RunAllNext ==
  /\ mode = "runall"
  /\ IF \E i \in frame.slot .. MaxProcesses - 1 : Executable(pid[i], i)
     THEN \E i \in frame.slot .. MaxProcesses - 1 :
            /\ Executable(pid[i], i)
            /\ \A j \in frame.slot .. i - 1 : ~Executable(pid[j], j)
            /\ StartEntry("runall", i)
     ELSE /\ mode' = "shell"
          /\ frame' = NoFrame
          /\ UNCHANGED <<table, current_process, queue, next_pid, initialized, dangling>>

\* An entry point returns to the command that called it.
CurrentAfter_NotRestored == current_process
CurrentAfter == IF frame.command \in {"execute", "runall"} THEN frame.old ELSE current_process

EntryReturns ==
  /\ mode = "entry"
  /\ current_process' = CurrentAfter
  /\ IF frame.command = "run"
     THEN UNCHANGED <<state, exit_code>>
     ELSE /\ state' = [state EXCEPT ![frame.slot] = "TERMINATED"]
          /\ exit_code' = [exit_code EXCEPT ![frame.slot] = 0]
  /\ IF frame.command = "runall"
     THEN /\ mode' = "runall"
          /\ frame' = [command |-> "runall", slot |-> frame.slot + 1, old |-> NULL]
     ELSE mode' = "shell" /\ frame' = NoFrame
  /\ UNCHANGED <<pid, next, queue, next_pid, initialized, dangling>>

-----------------------------------------------------------------------------
\* process_exit: the process is marked, and goes on running.
Exit(code) ==
  /\ mode = "entry" /\ "exit" \in EntryCalls
  /\ IF current_process = NULL \/ current_process = KERNEL_PID
     THEN UNCHANGED <<state, exit_code>>
     ELSE /\ state' = [state EXCEPT ![current_process] = "TERMINATED"]
          /\ exit_code' = [exit_code EXCEPT ![current_process] = code]
  /\ UNCHANGED <<pid, next, current_process, queue, next_pid, initialized, control, dangling>>

Kill(p) ==
  /\ mode = "shell"
  /\ \E i \in Slot : /\ Found(p, i)
                     /\ p # KERNEL_PID
                     /\ state[i] # "TERMINATED"
                     /\ state' = [state EXCEPT ![i] = "TERMINATED"]
                     /\ exit_code' = [exit_code EXCEPT ![i] = -1]
  /\ UNCHANGED <<pid, next, current_process, queue, next_pid, initialized, control, dangling>>

\* process_cleanup_terminated frees slots; it does not look at the queue.
Reclaimable(i) == InUse(i) /\ state[i] = "TERMINATED" /\ pid[i] # KERNEL_PID

Cleanup ==
  /\ mode = "shell"
  /\ pid' = [i \in Slot |-> IF Reclaimable(i) THEN INVALID_PID ELSE pid[i]]
  /\ dangling' = (dangling \/ \E i \in Queued : Reclaimable(i))
  /\ UNCHANGED <<state, next, exit_code, current_process, queue, next_pid, initialized, control>>

-----------------------------------------------------------------------------
\* process_switch: take the head of the queue, put the current process at its
\* tail unless it is the kernel, and switch.
TailAfterPop_NotCleared == ready_queue_tail
TailAfterPop == IF next[ready_queue_head] = NULL THEN NULL ELSE ready_queue_tail

Switch ==
  LET chosen == ready_queue_head
      rest == next[ready_queue_head]
      requeue == current_process # NULL /\ pid[current_process] # KERNEL_PID
      readied == IF requeue THEN [state EXCEPT ![current_process] = "READY"] ELSE state
  IN /\ next' = IF requeue THEN LinksWith(TailAfterPop, current_process) ELSE next
     /\ ready_queue_head' = IF requeue THEN HeadWith(rest, TailAfterPop, current_process) ELSE rest
     /\ ready_queue_tail' = IF requeue THEN TailWith(TailAfterPop, current_process) ELSE TailAfterPop
     /\ state' = [readied EXCEPT ![chosen] = "RUNNING"]
     /\ current_process' = chosen
     /\ mode' = IF current_process = chosen THEN mode ELSE "lost"
     /\ UNCHANGED <<pid, exit_code, next_pid, initialized, frame, dangling>>

\* process_yield, from "proc yield" or from an entry point; with an empty
\* queue it returns at once.
Yield ==
  /\ \/ mode = "shell"
     \/ mode = "entry" /\ "yield" \in EntryCalls
  /\ ready_queue_head # NULL
  /\ Switch

-----------------------------------------------------------------------------
Pid == 0 .. PidBound - 1

Command ==
  \/ ProcessInit
  \/ \E i \in UserSlot : Create(i) \/ CreateSimple(i)
  \/ Run
  \/ \E p \in Pid : Execute(p) \/ Kill(p)
  \/ RunAll
  \/ Cleanup

Next == Command \/ RunAllNext \/ EntryReturns \/ (\E code \in {0, 1} : Exit(code)) \/ Yield

Spec == Init /\ [][Next]_vars

-----------------------------------------------------------------------------
State == {"READY", "RUNNING", "BLOCKED", "TERMINATED"}

TypeOK ==
  /\ pid \in [Slot -> Pid \cup {INVALID_PID}]
  /\ state \in [Slot -> State]
  /\ next \in [Slot -> SlotOrNull]
  /\ exit_code \in [Slot -> {-1, 0, 1}]
  /\ current_process \in SlotOrNull
  /\ ready_queue_head \in SlotOrNull
  /\ ready_queue_tail \in SlotOrNull
  /\ next_pid \in FIRST_USER_PID .. PidBound
  /\ initialized \in BOOLEAN
  /\ mode \in {"shell", "entry", "runall", "lost"}
  /\ frame \in [command : {"none", "create", "run", "execute", "runall"},
                slot : 0 .. MaxProcesses \cup {NULL}, old : SlotOrNull]
  /\ dangling \in BOOLEAN

(* Once the table is initialised, a pid names one slot, a pid that was     *)
(* given out is never given out again, and pid 0 is the kernel's alone.    *)
UniquePids ==
  initialized =>
    /\ pid[KERNEL_PID] = KERNEL_PID
    /\ \A i \in UserSlot : InUse(i) =>
         /\ pid[i] \in FIRST_USER_PID .. next_pid - 1
         /\ \A j \in UserSlot : pid[j] = pid[i] => j = i

(* However the commands, the direct calls of entry points and what they    *)
(* yield and exit are nested, the shell finds itself running as the kernel *)
(* process, and apart from the kernel only the current process is RUNNING. *)
KernelAtPrompt ==
  initialized =>
    /\ mode = "shell" => current_process = KERNEL_PID
    /\ mode # "lost" => \A i \in UserSlot :
         InUse(i) /\ state[i] = "RUNNING" => mode = "entry" /\ i = current_process

\* The ready queue is a list of used slots from ready_queue_head to NULL, the
\* last of them ready_queue_tail.
ReadyQueueIsList ==
  /\ EndsFrom(ready_queue_head)
  /\ Queued # {} => ready_queue_tail \in Queued /\ next[ready_queue_tail] = NULL
  /\ \A i \in Queued : InUse(i)

(* The ready queue has a first process exactly when it has a last one: a   *)
(* process appended after the queue ran empty is not lost behind a stale   *)
(* tail.                                                                   *)
QueueEndsAgree == ready_queue_head = NULL <=> ready_queue_tail = NULL

(* As long as no process was cleaned up while it was queued, the ready     *)
(* queue is a list of processes that ends at ready_queue_tail.             *)
QueueIntactUnlessDangling == mode # "lost" /\ ~dangling => ReadyQueueIsList

(* Until then it is a FIFO: a process enters at the back, new or because   *)
(* it yields, and leaves at the front because it is switched to; nothing   *)
(* else, process_create_simple and process_kill included, touches it.      *)
ReadyQueueIsFifo ==
  [][ ~dangling' =>
        \/ ReadyQueue' = ReadyQueue
        \/ \E i \in Slot : pid'[i] = next_pid /\ ReadyQueue' = Append(ReadyQueue, i)
        \/ /\ ReadyQueue # <<>>
           /\ current_process' = Head(ReadyQueue)
           /\ ReadyQueue' = Tail(ReadyQueue) \o
                IF current_process = KERNEL_PID THEN <<>> ELSE <<current_process>> ]_vars

=============================================================================
