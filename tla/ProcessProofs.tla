--------------------------- MODULE ProcessProofs ---------------------------
(***************************************************************************)
(* Proofs about the process table of kernel/process.c, for any number of   *)
(* processes and any entry points: the types, the uniqueness of pids, who  *)
(* is current at the prompt, that a terminated process does not run again, *)
(* and that the ready queue is a list that serves in order of arrival.     *)
(* The argument is an inductive invariant: what is true before "proc init" *)
(* (Boot), and where a command that called an entry point will return to   *)
(* (Control); to which the ready queue adds a sequence of slots that the   *)
(* links describe (QueueOf), and what each step makes of it (QueueStep).   *)
(***************************************************************************)
EXTENDS Process, FiniteSetTheorems, SequenceTheorems, WellFoundedInduction, TLAPS

\* Before "proc init" there is no process: every slot looks like the kernel's.
Boot ==
  ~initialized => /\ pid = [i \in Slot |-> 0]
                  /\ current_process = NULL
                  /\ ready_queue_head = NULL
                  /\ ready_queue_tail = NULL

\* An entry point called by execute or runall runs as its own process and will
\* give the processor back to the kernel process; any other, as the kernel.
OwnProcess == mode = "entry" /\ frame.command \in {"execute", "runall"}

Control ==
  /\ mode = "entry" => frame.command # "none"
  /\ mode = "entry" /\ frame.command # "run" => initialized /\ frame.slot \in UserSlot
  /\ mode = "runall" => frame.slot \in 0 .. MaxProcesses
  /\ OwnProcess => frame.slot = current_process /\ frame.old = KERNEL_PID
  /\ initialized /\ mode # "lost" /\ ~OwnProcess => current_process = KERNEL_PID
  /\ mode = "lost" => initialized

\* Apart from the kernel, only the process that runs is RUNNING.
OneRunning ==
  initialized /\ mode # "lost" => \A i \in UserSlot :
    InUse(i) /\ state[i] = "RUNNING" => OwnProcess /\ i = current_process

IInv == TypeOK /\ UniquePids /\ QueueEndsAgree /\ Boot /\ Control /\ OneRunning

-----------------------------------------------------------------------------
LEMMA SlotFacts ==
  /\ UserSlot \subseteq Slot
  /\ KERNEL_PID \in Slot
  /\ KERNEL_PID \notin UserSlot
  /\ NULL \notin Slot
  /\ Slot = {KERNEL_PID} \cup UserSlot
BY ProcessAssumption DEF UserSlot, Slot, KERNEL_PID, FIRST_USER_PID

(* Every reachable state has its types, and no step leaves them.           *)
LEMMA InitIInv == Init => IInv
<1> SUFFICES ASSUME Init PROVE IInv
  OBVIOUS
<1>1. 0 \in Pid /\ FIRST_USER_PID \in FIRST_USER_PID .. PidBound
  BY ProcessAssumption DEF Pid, FIRST_USER_PID
<1>2. NoFrame \in [command : {"none", "create", "run", "execute", "runall"},
                   slot : 0 .. MaxProcesses \cup {NULL}, old : SlotOrNull]
  BY DEF NoFrame, SlotOrNull
<1>3. TypeOK
  BY <1>1, <1>2 DEF Init, TypeOK, State, SlotOrNull
<1> QED
  BY <1>3 DEF Init, IInv, UniquePids, QueueEndsAgree, Boot, Control, OneRunning, OwnProcess

(* Before "proc init" no slot is free, so that nothing can be created.     *)
LEMMA CreatedAfterInit ==
  ASSUME IInv, NEW i \in UserSlot, NewProcess(i)
  PROVE  initialized
BY SlotFacts DEF IInv, Boot, NewProcess, FirstFreeSlot, InUse, INVALID_PID

(* process_execute_simple only goes on with a user process that is READY.  *)
LEMMA ExecutedAfterInit ==
  ASSUME IInv, NEW i \in Slot, NEW p \in Pid \cup {INVALID_PID}, Executable(p, i)
  PROVE  initialized /\ i \in UserSlot /\ InUse(i) /\ state[i] = "READY"
<1>1. i \in UserSlot /\ state[i] = "READY" /\ pid[i] = p /\ p \in 0 .. MaxProcesses - 1
  BY DEF Executable, Found
<1>2. initialized
  <2> SUFFICES ASSUME ~initialized PROVE FALSE
    OBVIOUS
  <2>1. pid[0] = 0 /\ pid[i] = 0
    BY SlotFacts DEF IInv, Boot, KERNEL_PID
  <2>2. 0 \in 0 .. i - 1
    BY <1>1, ProcessAssumption DEF UserSlot, FIRST_USER_PID
  <2> QED BY <1>1, <2>1, <2>2 DEF Executable, Found
<1> QED BY <1>1, <1>2 DEF InUse, INVALID_PID

-----------------------------------------------------------------------------
(* Types.                                                                  *)
LEMMA LinksType ==
  ASSUME TypeOK, NEW t \in SlotOrNull, NEW i \in Slot
  PROVE  LinksWith(t, i) \in [Slot -> SlotOrNull]
BY DEF LinksWith, TypeOK, SlotOrNull

LEMMA NewProcessType ==
  ASSUME IInv, NEW i \in UserSlot, NewProcess(i)
  PROVE  /\ pid' \in [Slot -> Pid \cup {INVALID_PID}]
         /\ state' \in [Slot -> State]
         /\ exit_code' \in [Slot -> {-1, 0, 1}]
         /\ next_pid' \in FIRST_USER_PID .. PidBound
         /\ current_process' \in SlotOrNull
         /\ initialized' \in BOOLEAN
         /\ dangling' \in BOOLEAN
<1>1. next_pid \in Pid /\ next_pid + 1 \in FIRST_USER_PID .. PidBound
  BY ProcessAssumption DEF IInv, TypeOK, NewProcess, Pid, FIRST_USER_PID
<1> QED
  BY <1>1 DEF IInv, TypeOK, NewProcess, NewState, NextPid, State

LEMMA StartEntryType ==
  ASSUME TypeOK, NEW i \in UserSlot, NEW command \in {"execute", "runall"}, StartEntry(command, i)
  PROVE  TypeOK'
<1>1. i \in Slot /\ i \in 0 .. MaxProcesses
  BY SlotFacts, ProcessAssumption DEF UserSlot, FIRST_USER_PID
<1> QED BY <1>1 DEF StartEntry, TypeOK, State, SlotOrNull, queue

LEMMA StepType == IInv /\ [Next]_vars => TypeOK'
<1> SUFFICES ASSUME IInv, [Next]_vars PROVE TypeOK'
  OBVIOUS
<1> USE DEF IInv
<1>1. CASE ProcessInit
  <2>1. KERNEL_PID \in Pid
    BY ProcessAssumption DEF Pid, KERNEL_PID
  <2> QED BY <1>1, <2>1, SlotFacts DEF ProcessInit, TypeOK, control, SlotOrNull, State
<1>2. ASSUME NEW i \in UserSlot, Create(i) PROVE TypeOK'
  <2>1. NewProcess(i) /\ i \in Slot
    BY <1>2, SlotFacts DEF Create
  <2>2. next' \in [Slot -> SlotOrNull] /\ ready_queue_head' \in SlotOrNull
        /\ ready_queue_tail' \in SlotOrNull
    BY <1>2, <2>1, LinksType DEF Create, TypeOK, SlotOrNull, HeadWith, TailWith
  <2>3. mode' \in {"shell", "entry", "runall", "lost"}
        /\ frame' \in [command : {"none", "create", "run", "execute", "runall"},
                       slot : 0 .. MaxProcesses \cup {NULL}, old : SlotOrNull]
    <3>1. i \in 0 .. MaxProcesses
      BY ProcessAssumption DEF UserSlot, FIRST_USER_PID
    <3> QED BY <1>2, <3>1 DEF Create, TypeOK, control, SlotOrNull
  <2> QED BY <2>1, <2>2, <2>3, NewProcessType DEF TypeOK
<1>3. ASSUME NEW i \in UserSlot, CreateSimple(i) PROVE TypeOK'
  <2>1. NewProcess(i) /\ i \in Slot
    BY <1>3, SlotFacts DEF CreateSimple
  <2> QED BY <1>3, <2>1, NewProcessType DEF CreateSimple, TypeOK, SlotOrNull, queue, control
<1>4. CASE Run
  BY <1>4 DEF Run, TypeOK, SlotOrNull, table, queue
<1>5. ASSUME NEW p \in Pid, Execute(p) PROVE TypeOK'
  BY <1>5, StartEntryType DEF Execute, Executable
<1>6. ASSUME NEW p \in Pid, Kill(p) PROVE TypeOK'
  BY <1>6 DEF Kill, TypeOK, State, queue, control
<1>7. CASE RunAll
  BY <1>7, ProcessAssumption DEF RunAll, TypeOK, SlotOrNull, table, queue
<1>8. CASE Cleanup
  BY <1>8 DEF Cleanup, TypeOK, queue, control
<1>9. CASE RunAllNext
  <2>1. ASSUME NEW i \in frame.slot .. MaxProcesses - 1, Executable(pid[i], i), StartEntry("runall", i)
        PROVE  TypeOK'
    BY <2>1, StartEntryType DEF Executable
  <2>2. ASSUME mode' = "shell", frame' = NoFrame,
               UNCHANGED <<table, current_process, queue, next_pid, initialized, dangling>>
        PROVE  TypeOK'
    BY <2>2 DEF TypeOK, NoFrame, SlotOrNull, table, queue
  <2> QED BY <1>9, <2>1, <2>2 DEF RunAllNext
<1>10. CASE EntryReturns
  BY <1>10, SlotFacts, ProcessAssumption
     DEF EntryReturns, CurrentAfter, Control, TypeOK, State, SlotOrNull, queue, NoFrame, UserSlot, FIRST_USER_PID
<1>11. ASSUME NEW code \in {0, 1}, Exit(code) PROVE TypeOK'
  BY <1>11 DEF Exit, TypeOK, State, queue, control
<1>12. CASE Yield
  <2>1. ready_queue_head \in Slot /\ TailAfterPop \in SlotOrNull
    BY <1>12 DEF Yield, TypeOK, SlotOrNull, TailAfterPop
  <2>2. ASSUME current_process # NULL
        PROVE  LinksWith(TailAfterPop, current_process) \in [Slot -> SlotOrNull]
    BY <2>1, <2>2, LinksType DEF TypeOK, SlotOrNull
  <2> QED BY <1>12, <2>1, <2>2
          DEF Yield, Switch, HeadWith, TailWith, TypeOK, State, SlotOrNull
<1>13. CASE UNCHANGED vars
  BY <1>13 DEF TypeOK, vars, table, queue, control
<1> QED BY <1>1, <1>2, <1>3, <1>4, <1>5, <1>6, <1>7, <1>8, <1>9, <1>10, <1>11, <1>12, <1>13
        DEF Next, Command

-----------------------------------------------------------------------------
(* The other parts of the invariant, action by action.                     *)
Rest == UniquePids /\ QueueEndsAgree /\ Boot /\ Control /\ OneRunning

LEMMA NewProcessUnique ==
  ASSUME IInv, NEW i \in UserSlot, NewProcess(i)
  PROVE  UniquePids'
<1>1. initialized /\ initialized' /\ i # KERNEL_PID /\ i \in Slot
  BY CreatedAfterInit, SlotFacts DEF NewProcess
<1>2. next_pid \in Nat \ {0} /\ next_pid' = next_pid + 1
  BY ProcessAssumption DEF IInv, TypeOK, NewProcess, NextPid, FIRST_USER_PID
<1>3. pid' = [pid EXCEPT ![i] = next_pid] /\ pid \in [Slot -> Pid \cup {INVALID_PID}]
  BY DEF IInv, TypeOK, NewProcess
<1>4. ASSUME NEW j \in UserSlot, InUse(j)
      PROVE  pid[j] \in FIRST_USER_PID .. next_pid - 1
  BY <1>1, <1>4 DEF IInv, UniquePids
<1>5. ASSUME NEW j \in UserSlot, pid'[j] # INVALID_PID
      PROVE  /\ pid'[j] \in FIRST_USER_PID .. next_pid' - 1
             /\ \A k \in UserSlot : pid'[k] = pid'[j] => k = j
  <2>1. \A k \in UserSlot : pid[k] # next_pid
    BY <1>2, <1>4 DEF InUse, INVALID_PID, FIRST_USER_PID
  <2>2. CASE j = i
    BY <1>1, <1>2, <1>3, <2>1, <2>2, SlotFacts DEF FIRST_USER_PID
  <2>3. CASE j # i
    <3>1. pid'[j] = pid[j] /\ InUse(j)
      BY <1>3, <1>5, <2>3, SlotFacts DEF InUse
    <3>2. \A k \in UserSlot : pid[k] = pid[j] => k = j
      BY <1>1, <3>1 DEF IInv, UniquePids
    <3>3. pid[j] \in FIRST_USER_PID .. next_pid' - 1
      BY <1>2, <1>4, <3>1 DEF FIRST_USER_PID
    <3> QED BY <1>1, <1>3, <2>1, <3>1, <3>2, <3>3, SlotFacts
  <2> QED BY <2>2, <2>3
<1>6. pid'[KERNEL_PID] = KERNEL_PID
  BY <1>1, <1>3, SlotFacts DEF IInv, UniquePids
<1> QED BY <1>5, <1>6 DEF UniquePids, InUse

(* A new process is READY, so nobody else starts RUNNING.                  *)
LEMMA NewProcessOneRunning ==
  ASSUME IInv, NEW i \in UserSlot, NewProcess(i), mode = "shell"
  PROVE  \A j \in UserSlot : ~(pid'[j] # INVALID_PID /\ state'[j] = "RUNNING")
<1>1. initialized
  BY CreatedAfterInit
<1>2. \A j \in UserSlot : ~(InUse(j) /\ state[j] = "RUNNING")
  BY <1>1 DEF IInv, OneRunning, OwnProcess
<1> QED
  BY <1>2, SlotFacts DEF IInv, TypeOK, NewProcess, NewState, InUse

LEMMA StartEntryRest ==
  ASSUME IInv, NEW i \in UserSlot, NEW command \in {"execute", "runall"}, StartEntry(command, i),
         mode \in {"shell", "runall"}, initialized
  PROVE  Rest'
<1>1. current_process = KERNEL_PID /\ \A j \in UserSlot : ~(InUse(j) /\ state[j] = "RUNNING")
  BY DEF IInv, Control, OneRunning, OwnProcess
<1> QED
  BY <1>1, SlotFacts
     DEF IInv, TypeOK, StartEntry, Rest, UniquePids, QueueEndsAgree, Boot, Control, OneRunning,
         OwnProcess, InUse, queue

LEMMA StepRest == IInv /\ [Next]_vars => Rest'
<1> SUFFICES ASSUME IInv, [Next]_vars PROVE Rest'
  OBVIOUS
<1>1. CASE ProcessInit
  BY <1>1, SlotFacts
     DEF ProcessInit, IInv, Rest, UniquePids, QueueEndsAgree, Boot, Control, OneRunning,
         OwnProcess, InUse, control
<1>2. ASSUME NEW i \in UserSlot, Create(i) PROVE Rest'
  <2>1. NewProcess(i) /\ initialized /\ initialized' /\ mode = "shell"
    BY <1>2, CreatedAfterInit DEF Create, NewProcess
  <2>2. QueueEndsAgree'
    BY <1>2, SlotFacts DEF Create, IInv, QueueEndsAgree, HeadWith, TailWith
  <2>3. Control'
    BY <1>2, <2>1 DEF Create, NewProcess, IInv, Control, OwnProcess, control
  <2>4. OneRunning'
    BY <2>1, NewProcessOneRunning DEF OneRunning, InUse
  <2> QED BY <2>1, <2>2, <2>3, <2>4, NewProcessUnique DEF Rest, Boot
<1>3. ASSUME NEW i \in UserSlot, CreateSimple(i) PROVE Rest'
  <2>1. NewProcess(i) /\ initialized /\ initialized' /\ mode = "shell"
    BY <1>3, CreatedAfterInit DEF CreateSimple, NewProcess
  <2>2. QueueEndsAgree' /\ Control'
    BY <1>3, <2>1 DEF CreateSimple, NewProcess, IInv, QueueEndsAgree, Control, OwnProcess, queue, control
  <2>3. OneRunning'
    BY <2>1, NewProcessOneRunning DEF OneRunning, InUse
  <2> QED BY <2>1, <2>2, <2>3, NewProcessUnique DEF Rest, Boot
<1>4. CASE Run
  BY <1>4
     DEF Run, IInv, Rest, UniquePids, QueueEndsAgree, Boot, Control, OneRunning, OwnProcess,
         InUse, table, queue
<1>5. ASSUME NEW p \in Pid, Execute(p) PROVE Rest'
  BY <1>5, StartEntryRest, ExecutedAfterInit DEF Execute
<1>6. ASSUME NEW p \in Pid, Kill(p) PROVE Rest'
  BY <1>6, SlotFacts
     DEF Kill, IInv, TypeOK, Rest, UniquePids, QueueEndsAgree, Boot, Control, OneRunning,
         OwnProcess, InUse, queue, control
<1>7. CASE RunAll
  BY <1>7, ProcessAssumption
     DEF RunAll, IInv, Rest, UniquePids, QueueEndsAgree, Boot, Control, OneRunning, OwnProcess,
         InUse, table, queue
<1>8. CASE Cleanup
  <2>1. ASSUME NEW i \in Slot PROVE pid'[i] = pid[i] \/ pid'[i] = INVALID_PID
    BY <1>8, <2>1 DEF Cleanup
  <2>2. pid[KERNEL_PID] = KERNEL_PID => pid'[KERNEL_PID] = KERNEL_PID
    BY <1>8, SlotFacts DEF Cleanup, Reclaimable
  <2>3. UniquePids'
    BY <1>8, <2>1, <2>2, SlotFacts DEF Cleanup, IInv, UniquePids, InUse
  <2>4. Boot'
    <3> SUFFICES ASSUME ~initialized PROVE \A i \in Slot : pid'[i] = pid[i]
      BY <1>8 DEF Cleanup, IInv, Boot, queue
    <3> QED BY <1>8 DEF Cleanup, Reclaimable, IInv, Boot, KERNEL_PID
  <2>5. QueueEndsAgree' /\ Control'
    BY <1>8 DEF Cleanup, IInv, QueueEndsAgree, Control, OwnProcess, queue, control
  <2>6. OneRunning'
    BY <1>8, <2>1, SlotFacts DEF Cleanup, IInv, OneRunning, OwnProcess, InUse, control
  <2> QED BY <2>3, <2>4, <2>5, <2>6 DEF Rest
<1>9. CASE RunAllNext
  <2>1. ASSUME NEW i \in frame.slot .. MaxProcesses - 1, Executable(pid[i], i), StartEntry("runall", i)
        PROVE  Rest'
    <3>1. i \in Slot /\ pid[i] \in Pid \cup {INVALID_PID}
      BY <2>1, SlotFacts DEF Executable, IInv, TypeOK
    <3> QED BY <1>9, <2>1, <3>1, StartEntryRest, ExecutedAfterInit DEF RunAllNext
  <2>2. ASSUME mode' = "shell", frame' = NoFrame,
               UNCHANGED <<table, current_process, queue, next_pid, initialized, dangling>>
        PROVE  Rest'
    BY <1>9, <2>2
       DEF RunAllNext, IInv, Rest, UniquePids, QueueEndsAgree, Boot, Control, OneRunning,
           OwnProcess, InUse, NoFrame, table, queue
  <2> QED BY <1>9, <2>1, <2>2 DEF RunAllNext
<1>10. CASE EntryReturns
  <2>1. UniquePids' /\ QueueEndsAgree'
    BY <1>10 DEF EntryReturns, IInv, UniquePids, QueueEndsAgree, InUse, queue
  <2>2. Boot'
    BY <1>10 DEF EntryReturns, CurrentAfter, IInv, Boot, Control, OwnProcess, queue
  <2>3. frame.command = "runall" => frame.slot + 1 \in 0 .. MaxProcesses
    BY <1>10, ProcessAssumption DEF EntryReturns, IInv, Control, UserSlot, FIRST_USER_PID
  <2>4. Control'
    BY <1>10, <2>3
       DEF EntryReturns, CurrentAfter, IInv, TypeOK, Control, OwnProcess, NoFrame
  <2>5. OneRunning'
    BY <1>10, SlotFacts
       DEF EntryReturns, IInv, TypeOK, Control, OneRunning, OwnProcess, NoFrame, InUse
  <2> QED BY <2>1, <2>2, <2>4, <2>5 DEF Rest
<1>11. ASSUME NEW code \in {0, 1}, Exit(code) PROVE Rest'
  <2>1. UniquePids' /\ QueueEndsAgree' /\ Boot' /\ Control'
    BY <1>11
       DEF Exit, IInv, UniquePids, QueueEndsAgree, Boot, Control, OwnProcess, InUse, queue, control
  <2>2. \A i \in UserSlot : state'[i] = "RUNNING" => state[i] = "RUNNING"
    BY <1>11, SlotFacts DEF Exit, IInv, TypeOK
  <2>3. OneRunning'
    BY <1>11, <2>2 DEF Exit, IInv, OneRunning, OwnProcess, InUse, control
  <2> QED BY <2>1, <2>3 DEF Rest
<1>12. CASE Yield
  <2>1. initialized /\ ready_queue_head \in Slot
    BY <1>12 DEF Yield, IInv, TypeOK, Boot, SlotOrNull
  <2>2. UniquePids' /\ Boot'
    BY <1>12, <2>1 DEF Yield, Switch, IInv, UniquePids, Boot, InUse
  <2>3. QueueEndsAgree'
    BY <1>12, <2>1, SlotFacts
       DEF Yield, Switch, HeadWith, TailWith, TailAfterPop, IInv, QueueEndsAgree
  <2>4. Control'
    BY <1>12, <2>1 DEF Yield, Switch, IInv, Control, OwnProcess
  <2>5. OneRunning'
    <3> SUFFICES ASSUME mode' # "lost", NEW i \in UserSlot, InUse(i), state'[i] = "RUNNING"
                 PROVE  OwnProcess' /\ i = current_process'
      BY <1>12, <2>1 DEF Yield, Switch, OneRunning, InUse
    <3>1. mode' = mode /\ frame' = frame /\ current_process' = current_process
          /\ current_process = ready_queue_head
      BY <1>12 DEF Yield, Switch
    <3>2. i = current_process \/ state'[i] = state[i]
      BY <1>12, <2>1, <3>1, SlotFacts DEF Yield, Switch, IInv, TypeOK
    <3>3. ~OwnProcess => current_process = KERNEL_PID
      BY <2>1, <3>1 DEF IInv, Control
    <3> QED BY <1>12, <2>1, <3>1, <3>2, <3>3, SlotFacts DEF IInv, OneRunning, OwnProcess, Yield
  <2> QED BY <2>2, <2>3, <2>4, <2>5 DEF Rest
<1>13. CASE UNCHANGED vars
  BY <1>13
     DEF IInv, Rest, UniquePids, QueueEndsAgree, Boot, Control, OneRunning, OwnProcess, InUse,
         vars, table, queue, control
<1> QED BY <1>1, <1>2, <1>3, <1>4, <1>5, <1>6, <1>7, <1>8, <1>9, <1>10, <1>11, <1>12, <1>13
        DEF Next, Command

-----------------------------------------------------------------------------
(* The invariant holds in every reachable state.                           *)
THEOREM InvariantsHold == Spec => []IInv
<1>1. IInv /\ [Next]_vars => IInv'
  BY StepType, StepRest DEF IInv, Rest
<1> QED BY <1>1, InitIInv, PTL DEF Spec

(* Every variable keeps its type, whatever the entry points call.          *)
THEOREM TypesCorrect == Spec => []TypeOK
<1>1. IInv => TypeOK
  BY DEF IInv
<1> QED BY <1>1, InvariantsHold, PTL

(* No two processes of process_table have the same pid, and no pid is      *)
(* given out twice, for any size of the table.                             *)
THEOREM PidsAreUnique == Spec => []UniquePids
<1>1. IInv => UniquePids
  BY DEF IInv
<1> QED BY <1>1, InvariantsHold, PTL

(* process_switch and process_create keep head and tail of the ready queue *)
(* both set or both NULL.                                                  *)
THEOREM QueueEndsCorrect == Spec => []QueueEndsAgree
<1>1. IInv => QueueEndsAgree
  BY DEF IInv
<1> QED BY <1>1, InvariantsHold, PTL

(* However entry points were called, the prompt belongs to the kernel      *)
(* process and nobody else is RUNNING.                                     *)
THEOREM PromptIsKernels == Spec => []KernelAtPrompt
<1>1. IInv => KernelAtPrompt
  BY DEF IInv, Control, OneRunning, OwnProcess, KernelAtPrompt
<1> QED BY <1>1, InvariantsHold, PTL

-----------------------------------------------------------------------------
\* The process that runs in an entry point of its own has not been cleaned up.
CurrentUsed == OwnProcess => InUse(current_process)

(* A step of the process table keeps the process that runs.                *)
LEMMA CurrentStaysUsed ==
  ASSUME IInv, CurrentUsed, [Next]_vars
  PROVE  CurrentUsed'
<1> SUFFICES ASSUME OwnProcess' PROVE pid'[current_process'] # INVALID_PID
  BY DEF CurrentUsed, InUse
<1>1. CASE ProcessInit
  BY <1>1 DEF ProcessInit, OwnProcess, control
<1>2. ASSUME NEW i \in UserSlot, Create(i) \/ CreateSimple(i)
      PROVE  FALSE
  BY <1>2 DEF Create, CreateSimple, OwnProcess, control
<1>3. CASE Run
  BY <1>3 DEF Run, OwnProcess
<1>4. ASSUME NEW p \in Pid, Execute(p)
      PROVE  pid'[current_process'] # INVALID_PID
  BY <1>4, ExecutedAfterInit DEF Execute, StartEntry, InUse
<1>5. ASSUME NEW p \in Pid, Kill(p) PROVE FALSE
  BY <1>5 DEF Kill, OwnProcess, control
<1>6. CASE RunAll \/ Cleanup
  BY <1>6 DEF RunAll, Cleanup, OwnProcess, control
<1>7. CASE RunAllNext
  <2>1. PICK i \in frame.slot .. MaxProcesses - 1 : Executable(pid[i], i) /\ StartEntry("runall", i)
    BY <1>7 DEF RunAllNext, OwnProcess
  <2>2. i \in Slot /\ pid[i] \in Pid \cup {INVALID_PID}
    BY <2>1, SlotFacts DEF Executable, IInv, TypeOK
  <2> QED BY <2>1, <2>2, ExecutedAfterInit DEF StartEntry, InUse
<1>8. CASE EntryReturns
  BY <1>8 DEF EntryReturns, OwnProcess
<1>9. ASSUME NEW code \in {0, 1}, Exit(code)
      PROVE  pid'[current_process'] # INVALID_PID
  BY <1>9 DEF Exit, CurrentUsed, OwnProcess, InUse, control
<1>10. CASE Yield
  BY <1>10 DEF Yield, Switch, CurrentUsed, OwnProcess, InUse
<1>11. CASE UNCHANGED vars
  BY <1>11 DEF CurrentUsed, OwnProcess, InUse, vars, table, control
<1> QED BY <1>1, <1>2, <1>3, <1>4, <1>5, <1>6, <1>7, <1>8, <1>9, <1>10, <1>11
        DEF Next, Command

-----------------------------------------------------------------------------
(* Lists along the field next, given as nx: Walk and what is read off it.  *)
Links == [Slot -> SlotOrNull]

Step(nx, i) == IF i = NULL THEN NULL ELSE nx[i]
WalkIn(nx, h) ==
  LET w[k \in 0 .. MaxProcesses] ==
        IF k = 0 THEN h ELSE IF w[k - 1] = NULL THEN NULL ELSE nx[w[k - 1]]
  IN w
LinkedIn(nx, h) == { WalkIn(nx, h)[k] : k \in 0 .. MaxProcesses } \ {NULL}
EndsIn(nx, h) == WalkIn(nx, h)[MaxProcesses] = NULL
ListIn(nx, h) ==
  LET w == WalkIn(nx, h)
      n == CHOOSE k \in 0 .. MaxProcesses : w[k] = NULL /\ \A j \in 0 .. k - 1 : w[j] # NULL
  IN [k \in 1 .. n |-> w[k - 1]]

LEMMA WalkIsWalkIn ==
  ASSUME NEW h
  PROVE  /\ Walk(h) = WalkIn(next, h) /\ LinkedFrom(h) = LinkedIn(next, h)
         /\ (EndsFrom(h) <=> EndsIn(next, h)) /\ ListFrom(h) = ListIn(next, h)
<1>1. Walk(h) = WalkIn(next, h)
  BY DEF Walk, WalkIn
<1> QED BY <1>1 DEF LinkedFrom, LinkedIn, EndsFrom, EndsIn, ListFrom, ListIn

(* A set of naturals that is not empty has a least element.                *)
LEMMA LeastNumber ==
  ASSUME NEW S, S \subseteq Nat, S # {}
  PROVE  \E i \in S : \A j \in S : i <= j
<1>1. PICK i \in S : \A j \in S : ~(<<j, i>> \in OpToRel(<, Nat))
  BY NatLessThanWellFounded, WFMin
<1>2. \A j \in S : i <= j
  <2> SUFFICES ASSUME NEW j \in S, j < i PROVE FALSE
    OBVIOUS
  <2>1. <<j, i>> \in Nat \X Nat
    OBVIOUS
  <2>2. <<j, i>> \in OpToRel(<, Nat)
    BY <2>1 DEF OpToRel
  <2> QED BY <1>1, <2>2
<1> QED BY <1>2

(* The recursive definition of Walk defines something: a way of any length *)
(* exists, and it stays in the table.                                      *)
Way(nx, h, n, w) ==
  /\ w \in [0 .. n -> SlotOrNull]
  /\ w[0] = h
  /\ \A k \in 1 .. n : w[k] = Step(nx, w[k - 1])

LEMMA WayExists ==
  ASSUME NEW nx \in Links, NEW h \in SlotOrNull, NEW n \in Nat
  PROVE  \E w : Way(nx, h, n, w)
<1> DEFINE Without == { m \in Nat : ~ \E w : Way(nx, h, m, w) }
<1> SUFFICES ASSUME Without # {} PROVE FALSE
  OBVIOUS
<1>1. PICK m \in Without : \A j \in Without : m <= j
  BY LeastNumber
<1>2. m # 0
  <2>1. Way(nx, h, 0, [k \in 0 .. 0 |-> h])
    BY DEF Way
  <2> QED BY <1>1, <2>1
<1>3. m - 1 \in Nat /\ m - 1 \notin Without
  BY <1>1, <1>2
<1>4. PICK w : Way(nx, h, m - 1, w)
  BY <1>3
<1> DEFINE v == [k \in 0 .. m |-> IF k = m THEN Step(nx, w[m - 1]) ELSE w[k]]
<1>5. Step(nx, w[m - 1]) \in SlotOrNull
  BY <1>3, <1>4 DEF Way, Step, Links, SlotOrNull
<1>6. v \in [0 .. m -> SlotOrNull]
  BY <1>3, <1>4, <1>5 DEF Way
<1>7. v[0] = h
  BY <1>1, <1>2, <1>4 DEF Way
<1>8. ASSUME NEW k \in 1 .. m PROVE v[k] = Step(nx, v[k - 1])
  <2>1. CASE k = m
    BY <1>1, <2>1
  <2>2. CASE k # m
    BY <1>1, <1>4, <2>2 DEF Way
  <2> QED BY <2>1, <2>2
<1>9. Way(nx, h, m, v)
  BY <1>6, <1>7, <1>8 DEF Way
<1> QED BY <1>1, <1>9

LEMMA WalkFacts ==
  ASSUME NEW nx \in Links, NEW h \in SlotOrNull
  PROVE  Way(nx, h, MaxProcesses, WalkIn(nx, h))
<1>1. MaxProcesses \in Nat
  BY ProcessAssumption
<1>2. PICK w : Way(nx, h, MaxProcesses, w)
  BY <1>1, WayExists
<1> DEFINE rule(f) == [k \in 0 .. MaxProcesses |->
                         IF k = 0 THEN h ELSE IF f[k - 1] = NULL THEN NULL ELSE nx[f[k - 1]]]
<1>3. w = rule(w)
  BY <1>1, <1>2 DEF Way, Step
<1>4. WalkIn(nx, h) = CHOOSE f : f = rule(f)
  BY DEF WalkIn
<1> DEFINE v == WalkIn(nx, h)
<1>5. v = rule(v)
  <2> HIDE DEF rule
  <2> QED BY <1>3, <1>4
<1> HIDE DEF v
<1>6. v[0] = h /\ \A k \in 1 .. MaxProcesses : v[k] = Step(nx, v[k - 1])
  <2>1. \A k \in 0 .. MaxProcesses : rule(v)[k] =
          IF k = 0 THEN h ELSE IF v[k - 1] = NULL THEN NULL ELSE nx[v[k - 1]]
    OBVIOUS
  <2> HIDE DEF rule
  <2>2. \A k \in 0 .. MaxProcesses : v[k] =
          IF k = 0 THEN h ELSE IF v[k - 1] = NULL THEN NULL ELSE nx[v[k - 1]]
    BY <1>5, <2>1
  <2> QED BY <1>1, <2>2 DEF Step
<1>7. \A k \in 0 .. MaxProcesses : v[k] \in SlotOrNull
  <2> DEFINE Outside == { k \in 0 .. MaxProcesses : v[k] \notin SlotOrNull }
  <2>1. Outside \subseteq Nat /\ \A k \in Outside : k \in 0 .. MaxProcesses /\ v[k] \notin SlotOrNull
    BY <1>1
  <2>2. \A k \in 0 .. MaxProcesses : k \notin Outside => v[k] \in SlotOrNull
    OBVIOUS
  <2> HIDE DEF Outside
  <2>3. ASSUME Outside # {} PROVE FALSE
    <3>1. PICK m \in Outside : \A j \in Outside : m <= j
      BY <2>1, <2>3, LeastNumber
    <3>2. m \in 0 .. MaxProcesses /\ m # 0
      BY <1>6, <2>1, <3>1
    <3>3. m - 1 \in 0 .. MaxProcesses /\ m \in 1 .. MaxProcesses
      BY <1>1, <3>2
    <3>4. m - 1 \notin Outside
      BY <3>1, <3>2, <3>3
    <3>5. v[m - 1] \in SlotOrNull /\ v[m] = Step(nx, v[m - 1])
      BY <1>6, <2>2, <3>3, <3>4
    <3>6. v[m] \in SlotOrNull
      BY <3>5 DEF Step, Links, SlotOrNull
    <3> QED BY <2>1, <3>1, <3>6
  <2> QED BY <2>2, <2>3
<1>8. v \in [0 .. MaxProcesses -> SlotOrNull]
  BY <1>5, <1>7
<1> QED BY <1>6, <1>8 DEF Way, v

-----------------------------------------------------------------------------
(* The list q is linked from h to t: no slot twice, each linked to the     *)
(* next, the last to NULL.                                                 *)
Linked(nx, h, t, q) ==
  /\ q \in Seq(Slot)
  /\ \A j, k \in 1 .. Len(q) : q[j] = q[k] => j = k
  /\ h = IF q = <<>> THEN NULL ELSE q[1]
  /\ \A k \in 1 .. Len(q) - 1 : nx[q[k]] = q[k + 1]
  /\ q # <<>> => t = q[Len(q)] /\ nx[t] = NULL

Members(q) == { q[k] : k \in 1 .. Len(q) }

(* A list without repetition is no longer than the table.                  *)
LEMMA ListLength ==
  ASSUME NEW q \in Seq(Slot), \A j, k \in 1 .. Len(q) : q[j] = q[k] => j = k
  PROVE  Len(q) \in 0 .. MaxProcesses
<1>1. q \in [1 .. Len(q) -> Slot] /\ Len(q) \in Nat
  BY LenProperties
<1>2. q \in Injection(1 .. Len(q), Slot)
  BY <1>1 DEF Injection, IsInjective
<1>3. IsFiniteSet(Slot) /\ Cardinality(Slot) = MaxProcesses
  BY FS_Interval, ProcessAssumption DEF Slot
<1>4. Cardinality(1 .. Len(q)) = Len(q)
  <2>1. 1 \in Int /\ Len(q) \in Int
    BY <1>1
  <2>2. Cardinality(1 .. Len(q)) = IF 1 > Len(q) THEN 0 ELSE Len(q) - 1 + 1
    BY <2>1, FS_Interval
  <2> QED BY <1>1, <2>2
<1>5. Cardinality(1 .. Len(q)) <= Cardinality(Slot)
  BY <1>2, <1>3, FS_Injection
<1> QED BY <1>1, <1>3, <1>4, <1>5, ProcessAssumption

(* A way follows a list to its end and stays there.                        *)
LEMMA WayOfList ==
  ASSUME NEW nx \in Links, NEW h \in SlotOrNull, NEW t, NEW q, Linked(nx, h, t, q)
  PROVE  \A k \in 0 .. MaxProcesses :
           WalkIn(nx, h)[k] = IF k < Len(q) THEN q[k + 1] ELSE NULL
<1> DEFINE v == WalkIn(nx, h)
<1>1. v[0] = h /\ \A k \in 1 .. MaxProcesses : v[k] = Step(nx, v[k - 1])
  BY WalkFacts DEF Way
<1> HIDE DEF v
<1>2. q \in [1 .. Len(q) -> Slot] /\ Len(q) \in 0 .. MaxProcesses /\ Len(q) \in Nat
  BY LenProperties, ListLength DEF Linked
<1>3. NULL \notin Slot /\ MaxProcesses \in Nat
  BY ProcessAssumption DEF Slot
<1> DEFINE right(k) == v[k] = IF k < Len(q) THEN q[k + 1] ELSE NULL
<1>4. right(0)
  <2>1. CASE q = <<>>
    BY <1>1, <2>1 DEF Linked
  <2>2. CASE q # <<>>
    <3>1. Len(q) # 0
      BY <2>2, EmptySeq DEF Linked
    <3> QED BY <1>1, <1>2, <2>2, <3>1 DEF Linked
  <2> QED BY <2>1, <2>2
<1>5. ASSUME NEW k \in 1 .. MaxProcesses, right(k - 1) PROVE right(k)
  <2>1. v[k] = Step(nx, v[k - 1])
    BY <1>1
  <2>2. CASE k < Len(q)
    <3>1. k \in 1 .. Len(q) - 1
      BY <1>2, <2>2
    <3>2. v[k - 1] = q[k] /\ v[k - 1] # NULL
      BY <1>2, <1>3, <1>5, <2>2
    <3>3. nx[q[k]] = q[k + 1]
      BY <3>1 DEF Linked
    <3> QED BY <2>1, <2>2, <3>2, <3>3 DEF Step
  <2>3. CASE k = Len(q)
    <3>1. v[k - 1] = q[k] /\ v[k - 1] # NULL /\ q # <<>>
      BY <1>2, <1>3, <1>5, <2>3
    <3>2. nx[q[k]] = NULL
      BY <2>3, <3>1 DEF Linked
    <3> QED BY <1>2, <2>1, <2>3, <3>1, <3>2 DEF Step
  <2>4. CASE k > Len(q)
    <3>1. v[k - 1] = NULL
      BY <1>2, <1>5, <2>4
    <3> QED BY <1>2, <2>1, <2>4, <3>1 DEF Step
  <2>5. k \in Int /\ Len(q) \in Int
    BY <1>2
  <2> QED BY <2>2, <2>3, <2>4, <2>5
<1> DEFINE Wrong == { k \in 0 .. MaxProcesses : ~right(k) }
<1>6. Wrong \subseteq 0 .. MaxProcesses /\ Wrong \subseteq Nat /\ (\A k \in Wrong : ~right(k))
      /\ (\A k \in 0 .. MaxProcesses : k \notin Wrong => right(k))
  BY <1>3
<1> HIDE DEF Wrong, right
<1>7. ASSUME Wrong # {} PROVE FALSE
  <2>1. PICK m \in Wrong : \A j \in Wrong : m <= j
    BY <1>6, <1>7, LeastNumber
  <2>2. m \in 0 .. MaxProcesses /\ m # 0
    BY <1>4, <1>6, <2>1
  <2>3. m - 1 \in 0 .. MaxProcesses /\ m \in 1 .. MaxProcesses
    BY <1>3, <2>2
  <2>4. m - 1 \notin Wrong
    BY <2>1, <2>2, <2>3
  <2> QED BY <1>5, <1>6, <2>1, <2>3, <2>4
<1> QED BY <1>6, <1>7 DEF right, v

(* So Walk, and what is read off it, sees the list.                        *)
LEMMA WalkSeesList ==
  ASSUME NEW nx \in Links, NEW h \in SlotOrNull, NEW t, NEW q, Linked(nx, h, t, q)
  PROVE  /\ LinkedIn(nx, h) = Members(q)
         /\ EndsIn(nx, h)
         /\ ListIn(nx, h) = q
<1> DEFINE v == WalkIn(nx, h)
           n == Len(q)
<1>1. \A k \in 0 .. MaxProcesses : v[k] = IF k < n THEN q[k + 1] ELSE NULL
  BY WayOfList
<1>2. q \in [1 .. n -> Slot] /\ n \in 0 .. MaxProcesses /\ n \in Nat
  BY LenProperties, ListLength DEF Linked
<1>3. NULL \notin Slot /\ MaxProcesses \in Nat
  BY ProcessAssumption DEF Slot
<1> HIDE DEF v
<1>4. LinkedIn(nx, h) = Members(q)
  <2>1. ASSUME NEW i \in LinkedIn(nx, h) PROVE i \in Members(q)
    <3>1. PICK k \in 0 .. MaxProcesses : i = v[k] /\ i # NULL
      BY DEF LinkedIn, v
    <3>2. i = q[k + 1] /\ k + 1 \in 1 .. n
      BY <1>1, <1>2, <3>1
    <3> QED BY <3>2 DEF Members
  <2>2. ASSUME NEW k \in 1 .. n PROVE q[k] \in LinkedIn(nx, h)
    <3>1. k - 1 \in 0 .. MaxProcesses /\ k - 1 < n /\ (k - 1) + 1 = k
      BY <1>2, <1>3
    <3>2. v[k - 1] = q[k] /\ q[k] # NULL
      BY <1>1, <1>2, <1>3, <3>1
    <3> QED BY <3>1, <3>2 DEF LinkedIn, v
  <2> QED BY <2>1, <2>2 DEF Members
<1>5. EndsIn(nx, h)
  BY <1>1, <1>2, <1>3 DEF EndsIn, v
<1>6. ListIn(nx, h) = q
  <2> DEFINE first(k) == v[k] = NULL /\ \A j \in 0 .. k - 1 : v[j] # NULL
  <2>1. first(n)
    <3>1. \A j \in 0 .. n - 1 : j \in 0 .. MaxProcesses /\ j < n /\ j + 1 \in 1 .. n
      BY <1>2, <1>3
    <3>2. v[n] = NULL
      BY <1>1, <1>2
    <3> QED BY <1>1, <1>2, <1>3, <3>1, <3>2
  <2>2. \A k \in 0 .. MaxProcesses : first(k) => v[k] = NULL /\ \A j \in 0 .. k - 1 : v[j] # NULL
    OBVIOUS
  <2> HIDE DEF first
  <2>3. ASSUME NEW k \in 0 .. MaxProcesses, first(k) PROVE k = n
    <3>1. k \in Int /\ 0 <= k /\ n \in Int /\ 0 <= n
      BY <1>2, <1>3
    <3>2. ~(k < n)
      <4> SUFFICES ASSUME k < n PROVE FALSE
        OBVIOUS
      <4>1. k + 1 \in 1 .. n
        BY <3>1
      <4>2. v[k] = q[k + 1]
        BY <1>1
      <4> QED BY <1>2, <1>3, <2>2, <2>3, <4>1, <4>2
    <3>3. ~(n < k)
      <4> SUFFICES ASSUME n < k PROVE FALSE
        OBVIOUS
      <4>1. n \in 0 .. k - 1
        BY <3>1
      <4>2. v[n] # NULL
        BY <2>2, <2>3, <4>1
      <4> QED BY <1>1, <1>2, <3>1, <4>2
    <3> QED BY <3>1, <3>2, <3>3
  <2>4. (CHOOSE k \in 0 .. MaxProcesses : first(k)) = n
    BY <1>2, <2>1, <2>3
  <2>5. ListIn(nx, h) = [k \in 1 .. n |-> v[k - 1]]
    BY <2>4 DEF ListIn, first, v
  <2>6. \A k \in 1 .. n : v[k - 1] = q[k]
    <3> TAKE k \in 1 .. n
    <3>1. k - 1 \in 0 .. MaxProcesses /\ k - 1 < n /\ (k - 1) + 1 = k
      BY <1>2, <1>3
    <3> QED BY <1>1, <3>1
  <2> QED BY <1>2, <2>5, <2>6
<1> QED BY <1>4, <1>5, <1>6
-----------------------------------------------------------------------------
(* What the operations do to a list.                                       *)
LEMMA ListEnds ==
  ASSUME NEW nx, NEW h, NEW t, NEW q, Linked(nx, h, t, q)
  PROVE  /\ Members(q) \subseteq Slot
         /\ h = NULL <=> q = <<>>
         /\ q = <<>> => Members(q) = {}
         /\ q # <<>> => h \in Members(q) /\ t \in Members(q) /\ h = Head(q)
<1>1. q \in [1 .. Len(q) -> Slot] /\ Len(q) \in Nat /\ q \in Seq(Slot)
  BY LenProperties DEF Linked
<1>2. Members(q) \subseteq Slot
  BY <1>1 DEF Members
<1>3. CASE q = <<>>
  BY <1>2, <1>3 DEF Linked, Members
<1>4. CASE q # <<>>
  <2>1. 1 \in 1 .. Len(q) /\ Len(q) \in 1 .. Len(q)
    BY <1>1, <1>4, EmptySeq
  <2>2. h = q[1] /\ t = q[Len(q)] /\ q[1] \in Slot
    BY <1>1, <1>4, <2>1 DEF Linked
  <2>3. NULL \notin Slot
    BY ProcessAssumption DEF Slot
  <2>4. h = Head(q)
    BY <1>4, <2>2
  <2> QED BY <1>2, <1>4, <2>1, <2>2, <2>3, <2>4 DEF Members
<1> QED BY <1>3, <1>4

LEMMA ListFrame ==
  ASSUME NEW nx, NEW nx2, NEW h, NEW t, NEW q, Linked(nx, h, t, q),
         \A j \in Members(q) : nx2[j] = nx[j]
  PROVE  Linked(nx2, h, t, q)
<1>1. Len(q) \in Nat
  BY LenProperties DEF Linked
<1>2. \A k \in 1 .. Len(q) - 1 : nx2[q[k]] = q[k + 1]
  <2> TAKE k \in 1 .. Len(q) - 1
  <2>1. k \in 1 .. Len(q)
    BY <1>1
  <2>2. nx2[q[k]] = nx[q[k]]
    BY <2>1 DEF Members
  <2> QED BY <2>2 DEF Linked
<1>3. q # <<>> => nx2[t] = NULL
  BY ListEnds DEF Linked
<1> QED BY <1>2, <1>3 DEF Linked

\* Linking i behind t, the end of the list q, and nothing else of the list.
LinksBehind(nx, nx2, t, q, i) ==
  /\ i \in Slot /\ i \notin Members(q)
  /\ nx2[i] = NULL
  /\ q # <<>> => nx2[t] = i
  /\ \A j \in Members(q) : j # t => nx2[j] = nx[j]

LEMMA ListAppend ==
  ASSUME NEW nx, NEW nx2, NEW h, NEW t, NEW q, Linked(nx, h, t, q),
         NEW i, LinksBehind(nx, nx2, t, q, i)
  PROVE  /\ Linked(nx2, IF h = NULL THEN i ELSE h, i, Append(q, i))
         /\ Members(Append(q, i)) = Members(q) \cup {i}
         /\ Len(Append(q, i)) = Len(q) + 1
<1>0. /\ i \in Slot /\ i \notin Members(q) /\ nx2[i] = NULL
      /\ q # <<>> => nx2[t] = i
      /\ \A j \in Members(q) : j # t => nx2[j] = nx[j]
  BY DEF LinksBehind
<1> DEFINE r == Append(q, i)
           n == Len(q)
<1>1. q \in [1 .. n -> Slot] /\ n \in Nat /\ q \in Seq(Slot)
  BY LenProperties DEF Linked
<1>2. r \in Seq(Slot) /\ r # <<>> /\ Len(r) = n + 1
      /\ (\A k \in 1 .. n : r[k] = q[k]) /\ r[n + 1] = i
  BY <1>0, <1>1, AppendProperties
<1> HIDE DEF r
<1>3. ASSUME NEW j \in 1 .. Len(r), NEW k \in 1 .. Len(r), r[j] = r[k] PROVE j = k
  <2>1. \A m \in 1 .. n : q[m] # i
    BY <1>0 DEF Members
  <2>2. \A m \in 1 .. Len(r) : m \in 1 .. n \/ m = n + 1
    BY <1>1, <1>2
  <2>3. CASE j \in 1 .. n /\ k \in 1 .. n
    BY <1>2, <1>3, <2>3 DEF Linked
  <2>4. CASE ~(j \in 1 .. n /\ k \in 1 .. n)
    BY <1>2, <1>3, <2>1, <2>2, <2>4
  <2> QED BY <2>3, <2>4
<1>4. ASSUME NEW k \in 1 .. Len(r) - 1 PROVE nx2[r[k]] = r[k + 1]
  <2>1. k \in 1 .. n
    BY <1>1, <1>2
  <2>2. r[k] = q[k]
    BY <1>2, <2>1
  <2>3. q # <<>>
    BY <1>1, <2>1, EmptySeq
  <2>4. CASE k = n
    BY <1>0, <1>2, <2>2, <2>3, <2>4 DEF Linked
  <2>5. CASE k # n
    <3>1. k \in 1 .. n - 1 /\ k + 1 \in 1 .. n /\ n \in 1 .. n
      <4>1. k \in Int /\ n \in Int /\ 1 <= k /\ k <= n
        BY <1>1, <2>1
      <4> HIDE DEF n
      <4> QED BY <2>5, <4>1
    <3>2. nx[q[k]] = q[k + 1] /\ t = q[n]
      BY <2>3, <3>1 DEF Linked
    <3>3. q[k] # t
      BY <2>1, <2>5, <3>1, <3>2 DEF Linked
    <3>4. q[k] \in Members(q)
      BY <2>1 DEF Members
    <3> QED BY <1>0, <1>2, <2>2, <3>1, <3>2, <3>3, <3>4
  <2> QED BY <2>4, <2>5
<1>5. (IF h = NULL THEN i ELSE h) = r[1]
  <2>1. CASE h = NULL
    <3>1. q = <<>>
      BY <2>1, ListEnds
    <3> QED BY <1>2, <2>1, <3>1, EmptySeq
  <2>2. CASE h # NULL
    <3>1. q # <<>> /\ h = q[1]
      BY <2>2 DEF Linked
    <3>2. 1 \in 1 .. n
      BY <1>1, <3>1, EmptySeq
    <3> QED BY <1>2, <2>2, <3>1, <3>2
  <2> QED BY <2>1, <2>2
<1>6. Members(r) = Members(q) \cup {i}
  <2>1. 1 .. Len(r) = (1 .. n) \cup {n + 1}
    BY <1>1, <1>2
  <2> QED BY <1>2, <2>1 DEF Members
<1> QED BY <1>0, <1>1, <1>2, <1>3, <1>4, <1>5, <1>6 DEF Linked, r

LEMMA ListPop ==
  ASSUME NEW nx, NEW h, NEW t, NEW q, Linked(nx, h, t, q), q # <<>>,
         NEW u, nx[h] # NULL => u = t
  PROVE  /\ Linked(nx, nx[h], u, Tail(q))
         /\ Members(Tail(q)) = Members(q) \ {h}
         /\ Len(Tail(q)) = Len(q) - 1
<1> DEFINE r == Tail(q)
           n == Len(q)
<1>1. q \in [1 .. n -> Slot] /\ n \in Nat /\ q \in Seq(Slot) /\ n # 0
  BY LenProperties, EmptySeq DEF Linked
<1>2. r \in Seq(Slot) /\ Len(r) = n - 1 /\ \A k \in 1 .. n - 1 : r[k] = q[k + 1]
  BY <1>1, HeadTailProperties
<1> HIDE DEF r
<1>3. h = q[1] /\ 1 \in 1 .. n /\ n \in 1 .. n /\ t = q[n]
  BY <1>1 DEF Linked
<1>4. ASSUME NEW j \in 1 .. Len(r), NEW k \in 1 .. Len(r), r[j] = r[k] PROVE j = k
  <2>1. j + 1 \in 1 .. n /\ k + 1 \in 1 .. n /\ q[j + 1] = q[k + 1]
    BY <1>1, <1>2, <1>4
  <2>2. j + 1 = k + 1
    BY <2>1 DEF Linked
  <2> QED BY <1>1, <1>2, <2>2
<1>5. ASSUME NEW k \in 1 .. Len(r) - 1 PROVE nx[r[k]] = r[k + 1]
  <2>1. k + 1 \in 1 .. n - 1 /\ k \in 1 .. n - 1
    BY <1>1, <1>2
  <2> QED BY <1>2, <2>1 DEF Linked
<1>6. nx[h] = IF r = <<>> THEN NULL ELSE r[1]
  <2>1. CASE n = 1
    <3>1. r = <<>>
      BY <1>2, <2>1, EmptySeq
    <3> QED BY <1>3, <2>1, <3>1 DEF Linked
  <2>2. CASE n # 1
    <3>1. 1 \in 1 .. n - 1 /\ 1 + 1 = 2
      BY <1>1, <2>2
    <3>2. r # <<>>
      BY <1>1, <1>2, <2>2, EmptySeq
    <3>3. nx[q[1]] = q[2] /\ r[1] = q[2]
      BY <1>2, <3>1 DEF Linked
    <3> QED BY <1>3, <3>2, <3>3
  <2> QED BY <2>1, <2>2
<1>7. r # <<>> => u = r[Len(r)] /\ nx[u] = NULL
  <2> SUFFICES ASSUME r # <<>> PROVE u = r[Len(r)] /\ nx[u] = NULL
    OBVIOUS
  <2>1. Len(r) \in 1 .. n - 1 /\ Len(r) + 1 = n /\ 1 \in 1 .. Len(r)
    BY <1>1, <1>2, EmptySeq
  <2>2. r[1] \in Slot /\ NULL \notin Slot
    BY <1>2, <2>1, ElementOfSeq, ProcessAssumption DEF Slot
  <2>3. u = t /\ nx[t] = NULL
    BY <1>6, <2>2 DEF Linked
  <2> QED BY <1>2, <1>3, <2>1, <2>3
<1>8. Members(r) = Members(q) \ {h}
  <2>1. \A k \in 1 .. Len(r) : k + 1 \in 1 .. n /\ r[k] = q[k + 1] /\ k + 1 # 1
    BY <1>1, <1>2
  <2>2. \A k \in 1 .. n : k # 1 => k - 1 \in 1 .. Len(r) /\ r[k - 1] = q[k]
    BY <1>1, <1>2
  <2>3. \A k \in 1 .. n : q[k] = h => k = 1
    BY <1>3 DEF Linked
  <2>4. Members(r) \subseteq Members(q) \ {h}
    BY <2>1, <2>3 DEF Members
  <2>5. Members(q) \ {h} \subseteq Members(r)
    BY <1>3, <2>2 DEF Members
  <2> QED BY <2>4, <2>5
<1> QED BY <1>2, <1>4, <1>5, <1>6, <1>7, <1>8 DEF Linked, r

(* So the list is what the table shows.                                    *)
LEMMA TableShowsList ==
  ASSUME next \in [Slot -> SlotOrNull], NEW h \in SlotOrNull, NEW t, NEW q, Linked(next, h, t, q)
  PROVE  /\ LinkedFrom(h) = Members(q) /\ EndsFrom(h) /\ ListFrom(h) = q
         /\ Members(q) # {} => t \in Members(q) /\ next[t] = NULL
<1>1. next \in Links
  BY DEF Links
<1>2. LinkedIn(next, h) = Members(q) /\ EndsIn(next, h) /\ ListIn(next, h) = q
  BY <1>1, WalkSeesList
<1>3. LinkedFrom(h) = LinkedIn(next, h) /\ (EndsFrom(h) <=> EndsIn(next, h)) /\ ListFrom(h) = ListIn(next, h)
  BY WalkIsWalkIn
<1>4. Members(q) # {} => q # <<>> /\ t \in Members(q)
  BY ListEnds
<1>5. q # <<>> => next[t] = NULL
  BY DEF Linked
<1> QED BY <1>2, <1>3, <1>4, <1>5

-----------------------------------------------------------------------------
(* The ready queue.                                                        *)

\* The ready queue is the list q of used slots.  A process that runs as itself
\* has left it, or was never in it; and process_execute_simple will not find a
\* process of the queue, unless the command that created it is still running.
QueueOf(q) ==
  /\ Linked(next, ready_queue_head, ready_queue_tail, q)
  /\ \A i \in Members(q) : i \in UserSlot /\ InUse(i)
  /\ OwnProcess => current_process \notin Members(q)
  /\ \A i \in Members(q) : state[i] = "READY" /\ pid[i] < MaxProcesses =>
       mode = "entry" /\ frame.command = "create" /\ frame.slot = i

Queues == mode # "lost" /\ ~dangling => \E q : QueueOf(q)

\* What a step may make of the queue.
FifoStep(q, r) ==
  \/ r = q
  \/ \E i \in Slot : pid'[i] = next_pid /\ r = Append(q, i)
  \/ /\ q # <<>>
     /\ current_process' = Head(q)
     /\ r = Tail(q) \o IF current_process = KERNEL_PID THEN <<>> ELSE <<current_process>>

\* The links a step may change: those of the queue, of a new process, and of
\* the process that loses the processor.
OtherLinksKept(q) ==
  initialized => \A j \in Slot : \/ next'[j] = next[j]
                                 \/ j \in Members(q)
                                 \/ ~InUse(j)
                                 \/ /\ mode' = "lost" /\ OwnProcess /\ j = current_process
                                    /\ next'[j] = NULL

QueueStep(q, r) ==
  /\ Linked(next', ready_queue_head', ready_queue_tail', r)
  /\ FifoStep(q, r)
  /\ OtherLinksKept(q)
  /\ mode' # "lost" => QueueOf(r)' /\ \A j \in Members(r) : j \in Members(q) \/ ~InUse(j)

LEMMA LinksWithFacts ==
  ASSUME next \in Links, NEW t \in SlotOrNull, NEW i \in Slot, t # i
  PROVE  /\ LinksWith(t, i)[i] = NULL
         /\ t # NULL => LinksWith(t, i)[t] = i
         /\ \A j \in Slot : j # i /\ j # t => LinksWith(t, i)[j] = next[j]
BY SlotFacts DEF LinksWith, Links, SlotOrNull

LEMMA SameQueue ==
  ASSUME NEW q, QueueOf(q), UNCHANGED <<next, queue>>,
         mode' # "lost" => /\ \A i \in Members(q) : pid'[i] # INVALID_PID
                           /\ OwnProcess' => current_process' \notin Members(q)
                           /\ \A i \in Members(q) : state'[i] = "READY" /\ pid'[i] < MaxProcesses =>
                                mode' = "entry" /\ frame'.command = "create" /\ frame'.slot = i
  PROVE  QueueStep(q, q)
BY DEF QueueOf, QueueStep, FifoStep, OtherLinksKept, queue, InUse

\* Outside the entry points no queued process is executable.
LEMMA QueuedNotExecuted ==
  ASSUME IInv, NEW q, QueueOf(q), NEW i \in Slot, NEW p \in Pid \cup {INVALID_PID},
         Executable(p, i), mode # "entry"
  PROVE  i \notin Members(q)
<1>1. state[i] = "READY" /\ pid[i] = p /\ p \in 0 .. MaxProcesses - 1
  BY DEF Executable, Found
<1>2. pid[i] < MaxProcesses
  BY <1>1, ProcessAssumption
<1> QED BY <1>1, <1>2 DEF QueueOf

LEMMA CreateQueue ==
  ASSUME IInv, NEW q, QueueOf(q), NEW i \in UserSlot, Create(i)
  PROVE  QueueStep(q, Append(q, i))
<1>1. NewProcess(i) /\ mode = "shell" /\ ~InUse(i) /\ i \in Slot
  BY SlotFacts DEF Create, NewProcess, FirstFreeSlot
<1>2. i \notin Members(q)
  BY <1>1 DEF QueueOf
<1>3. next \in Links /\ ready_queue_tail \in SlotOrNull /\ Members(q) \subseteq Slot
  BY ListEnds DEF IInv, TypeOK, Links, QueueOf
<1>4. (ready_queue_tail = NULL <=> q = <<>>) /\ (ready_queue_tail = NULL <=> ready_queue_head = NULL)
  BY ListEnds DEF IInv, QueueEndsAgree, QueueOf
<1>5. ready_queue_tail # i
  <2>1. q # <<>> => ready_queue_tail \in Members(q)
    BY ListEnds DEF QueueOf
  <2> QED BY <1>1, <1>2, <1>4, <2>1, SlotFacts
<1>6. /\ next' = LinksWith(ready_queue_tail, i)
      /\ ready_queue_head' = IF ready_queue_head = NULL THEN i ELSE ready_queue_head
      /\ ready_queue_tail' = i
  BY <1>4 DEF Create, HeadWith, TailWith
<1>7. /\ next'[i] = NULL
      /\ q # <<>> => next'[ready_queue_tail] = i
      /\ \A j \in Slot : j # i /\ j # ready_queue_tail => next'[j] = next[j]
  BY <1>1, <1>3, <1>4, <1>5, <1>6, LinksWithFacts
<1>8. /\ Linked(next', ready_queue_head', ready_queue_tail', Append(q, i))
      /\ Members(Append(q, i)) = Members(q) \cup {i}
  <2>1. Linked(next, ready_queue_head, ready_queue_tail, q) /\ i \in Slot
    BY <1>1 DEF QueueOf
  <2>2. LinksBehind(next, next', ready_queue_tail, q, i)
    BY <1>1, <1>2, <1>3, <1>7 DEF LinksBehind
  <2>3. /\ Linked(next', IF ready_queue_head = NULL THEN i ELSE ready_queue_head, i, Append(q, i))
        /\ Members(Append(q, i)) = Members(q) \cup {i}
    BY <2>1, <2>2, ListAppend
  <2> QED BY <1>6, <2>3
<1>9. FifoStep(q, Append(q, i))
  BY <1>1 DEF NewProcess, FifoStep, IInv, TypeOK
<1>10. OtherLinksKept(q)
  BY <1>1, <1>4, <1>7, ListEnds, SlotFacts DEF OtherLinksKept, QueueOf
<1>11. QueueOf(Append(q, i))'
  <2>1. pid' = [pid EXCEPT ![i] = next_pid] /\ state' = [state EXCEPT ![i] = NewState]
        /\ pid \in [Slot -> Pid \cup {INVALID_PID}] /\ state \in [Slot -> State]
    BY <1>1 DEF NewProcess, IInv, TypeOK
  <2>2. pid'[i] = next_pid /\ \A j \in Slot : j # i => pid'[j] = pid[j] /\ state'[j] = state[j]
    BY <1>1, <2>1
  <2>3. next_pid # INVALID_PID
    BY ProcessAssumption DEF IInv, TypeOK, INVALID_PID, FIRST_USER_PID
  <2>4. \A j \in Members(q) \cup {i} : j \in UserSlot /\ pid'[j] # INVALID_PID
    BY <1>3, <2>2, <2>3 DEF QueueOf, InUse
  <2>5. ~(mode' = "entry" /\ frame'.command \in {"execute", "runall"})
    BY <1>1 DEF Create, control
  <2>6. \A j \in Members(q) : ~(state[j] = "READY" /\ pid[j] < MaxProcesses)
    BY <1>1 DEF QueueOf
  <2>7. ASSUME NEW j \in Members(q) \cup {i}, state'[j] = "READY", pid'[j] < MaxProcesses
        PROVE  mode' = "entry" /\ frame'.command = "create" /\ frame'.slot = j
    <3>1. j = i
      BY <1>2, <1>3, <2>2, <2>6, <2>7
    <3> QED BY <2>2, <2>7, <3>1 DEF Create
  <2> QED BY <1>8, <2>4, <2>5, <2>7 DEF QueueOf, OwnProcess, InUse
<1> QED BY <1>1, <1>8, <1>9, <1>10, <1>11 DEF QueueStep

\* A yield from a queue that is intact gives the processor away for good.
LEMMA YieldQueue ==
  ASSUME IInv, NEW q, QueueOf(q), mode # "lost", Yield
  PROVE  /\ mode' = "lost"
         /\ \E r : QueueStep(q, r)
<1> DEFINE h == ready_queue_head
           c == current_process
           u == TailAfterPop
<1>1. h # NULL /\ h \in Slot /\ initialized /\ Switch
  BY DEF Yield, IInv, TypeOK, Boot, SlotOrNull
<1>2. q # <<>> /\ h \in Members(q) /\ h = Head(q) /\ Members(q) \subseteq UserSlot
      /\ ready_queue_tail \in Members(q)
  BY <1>1, ListEnds DEF QueueOf
<1>3. next \in Links /\ NULL \notin Slot /\ UserSlot \subseteq Slot
  BY SlotFacts DEF IInv, TypeOK, Links
<1>4. c # h /\ c \in Slot /\ (~OwnProcess => c = KERNEL_PID) /\ (OwnProcess => c \in UserSlot)
  BY <1>1, <1>2, SlotFacts DEF QueueOf, IInv, Control, OwnProcess
<1>5. mode' = "lost" /\ current_process' = h
  BY <1>1, <1>4 DEF Switch
<1>6. next[h] # NULL => u = ready_queue_tail
  BY DEF TailAfterPop
<1>7. u = NULL <=> next[h] = NULL
  BY <1>2, <1>3 DEF TailAfterPop
<1>8. Linked(next, next[h], u, Tail(q)) /\ Members(Tail(q)) = Members(q) \ {h}
  <2> HIDE DEF u
  <2> QED BY <1>2, <1>6, ListPop DEF QueueOf
<1>9. CASE ~OwnProcess
  <2>1. c = KERNEL_PID /\ pid[c] = KERNEL_PID
    BY <1>1, <1>4, <1>9 DEF IInv, UniquePids
  <2>2. next' = next /\ ready_queue_head' = next[h] /\ ready_queue_tail' = u
    BY <1>1, <2>1 DEF Switch
  <2>3. Tail(q) = Tail(q) \o <<>>
    BY <1>8, ConcatEmptySeq DEF Linked
  <2>4. FifoStep(q, Tail(q))
    BY <1>2, <1>5, <2>1, <2>3 DEF FifoStep
  <2> QED BY <1>5, <1>8, <2>2, <2>4 DEF QueueStep, OtherLinksKept
<1>10. CASE OwnProcess
  <2>1. c \notin Members(q) /\ c \in Slot /\ c # KERNEL_PID /\ c # NULL
    BY <1>3, <1>4, <1>10, SlotFacts DEF QueueOf
  <2>2. pid[c] # KERNEL_PID
    BY <1>1, <1>4, <1>10, ProcessAssumption
       DEF IInv, TypeOK, UniquePids, InUse, INVALID_PID, KERNEL_PID, FIRST_USER_PID
  <2>3. /\ next' = LinksWith(u, c)
        /\ ready_queue_head' = IF next[h] = NULL THEN c ELSE next[h]
        /\ ready_queue_tail' = c
    BY <1>1, <1>7, <2>1, <2>2 DEF Switch, HeadWith, TailWith
  <2>4. u \in SlotOrNull /\ u # c
    BY <1>2, <1>3, <2>1 DEF TailAfterPop, SlotOrNull
  <2> HIDE DEF u
  <2>5. /\ next'[c] = NULL
        /\ u # NULL => next'[u] = c
        /\ \A j \in Slot : j # c /\ j # u => next'[j] = next[j]
    BY <1>3, <2>1, <2>3, <2>4, LinksWithFacts
  <2>6. (Tail(q) # <<>> => u # NULL) /\ (u # NULL => u \in Members(q))
    BY <1>2, <1>6, <1>7, <1>8, ListEnds
  <2>7. Linked(next', ready_queue_head', ready_queue_tail', Append(Tail(q), c))
    <3>1. Tail(q) # <<>> => next'[u] = c
      BY <1>8, <2>1, <2>5, <2>6
    <3>2. \A j \in Members(Tail(q)) : j # u => next'[j] = next[j]
      BY <1>2, <1>3, <1>8, <2>1, <2>5
    <3>3. LinksBehind(next, next', u, Tail(q), c)
      BY <1>8, <2>1, <2>5, <3>1, <3>2 DEF LinksBehind
    <3> HIDE DEF c, h
    <3>4. Linked(next', IF next[h] = NULL THEN c ELSE next[h], c, Append(Tail(q), c))
      BY <1>8, <3>3, ListAppend
    <3> QED BY <2>3, <3>4
  <2>8. Append(Tail(q), c) = Tail(q) \o <<c>>
    BY <1>8, <2>1, AppendIsConcat DEF Linked
  <2>9. FifoStep(q, Append(Tail(q), c))
    BY <1>2, <1>5, <2>1, <2>8 DEF FifoStep
  <2>10. OtherLinksKept(q)
    BY <1>3, <1>5, <1>10, <2>5, <2>6 DEF OtherLinksKept
  <2> QED BY <1>5, <2>7, <2>9, <2>10 DEF QueueStep
<1> QED BY <1>5, <1>9, <1>10

\* process_cleanup_terminated sees to it that a queue it does not disturb
\* keeps its processes.
LEMMA CleanupQueue ==
  ASSUME IInv, NEW q, QueueOf(q), Cleanup, ~dangling'
  PROVE  QueueStep(q, q)
<1>1. Queued = Members(q)
  BY TableShowsList DEF IInv, TypeOK, QueueOf, Queued
<1>2. \A i \in Members(q) : i \in Slot /\ InUse(i) /\ ~Reclaimable(i)
  BY <1>1, SlotFacts DEF Cleanup, QueueOf
<1>3. \A i \in Members(q) : pid'[i] = pid[i] /\ pid'[i] # INVALID_PID
  BY <1>2 DEF Cleanup, InUse
<1> QED BY <1>3, SameQueue DEF Cleanup, QueueOf, OwnProcess, queue, control

LEMMA StartEntryQueue ==
  ASSUME IInv, NEW q, QueueOf(q), NEW i \in Slot, i \notin Members(q),
         NEW command \in {"execute", "runall"}, StartEntry(command, i), mode # "entry"
  PROVE  QueueStep(q, q)
<1>1. \A j \in Members(q) : pid'[j] # INVALID_PID
  BY DEF QueueOf, StartEntry, InUse
<1>2. \A j \in Members(q) : j \in Slot /\ j # i
  BY SlotFacts DEF QueueOf
<1>3. \A j \in Members(q) : state'[j] = state[j] /\ pid'[j] = pid[j]
  BY <1>2 DEF StartEntry, IInv, TypeOK
<1>4. \A j \in Members(q) : ~(state'[j] = "READY" /\ pid'[j] < MaxProcesses)
  BY <1>3 DEF QueueOf
<1> QED BY <1>1, <1>4, SameQueue DEF StartEntry

(* Every step leaves a queue that is intact intact, and moves it as a FIFO *)
(* moves.                                                                  *)
LEMMA StepQueue ==
  ASSUME IInv, [Next]_vars, mode # "lost", ~dangling', NEW q, QueueOf(q)
  PROVE  \E r : QueueStep(q, r)
<1>0. \A i \in Members(q) : i \in Slot /\ i \in UserSlot /\ InUse(i)
  BY SlotFacts DEF QueueOf
<1>1. CASE ProcessInit
  <2>1. q = <<>> /\ ready_queue_head = NULL
    BY <1>1, ListEnds DEF ProcessInit, IInv, Boot, QueueOf
  <2>2. Members(q) = {}
    BY <2>1, ListEnds DEF QueueOf
  <2>3. Linked(next', ready_queue_head', ready_queue_tail', q)
    BY <1>1, <2>1 DEF ProcessInit, QueueOf, Linked
  <2> QED BY <1>1, <2>2, <2>3
          DEF QueueStep, FifoStep, OtherLinksKept, QueueOf, ProcessInit
<1>2. ASSUME NEW i \in UserSlot, Create(i) PROVE \E r : QueueStep(q, r)
  BY <1>2, CreateQueue
<1>3. ASSUME NEW i \in UserSlot, CreateSimple(i) PROVE QueueStep(q, q)
  <2>1. NewProcess(i) /\ ~InUse(i) /\ i \in Slot /\ mode = "shell" /\ mode' = "shell"
        /\ frame' = frame /\ UNCHANGED queue
    BY <1>3, SlotFacts DEF CreateSimple, NewProcess, FirstFreeSlot, control
  <2>2. i \notin Members(q)
    BY <1>0, <2>1
  <2>3. \A j \in Slot : j # i => next'[j] = next[j] /\ pid'[j] = pid[j] /\ state'[j] = state[j]
    BY <1>3, <2>1 DEF CreateSimple, NewProcess, IInv, TypeOK
  <2>4. Linked(next', ready_queue_head, ready_queue_tail, q)
    BY <1>0, <2>2, <2>3, ListFrame DEF QueueOf
  <2>5. OtherLinksKept(q)
    BY <2>1, <2>3 DEF OtherLinksKept
  <2>6. \A j \in Members(q) : pid'[j] = pid[j] /\ state'[j] = state[j]
    BY <1>0, <2>2, <2>3
  <2> QED BY <2>1, <2>4, <2>5, <2>6
          DEF QueueStep, FifoStep, QueueOf, OwnProcess, InUse, queue
<1>4. CASE Run \/ RunAll
  BY <1>0, <1>4, SameQueue DEF Run, RunAll, QueueOf, OwnProcess, InUse, table
<1>5. ASSUME NEW p \in Pid, Execute(p) PROVE QueueStep(q, q)
  <2>1. PICK i \in Slot : Executable(p, i) /\ StartEntry("execute", i) /\ mode # "entry"
    BY <1>5 DEF Execute
  <2>2. i \notin Members(q)
    BY <2>1, QueuedNotExecuted
  <2> QED BY <2>1, <2>2, StartEntryQueue
<1>6. ASSUME NEW p \in Pid, Kill(p) PROVE QueueStep(q, q)
  <2>1. \A j \in Members(q) : state'[j] = "READY" => state[j] = "READY"
    BY <1>0, <1>6 DEF Kill, IInv, TypeOK
  <2> QED BY <1>0, <1>6, <2>1, SameQueue DEF Kill, QueueOf, OwnProcess, InUse, queue, control
<1>7. CASE Cleanup
  BY <1>7, CleanupQueue
<1>8. CASE RunAllNext
  <2>1. ASSUME NEW i \in frame.slot .. MaxProcesses - 1, Executable(pid[i], i), StartEntry("runall", i)
        PROVE  QueueStep(q, q)
    <3>1. i \in Slot /\ pid[i] \in Pid \cup {INVALID_PID} /\ mode # "entry"
      BY <1>8, <2>1, SlotFacts DEF RunAllNext, Executable, IInv, TypeOK
    <3>2. i \notin Members(q)
      BY <2>1, <3>1, QueuedNotExecuted
    <3> QED BY <2>1, <3>1, <3>2, StartEntryQueue
  <2>2. ASSUME mode' = "shell", frame' = NoFrame,
               UNCHANGED <<table, current_process, queue, next_pid, initialized, dangling>>
        PROVE  QueueStep(q, q)
    BY <1>0, <1>8, <2>2, SameQueue DEF RunAllNext, QueueOf, OwnProcess, InUse, table
  <2> QED BY <1>8, <2>1, <2>2 DEF RunAllNext
<1>9. CASE EntryReturns
  <2>1. mode = "entry" /\ mode' # "entry" /\ UNCHANGED <<pid, next, queue>>
    BY <1>9 DEF EntryReturns
  <2>2. ASSUME NEW j \in Members(q), state'[j] = "READY", pid'[j] < MaxProcesses PROVE FALSE
    <3>1. frame.command # "run" => frame.slot \in Slot /\ state' = [state EXCEPT ![frame.slot] = "TERMINATED"]
      BY <1>9, SlotFacts DEF EntryReturns, IInv, Control
    <3>2. state'[j] = state[j] /\ (frame.command # "run" => frame.slot # j)
      BY <1>0, <1>9, <2>2, <3>1 DEF EntryReturns, IInv, TypeOK
    <3> QED BY <2>1, <2>2, <3>2 DEF QueueOf
  <2> QED BY <1>0, <2>1, <2>2, SameQueue DEF OwnProcess, InUse
<1>10. ASSUME NEW code \in {0, 1}, Exit(code) PROVE QueueStep(q, q)
  <2>1. \A j \in Members(q) : state'[j] = "READY" => state[j] = "READY"
    BY <1>0, <1>10 DEF Exit, IInv, TypeOK
  <2> QED BY <1>0, <1>10, <2>1, SameQueue DEF Exit, QueueOf, OwnProcess, InUse, queue, control
<1>11. CASE Yield
  BY <1>11, YieldQueue
<1>12. CASE UNCHANGED vars
  BY <1>0, <1>12, SameQueue DEF vars, table, queue, control, QueueOf, OwnProcess, InUse
<1> QED BY <1>1, <1>2, <1>3, <1>4, <1>5, <1>6, <1>7, <1>8, <1>9, <1>10, <1>11, <1>12
        DEF Next, Command

(* After a switch that loses the processor nothing happens.                *)
LEMMA LostIsFinal ==
  ASSUME [Next]_vars, mode = "lost"
  PROVE  UNCHANGED vars
BY DEF Next, Command, ProcessInit, Create, CreateSimple, Run, Execute, Kill, RunAll, Cleanup,
       RunAllNext, EntryReturns, Exit, Yield

(* A queue that was cleaned up behind its back stays so.                   *)
LEMMA DanglingIsFinal ==
  ASSUME [Next]_vars, dangling
  PROVE  dangling'
BY DEF Next, Command, ProcessInit, Create, CreateSimple, NewProcess, Run, Execute, Kill, RunAll,
       Cleanup, RunAllNext, StartEntry, EntryReturns, Exit, Yield, Switch, vars

(* "proc init" is for good.                                                *)
LEMMA InitializedStays ==
  ASSUME [Next]_vars, initialized
  PROVE  initialized'
BY DEF Next, Command, ProcessInit, Create, CreateSimple, NewProcess, Run, Execute, Kill, RunAll,
       Cleanup, RunAllNext, StartEntry, EntryReturns, Exit, Yield, Switch, vars

LEMMA StepQueues == IInv /\ Queues /\ [Next]_vars => Queues'
<1> SUFFICES ASSUME IInv, Queues, [Next]_vars, mode' # "lost", ~dangling'
             PROVE  \E r : QueueOf(r)'
  BY DEF Queues
<1>1. mode # "lost"
  BY LostIsFinal DEF vars, control
<1>2. ~dangling
  BY DanglingIsFinal DEF IInv, TypeOK
<1>3. PICK q : QueueOf(q)
  BY <1>1, <1>2 DEF Queues
<1>4. \E r : QueueStep(q, r)
  BY <1>1, <1>3, StepQueue
<1> QED BY <1>4 DEF QueueStep

(* As long as no queued process was cleaned up, the links from             *)
(* ready_queue_head describe a sequence of processes, whatever was created *)
(* and switched to.                                                        *)
THEOREM QueuesHold == Spec => [](IInv /\ Queues)
<1>1. Init => Queues
  <2> SUFFICES ASSUME Init PROVE \E q : QueueOf(q)
    BY DEF Queues
  <2>1. Linked(next, NULL, NULL, <<>>)
    BY EmptySeq DEF Linked
  <2>2. Members(<<>>) = {}
    BY EmptySeq DEF Members
  <2>3. QueueOf(<<>>)
    BY <2>1, <2>2 DEF QueueOf, Init
  <2> QED BY <2>3
<1>2. IInv /\ [Next]_vars => IInv'
  BY StepType, StepRest DEF IInv, Rest
<1> QED BY <1>1, <1>2, InitIInv, StepQueues, PTL DEF Spec

(* process_create, process_yield, process_switch and all that surrounds    *)
(* them keep the ready queue a list of used slots that ends at its tail.   *)
THEOREM QueueIntact == Spec => []QueueIntactUnlessDangling
<1>1. IInv /\ Queues => QueueIntactUnlessDangling
  <2> SUFFICES ASSUME IInv, mode # "lost", ~dangling, NEW q, QueueOf(q) PROVE ReadyQueueIsList
    BY DEF Queues, QueueIntactUnlessDangling
  <2>1. /\ Linked(next, ready_queue_head, ready_queue_tail, q)
        /\ next \in [Slot -> SlotOrNull] /\ ready_queue_head \in SlotOrNull
    BY DEF IInv, TypeOK, QueueOf
  <2>2. /\ Queued = Members(q) /\ EndsFrom(ready_queue_head)
        /\ Members(q) # {} => ready_queue_tail \in Members(q) /\ next[ready_queue_tail] = NULL
    BY <2>1, TableShowsList DEF Queued
  <2> QED BY <2>2 DEF ReadyQueueIsList, QueueOf
<1> QED BY <1>1, QueuesHold, PTL

(* The ready queue is first in, first out.                                 *)
THEOREM QueueIsFifo == Spec => ReadyQueueIsFifo
<1> DEFINE Fifo ==
      ~dangling' =>
        \/ ReadyQueue' = ReadyQueue
        \/ \E i \in Slot : pid'[i] = next_pid /\ ReadyQueue' = Append(ReadyQueue, i)
        \/ /\ ReadyQueue # <<>>
           /\ current_process' = Head(ReadyQueue)
           /\ ReadyQueue' = Tail(ReadyQueue) \o
                IF current_process = KERNEL_PID THEN <<>> ELSE <<current_process>>
<1>1. IInv /\ Queues /\ IInv' /\ [Next]_vars => Fifo \/ UNCHANGED vars
  <2> SUFFICES ASSUME IInv, Queues, IInv', Next, ~dangling', ~UNCHANGED vars
               PROVE  Fifo
    OBVIOUS
  <2>1. mode # "lost" /\ ~dangling
    BY LostIsFinal, DanglingIsFinal DEF IInv, TypeOK
  <2>2. PICK q : QueueOf(q)
    BY <2>1 DEF Queues
  <2>3. PICK r : QueueStep(q, r)
    BY <2>1, <2>2, StepQueue
  <2>4. ReadyQueue = q
    BY <2>2, TableShowsList DEF IInv, TypeOK, QueueOf, ReadyQueue
  <2>5. next' \in Links /\ ready_queue_head' \in SlotOrNull
    BY DEF IInv, TypeOK, Links
  <2>6. ListIn(next', ready_queue_head') = r
    BY <2>3, <2>5, WalkSeesList DEF QueueStep
  <2>7. ReadyQueue' = ListIn(next', ready_queue_head')
    BY DEF ReadyQueue, ListFrom, Walk, ListIn, WalkIn
  <2> HIDE DEF Fifo
  <2>8. FifoStep(q, r)
    BY <2>3 DEF QueueStep
  <2> QED BY <2>4, <2>6, <2>7, <2>8 DEF FifoStep, Fifo
<1>2. IInv /\ [Next]_vars => IInv'
  BY StepType, StepRest DEF IInv, Rest
<1> QED BY <1>1, <1>2, QueuesHold, PTL DEF Spec, ReadyQueueIsFifo
=============================================================================
