----------------------------- MODULE IpcProofs -----------------------------
(***************************************************************************)
(* Proofs about the semaphores and the messages of kernel/ipc.c, for any   *)
(* number of either and of processes.  As long as nothing is linked twice  *)
(* or cleaned up while it is linked, the waiting queues and the ready      *)
(* queue are lists apart, no permit is lost and a process that is BLOCKED  *)
(* can be woken.  A message reaches only its addressee, and the pool of    *)
(* messages implements Mailboxes.                                          *)
(***************************************************************************)
EXTENDS Semaphore, Messages, ProcessProofs

\* The waiting queues are the lists w, one for each semaphore; whoever is
\* BLOCKED is in one, and the permits below zero are those that wait.
WaitQueues(w) ==
  /\ \A s \in Sem : Linked(next, waiting_head[s], waiting_tail[s], w[s])
  /\ \A s, t \in Sem : s # t => Members(w[s]) \cap Members(w[t]) = {}
  /\ \A s \in Sem : \A i \in Members(w[s]) : InUse(i)
  /\ \A i \in Slot : InUse(i) /\ state[i] = "BLOCKED" => \E s \in Sem : i \in Members(w[s])
  /\ \A s \in Sem : Used(s) => permits[s] = value[s] - Len(w[s])

\* They are apart from the ready queue q; who waits is not ready; and a process
\* that runs as itself and waits is the last of its queue.
WaitersApart(w, q) ==
  /\ \A s \in Sem : Members(w[s]) \cap Members(q) = {}
  /\ \A s \in Sem : \A i \in Members(w[s]) : state[i] \in {"BLOCKED", "TERMINATED"}
  /\ OwnProcess => \A s \in Sem : current_process \in Members(w[s]) => waiting_tail[s] = current_process

Waits ==
  ~disturbed /\ ~dangling =>
    \E w : /\ WaitQueues(w)
           /\ mode # "lost" => \E q : QueueOf(q) /\ WaitersApart(w, q)

\* A semaphore has a value only while nobody waits; before "proc init", and for
\* a semaphore that does not exist, nobody does.
Pool ==
  /\ \A s \in Sem : value[s] > 0 => waiting_head[s] = NULL
  /\ \A s \in Sem : ~Used(s) => waiting_head[s] = NULL
  /\ ~initialized => \A s \in Sem : waiting_head[s] = NULL

SemIInv == IInv /\ CurrentUsed /\ SemTypeOK /\ Pool /\ Waits

-----------------------------------------------------------------------------
LEMMA SemInitInv == SemInit => SemIInv
<1> SUFFICES ASSUME SemInit PROVE SemIInv
  OBVIOUS
<1>1. IInv /\ CurrentUsed
  BY InitIInv DEF SemInit, Init, CurrentUsed, OwnProcess
<1>2. SemTypeOK
  <2>1. 0 \in (-MaxProcesses) .. ValueBound /\ 0 \in 0 .. ValueBound /\ 1 \in 1 .. SemIdBound
    BY ProcessAssumption, SemaphoreAssumption
  <2> QED BY <1>1, <2>1 DEF SemInit, EmptyPool, SemTypeOK, IInv, SlotOrNull
<1>3. Pool
  BY DEF SemInit, EmptyPool, Pool
<1>4. Waits
  <2> DEFINE w == [s \in Sem |-> <<>>]
  <2>1. \A t : Linked(next, NULL, t, <<>>)
    BY EmptySeq DEF Linked
  <2>2. Members(<<>>) = {}
    BY EmptySeq DEF Members
  <2>3. WaitQueues(w)
    BY <2>1, <2>2 DEF SemInit, Init, EmptyPool, WaitQueues, Used
  <2>4. QueueOf(<<>>) /\ WaitersApart(w, <<>>)
    BY <2>1, <2>2 DEF SemInit, Init, QueueOf, WaitersApart
  <2> HIDE DEF w
  <2> QED BY <2>3, <2>4 DEF Waits
<1> QED BY <1>1, <1>2, <1>3, <1>4 DEF SemIInv

(* A step of ipc.c changes only the states and the links of the process    *)
(* table, and lets nobody run.                                             *)
LEMMA PoolStepKeepsProcesses ==
  ASSUME IInv, CurrentUsed, UNCHANGED untouched,
         state' \in [Slot -> State], next' \in [Slot -> SlotOrNull],
         \A i \in Slot : state'[i] = "RUNNING" => state[i] = "RUNNING"
  PROVE  IInv' /\ CurrentUsed'
<1>1. TypeOK'
  BY DEF IInv, TypeOK, untouched, queue, control
<1>2. UniquePids' /\ QueueEndsAgree' /\ Boot' /\ Control'
  BY DEF IInv, UniquePids, QueueEndsAgree, Boot, Control, OwnProcess, InUse, untouched, queue, control
<1>3. OneRunning'
  BY SlotFacts DEF IInv, OneRunning, OwnProcess, InUse, untouched, control
<1>4. CurrentUsed'
  BY DEF CurrentUsed, OwnProcess, InUse, untouched, control
<1> QED BY <1>1, <1>2, <1>3, <1>4 DEF IInv

LEMMA NothingStepKeepsProcesses ==
  ASSUME IInv, CurrentUsed, UNCHANGED vars
  PROVE  IInv' /\ CurrentUsed'
<1>1. [Next]_vars
  OBVIOUS
<1> QED BY <1>1, StepType, StepRest, CurrentStaysUsed DEF IInv, Rest

(* Whoever calls is in use.                                                *)
LEMMA CallerUsed ==
  ASSUME IInv, CurrentUsed, mode # "lost", current_process # NULL
  PROVE  initialized /\ current_process \in Slot /\ InUse(current_process)
<1>1. initialized /\ current_process \in Slot
  BY DEF IInv, TypeOK, Boot, SlotOrNull
<1>2. CASE OwnProcess
  BY <1>1, <1>2 DEF CurrentUsed
<1>3. CASE ~OwnProcess
  BY <1>1, <1>3 DEF IInv, Control, UniquePids, InUse, KERNEL_PID, INVALID_PID
<1> QED BY <1>1, <1>2, <1>3

(* What waits for s, read off the table.                                   *)
LEMMA WaitersAreMembers ==
  ASSUME SemTypeOK, NEW w, WaitQueues(w), NEW s \in Sem
  PROVE  /\ Waiters(s) = Members(w[s])
         /\ EndsFrom(waiting_head[s])
         /\ ListFrom(waiting_head[s]) = w[s]
         /\ Members(w[s]) # {} => waiting_tail[s] \in Members(w[s]) /\ next[waiting_tail[s]] = NULL
<1>1. /\ next \in [Slot -> SlotOrNull] /\ waiting_head[s] \in SlotOrNull
      /\ Linked(next, waiting_head[s], waiting_tail[s], w[s])
  BY DEF SemTypeOK, TypeOK, WaitQueues
<1> QED BY <1>1, TableShowsList DEF Waiters

-----------------------------------------------------------------------------
(* The steps of process.c.  None of them blocks a process ...              *)
LEMMA StepBlocksNobody ==
  ASSUME IInv, [Next]_vars, NEW i \in Slot, state'[i] = "BLOCKED", pid'[i] # INVALID_PID
  PROVE  state[i] = "BLOCKED" /\ InUse(i)
<1>0. state \in [Slot -> State] /\ pid \in [Slot -> Pid \cup {INVALID_PID}]
  BY DEF IInv, TypeOK
<1>1. CASE ProcessInit
  BY <1>1 DEF ProcessInit
<1>2. ASSUME NEW j \in UserSlot, Create(j) \/ CreateSimple(j)
      PROVE  state[i] = "BLOCKED" /\ InUse(i)
  BY <1>0, <1>2 DEF Create, CreateSimple, NewProcess, NewState, InUse
<1>3. CASE Run \/ RunAll
  BY <1>3 DEF Run, RunAll, table, InUse
<1>4. ASSUME NEW p \in Pid, Execute(p) \/ Kill(p)
      PROVE  state[i] = "BLOCKED" /\ InUse(i)
  BY <1>0, <1>4 DEF Execute, StartEntry, Kill, InUse
<1>5. CASE Cleanup
  BY <1>5 DEF Cleanup, InUse
<1>6. CASE RunAllNext
  BY <1>0, <1>6 DEF RunAllNext, StartEntry, table, InUse
<1>7. CASE EntryReturns
  BY <1>0, <1>7 DEF EntryReturns, InUse
<1>8. ASSUME NEW code \in {0, 1}, Exit(code)
      PROVE  state[i] = "BLOCKED" /\ InUse(i)
  BY <1>0, <1>8 DEF Exit, InUse
<1>9. CASE Yield
  <2>1. pid' = pid /\ \E c \in Slot \cup {NULL} : \E r \in {state, [state EXCEPT ![c] = "READY"]} :
           state' = [r EXCEPT ![ready_queue_head] = "RUNNING"]
    BY <1>9 DEF Yield, Switch, IInv, TypeOK, SlotOrNull
  <2> QED BY <1>0, <2>1 DEF InUse
<1>10. CASE UNCHANGED vars
  BY <1>10 DEF vars, table, InUse
<1> QED BY <1>1, <1>2, <1>3, <1>4, <1>5, <1>6, <1>7, <1>8, <1>9, <1>10 DEF Next, Command

(* ... and none readies or runs a process that waits or has terminated, or *)
(* makes it current, unless it gives the processor away for good.          *)
LEMMA StepLeavesWaiters ==
  ASSUME IInv, [Next]_vars, NEW q, QueueOf(q), mode # "lost", mode' # "lost",
         initialized, NEW i \in Slot, InUse(i), state[i] \in {"BLOCKED", "TERMINATED"}
  PROVE  /\ state'[i] \in {"BLOCKED", "TERMINATED"}
         /\ OwnProcess' /\ current_process' = i => OwnProcess /\ current_process = i
<1>0. state \in [Slot -> State] /\ state[i] # "READY"
  BY DEF IInv, TypeOK
<1>1. CASE ProcessInit
  BY <1>1 DEF ProcessInit
<1>2. ASSUME NEW j \in UserSlot, Create(j) \/ CreateSimple(j)
      PROVE  state'[i] = state[i] /\ ~OwnProcess'
  <2>1. NewProcess(j) /\ j # i
    BY <1>2 DEF Create, CreateSimple, NewProcess, FirstFreeSlot
  <2>2. state'[i] = state[i]
    BY <1>0, <2>1 DEF NewProcess
  <2>3. ~OwnProcess'
    BY <1>2 DEF Create, CreateSimple, OwnProcess, control
  <2> QED BY <2>2, <2>3
<1>3. CASE Run \/ RunAll
  <2>1. state' = state
    BY <1>3 DEF Run, RunAll, table
  <2>2. Run => mode' = "entry" /\ frame'.command = "run"
    BY DEF Run
  <2>3. RunAll => mode' = "runall"
    BY DEF RunAll
  <2> QED BY <1>3, <2>1, <2>2, <2>3 DEF OwnProcess
<1>4. ASSUME NEW j \in Slot, NEW command, StartEntry(command, j), state[j] = "READY"
      PROVE  state'[i] = state[i] /\ current_process' # i
  BY <1>0, <1>4 DEF StartEntry
<1>5. ASSUME NEW p \in Pid, Execute(p)
      PROVE  state'[i] = state[i] /\ current_process' # i
  BY <1>4, <1>5 DEF Execute, Executable
<1>6. ASSUME NEW p \in Pid, Kill(p)
      PROVE  state'[i] \in {"BLOCKED", "TERMINATED"} /\ ~OwnProcess'
  BY <1>0, <1>6 DEF Kill, OwnProcess, control
<1>7. CASE Cleanup
  BY <1>7 DEF Cleanup, OwnProcess, control
<1>8. CASE RunAllNext
  <2>1. ASSUME NEW j \in frame.slot .. MaxProcesses - 1, Executable(pid[j], j), StartEntry("runall", j)
        PROVE  state'[i] = state[i] /\ current_process' # i
    <3>1. j \in Slot /\ state[j] = "READY"
      BY <2>1, SlotFacts DEF Executable
    <3> QED BY <1>4, <2>1, <3>1
  <2>2. ASSUME mode' = "shell", UNCHANGED table
        PROVE  state'[i] = state[i] /\ ~OwnProcess'
    BY <2>2 DEF table, OwnProcess
  <2>3. \/ \E j \in frame.slot .. MaxProcesses - 1 : Executable(pid[j], j) /\ StartEntry("runall", j)
        \/ mode' = "shell" /\ UNCHANGED table
    BY <1>8 DEF RunAllNext
  <2> QED BY <2>1, <2>2, <2>3
<1>9. CASE EntryReturns
  BY <1>0, <1>9 DEF EntryReturns, OwnProcess
<1>10. ASSUME NEW code \in {0, 1}, Exit(code)
       PROVE  /\ state'[i] \in {"BLOCKED", "TERMINATED"}
              /\ (OwnProcess' <=> OwnProcess) /\ current_process' = current_process
  BY <1>0, <1>10 DEF Exit, OwnProcess, control
<1>11. CASE Yield
  BY <1>11, YieldQueue
<1>12. CASE UNCHANGED vars
  BY <1>12 DEF vars, table, control, OwnProcess
<1> QED BY <1>1, <1>2, <1>3, <1>5, <1>6, <1>7, <1>8, <1>9, <1>10, <1>11, <1>12
        DEF Next, Command

(* A step of process.c that disturbs no waiting queue leaves them all as   *)
(* they are.                                                               *)
LEMMA ProcessStepWaits ==
  ASSUME IInv, SemTypeOK, Pool, [Next]_vars, UNCHANGED pool, permits' = permits,
         NEW w, WaitQueues(w), mode # "lost",
         \A i \in Waiting : InUse(i) => pid'[i] # INVALID_PID,
         NEW q, QueueOf(q), WaitersApart(w, q), ~dangling'
  PROVE  /\ WaitQueues(w)'
         /\ mode' # "lost" => \E r : QueueOf(r)' /\ WaitersApart(w, r)'
<1>1. PICK r : QueueStep(q, r)
  BY StepQueue
<1>2. ASSUME NEW s \in Sem
      PROVE  /\ Members(w[s]) \subseteq Slot
             /\ Linked(next, waiting_head[s], waiting_tail[s], w[s])
             /\ \A i \in Members(w[s]) : initialized /\ InUse(i) /\ i \notin Members(q) /\ i \in Waiting
  <2>1. Linked(next, waiting_head[s], waiting_tail[s], w[s])
    BY DEF WaitQueues
  <2>2. Members(w[s]) \subseteq Slot /\ (waiting_head[s] = NULL => Members(w[s]) = {})
    BY <2>1, ListEnds
  <2>3. \A i \in Members(w[s]) : initialized
    BY <2>2 DEF Pool
  <2>4. \A i \in Members(w[s]) : InUse(i) /\ i \notin Members(q)
    BY DEF WaitQueues, WaitersApart
  <2>5. Members(w[s]) \subseteq Waiting
    BY WaitersAreMembers DEF Waiting
  <2> QED BY <2>1, <2>2, <2>3, <2>4, <2>5
<1>3. ASSUME NEW s \in Sem, NEW i \in Members(w[s])
      PROVE  next'[i] = next[i]
  <2>1. i \in Slot /\ initialized /\ InUse(i) /\ i \notin Members(q)
    BY <1>2, <1>3
  <2>2. CASE next'[i] = NULL /\ OwnProcess /\ i = current_process
    <3>1. waiting_tail[s] = i
      BY <1>3, <2>2 DEF WaitersApart
    <3>2. w[s] # <<>>
      BY <1>2, <1>3, ListEnds
    <3> QED BY <1>2, <2>2, <3>1, <3>2 DEF Linked
  <2> QED BY <1>1, <2>1, <2>2 DEF QueueStep, OtherLinksKept
<1>4. ASSUME NEW s \in Sem
      PROVE  Linked(next', waiting_head'[s], waiting_tail'[s], w[s])
  <2>1. Linked(next', waiting_head[s], waiting_tail[s], w[s])
    BY <1>2, <1>3, ListFrame
  <2> QED BY <2>1 DEF pool
<1>5. \A s \in Sem : \A i \in Members(w[s]) : pid'[i] # INVALID_PID
  BY <1>2
<1>6. ASSUME NEW i \in Slot, pid'[i] # INVALID_PID, state'[i] = "BLOCKED"
      PROVE  \E s \in Sem : i \in Members(w[s])
  BY <1>6, StepBlocksNobody DEF WaitQueues
<1>7. WaitQueues(w)'
  BY <1>4, <1>5, <1>6 DEF WaitQueues, InUse, Used, pool
<1>8. ASSUME mode' # "lost" PROVE QueueOf(r)' /\ WaitersApart(w, r)'
  <2>1. QueueOf(r)' /\ \A j \in Members(r) : j \in Members(q) \/ ~InUse(j)
    BY <1>1, <1>8 DEF QueueStep
  <2>2. \A s \in Sem : Members(w[s]) \cap Members(r) = {}
    BY <1>2, <2>1
  <2>3. ASSUME NEW s \in Sem, NEW i \in Members(w[s])
        PROVE  /\ state'[i] \in {"BLOCKED", "TERMINATED"}
               /\ OwnProcess' /\ current_process' = i => OwnProcess /\ current_process = i
    BY <1>2, <1>8, <2>3, StepLeavesWaiters DEF WaitersApart
  <2>4. ASSUME NEW s \in Sem, OwnProcess', current_process' \in Members(w[s])
        PROVE  waiting_tail'[s] = current_process'
    BY <2>3, <2>4 DEF WaitersApart, pool
  <2> QED BY <2>1, <2>2, <2>3, <2>4 DEF WaitersApart
<1> QED BY <1>7, <1>8

LEMMA RecordedType ==
  ASSUME NEW p, Recorded(p),
         ~disturbed' /\ ~dangling' => p \in [Sem -> (-MaxProcesses) .. ValueBound]
  PROVE  permits' \in [Sem -> (-MaxProcesses) .. ValueBound]
<1>1. 0 \in (-MaxProcesses) .. ValueBound
  BY ProcessAssumption, SemaphoreAssumption
<1> QED BY <1>1 DEF Recorded

LEMMA ProcessStepInv ==
  ASSUME SemIInv, ProcessStep
  PROVE  SemIInv'
<1>1. IInv' /\ CurrentUsed'
  BY StepType, StepRest, CurrentStaysUsed DEF ProcessStep, SemIInv, IInv, Rest
<1>2. SemTypeOK'
  <2>1. permits' \in [Sem -> (-MaxProcesses) .. ValueBound]
    BY RecordedType DEF ProcessStep, SemIInv, SemTypeOK
  <2> QED BY <1>1, <2>1 DEF ProcessStep, SemIInv, SemTypeOK, IInv, pool
<1>3. Pool'
  <2>1. initialized => initialized'
    BY InitializedStays DEF ProcessStep
  <2> QED BY <2>1 DEF ProcessStep, SemIInv, Pool, Used, pool
<1>4. Waits'
  <2> SUFFICES ASSUME ~disturbed', ~dangling'
               PROVE  \E w : /\ WaitQueues(w)'
                             /\ mode' # "lost" => \E q : QueueOf(q)' /\ WaitersApart(w, q)'
    BY DEF Waits
  <2>1. ~disturbed /\ ~dangling /\ (\A i \in Waiting : InUse(i) => pid'[i] # INVALID_PID)
        /\ permits' = permits /\ UNCHANGED pool /\ Next
    BY DanglingIsFinal DEF ProcessStep, Recorded, SemIInv, SemTypeOK, TypeOK
  <2>2. PICK w : /\ WaitQueues(w)
                 /\ mode # "lost" => \E q : QueueOf(q) /\ WaitersApart(w, q)
    BY <2>1 DEF SemIInv, Waits
  <2>3. CASE mode = "lost"
    <3>1. UNCHANGED vars
      BY <2>1, <2>3, LostIsFinal
    <3>2. WaitQueues(w)'
      BY <2>1, <2>2, <3>1 DEF WaitQueues, InUse, Used, pool, vars, table
    <3> QED BY <2>3, <3>1, <3>2 DEF vars, control
  <2>4. CASE mode # "lost"
    <3>1. PICK q : QueueOf(q) /\ WaitersApart(w, q)
      BY <2>2, <2>4
    <3>2. /\ WaitQueues(w)'
          /\ mode' # "lost" => \E r : QueueOf(r)' /\ WaitersApart(w, r)'
      BY <2>1, <2>2, <2>4, <3>1, ProcessStepWaits DEF SemIInv
    <3> QED BY <3>2
  <2> QED BY <2>3, <2>4
<1> QED BY <1>1, <1>2, <1>3, <1>4 DEF SemIInv

-----------------------------------------------------------------------------
(* The steps of ipc.c.                                                     *)
LEMMA QueueNotTouched ==
  ASSUME NEW q, QueueOf(q), UNCHANGED untouched,
         \A i \in Members(q) : next'[i] = next[i] /\ state'[i] = state[i]
  PROVE  QueueOf(q)'
<1>1. Linked(next', ready_queue_head, ready_queue_tail, q)
  BY ListFrame DEF QueueOf
<1> QED BY <1>1 DEF QueueOf, OwnProcess, InUse, untouched, queue, control

LEMMA IpcInitInv ==
  ASSUME SemIInv, IpcInit
  PROVE  SemIInv'
<1>0. UNCHANGED vars /\ UNCHANGED <<state, next>> /\ UNCHANGED untouched
  BY DEF IpcInit, vars, untouched, table, queue, control
<1>1. IInv' /\ CurrentUsed'
  BY <1>0, NothingStepKeepsProcesses DEF SemIInv
<1>2. 0 \in (-MaxProcesses) .. ValueBound /\ 0 \in 0 .. ValueBound /\ 1 \in 1 .. SemIdBound
  BY ProcessAssumption, SemaphoreAssumption
<1>3. SemTypeOK'
  <2>1. permits' \in [Sem -> (-MaxProcesses) .. ValueBound]
    BY <1>2 DEF IpcInit, Recorded
  <2> QED BY <1>1, <1>2, <2>1 DEF IpcInit, SemIInv, SemTypeOK, IInv, SlotOrNull
<1>4. Pool'
  BY DEF IpcInit, Pool
<1>5. Waits'
  <2> SUFFICES ASSUME ~disturbed', ~dangling'
               PROVE  \E v : /\ WaitQueues(v)'
                             /\ mode' # "lost" => \E q : QueueOf(q)' /\ WaitersApart(v, q)'
    BY DEF Waits
  <2>1. ~disturbed /\ ~dangling /\ Waiting = {}
    <3>1. (disturbed' = (disturbed \/ Waiting # {})) /\ dangling' = dangling
      BY <1>0 DEF IpcInit, vars
    <3> QED BY <3>1
  <2>2. PICK w : /\ WaitQueues(w)
                 /\ mode # "lost" => \E q : QueueOf(q) /\ WaitersApart(w, q)
    BY <2>1 DEF SemIInv, Waits
  <2>3. \A s \in Sem : Members(w[s]) = {}
    BY <2>1, <2>2, WaitersAreMembers DEF SemIInv, Waiting
  <2> DEFINE v == [s \in Sem |-> <<>>]
  <2>4. Members(<<>>) = {} /\ \A t : Linked(next', NULL, t, <<>>)
    BY EmptySeq DEF Members, Linked
  <2>5. \A i \in Slot : ~(InUse(i) /\ state[i] = "BLOCKED")
    BY <2>2, <2>3 DEF WaitQueues
  <2>6. \A s \in Sem : waiting_head'[s] = NULL /\ id'[s] = INVALID_SEMAPHORE_ID /\ v[s] = <<>>
    BY DEF IpcInit
  <2> HIDE DEF v
  <2>7. WaitQueues(v)'
    BY <1>0, <2>4, <2>5, <2>6 DEF WaitQueues, Used, InUse, vars, table
  <2>8. ASSUME NEW q, QueueOf(q) PROVE QueueOf(q)' /\ WaitersApart(v, q)'
    BY <1>0, <2>4, <2>6, <2>8, QueueNotTouched DEF WaitersApart
  <2> QED BY <1>0, <2>2, <2>7, <2>8 DEF vars, control
<1> QED BY <1>1, <1>3, <1>4, <1>5 DEF SemIInv

(* A step that changes only numbers of the pool leaves the queues alone.   *)
LEMMA SameWaiters ==
  ASSUME NEW w, WaitQueues(w), UNCHANGED vars,
         \A s \in Sem : /\ waiting_head'[s] = waiting_head[s] \/ (w[s] = <<>> /\ waiting_head'[s] = NULL)
                        /\ waiting_tail'[s] = waiting_tail[s] \/ w[s] = <<>>
                        /\ id'[s] # INVALID_SEMAPHORE_ID => permits'[s] = value'[s] - Len(w[s]),
         mode # "lost" => \E q : QueueOf(q) /\ WaitersApart(w, q)
  PROVE  /\ WaitQueues(w)'
         /\ mode' # "lost" => \E q : QueueOf(q)' /\ WaitersApart(w, q)'
<1>0. UNCHANGED <<state, next>> /\ UNCHANGED untouched
  BY DEF vars, untouched, table, queue, control
<1>1. ASSUME NEW s \in Sem PROVE Linked(next', waiting_head'[s], waiting_tail'[s], w[s])
  <2>1. Linked(next, waiting_head[s], waiting_tail[s], w[s])
    BY DEF WaitQueues
  <2>2. w[s] = <<>> => waiting_head[s] = NULL
    BY <2>1, ListEnds
  <2> QED BY <1>0, <2>1, <2>2 DEF Linked
<1>2. WaitQueues(w)'
  BY <1>1 DEF WaitQueues, Used, InUse, vars, table
<1>3. ASSUME NEW q, QueueOf(q), WaitersApart(w, q)
      PROVE  QueueOf(q)' /\ WaitersApart(w, q)'
  <2>1. QueueOf(q)'
    BY <1>0, <1>3, QueueNotTouched
  <2>2. \A s \in Sem : current_process \in Members(w[s]) => waiting_tail'[s] = waiting_tail[s]
    <3>1. Members(<<>>) = {}
      BY EmptySeq DEF Members
    <3> QED BY <3>1
  <2> QED BY <1>0, <1>3, <2>1, <2>2 DEF WaitersApart, OwnProcess, vars, control
<1> QED BY <1>2, <1>3 DEF vars, control

\* The permits a step leaves are those it records, as long as they mean anything.
LEMMA PermitsOf ==
  ASSUME NEW p, Recorded(p), ~disturbed', ~dangling'
  PROVE  permits' = p
BY DEF Recorded

LEMMA SemCreateInv ==
  ASSUME SemIInv, NEW s \in Sem, NEW v \in 0 .. ValueBound, SemCreate(s, v)
  PROVE  SemIInv'
<1>1. IInv' /\ CurrentUsed'
  BY NothingStepKeepsProcesses DEF SemCreate, SemIInv
<1>2. SemTypeOK'
  <2>1. v \in (-MaxProcesses) .. ValueBound
    BY ProcessAssumption, SemaphoreAssumption
  <2>2. permits' \in [Sem -> (-MaxProcesses) .. ValueBound]
    BY <2>1, RecordedType DEF SemCreate, SemIInv, SemTypeOK
  <2>3. next_semaphore_id \in 1 .. SemIdBound - 1 /\ next_semaphore_id + 1 \in 1 .. SemIdBound
    BY SemaphoreAssumption DEF SemCreate, SemIInv, SemTypeOK
  <2> QED BY <1>1, <2>2, <2>3 DEF SemCreate, NotDisturbed, SemIInv, SemTypeOK, IInv, SlotOrNull
<1>3. Pool'
  BY DEF SemCreate, SemIInv, SemTypeOK, Pool, Used, vars
<1>4. Waits'
  <2> SUFFICES ASSUME ~disturbed', ~dangling'
               PROVE  \E w : /\ WaitQueues(w)'
                             /\ mode' # "lost" => \E q : QueueOf(q)' /\ WaitersApart(w, q)'
    BY DEF Waits
  <2>1. ~disturbed /\ ~dangling /\ permits' = [permits EXCEPT ![s] = v]
    BY PermitsOf DEF SemCreate, NotDisturbed, vars
  <2>2. PICK w : /\ WaitQueues(w)
                 /\ mode # "lost" => \E q : QueueOf(q) /\ WaitersApart(w, q)
    BY <2>1 DEF SemIInv, Waits
  <2>3. w[s] = <<>> /\ Len(w[s]) = 0
    <3>1. Linked(next, waiting_head[s], waiting_tail[s], w[s]) /\ waiting_head[s] = NULL
      BY <2>2 DEF WaitQueues, SemCreate, SemIInv, Pool
    <3> QED BY <3>1, ListEnds, EmptySeq
  <2>4. /\ waiting_head'[s] = NULL /\ permits'[s] = v /\ value'[s] = v
        /\ \A t \in Sem : t # s => /\ waiting_head'[t] = waiting_head[t]
                                   /\ waiting_tail'[t] = waiting_tail[t]
                                   /\ id'[t] = id[t] /\ permits'[t] = permits[t] /\ value'[t] = value[t]
    BY <2>1 DEF SemCreate, SemIInv, SemTypeOK
  <2>5. ASSUME NEW t \in Sem
        PROVE  /\ waiting_head'[t] = waiting_head[t] \/ (w[t] = <<>> /\ waiting_head'[t] = NULL)
               /\ waiting_tail'[t] = waiting_tail[t] \/ w[t] = <<>>
               /\ id'[t] # INVALID_SEMAPHORE_ID => permits'[t] = value'[t] - Len(w[t])
    <3>1. CASE t = s
      BY <2>3, <2>4, <3>1
    <3>2. CASE t # s
      BY <2>2, <2>4, <3>2 DEF WaitQueues, Used
    <3> QED BY <3>1, <3>2
  <2> QED BY <2>2, <2>5, SameWaiters DEF SemCreate
<1> QED BY <1>1, <1>2, <1>3, <1>4 DEF SemIInv

LEMMA WaitTakesInv ==
  ASSUME SemIInv, NEW s \in Sem, WaitTakes(s)
  PROVE  SemIInv'
<1>1. IInv' /\ CurrentUsed'
  BY NothingStepKeepsProcesses DEF WaitTakes, SemIInv
<1>2. value[s] \in 1 .. ValueBound /\ waiting_head[s] = NULL /\ Used(s)
  BY SemaphoreAssumption DEF WaitTakes, Available, SemIInv, SemTypeOK, Pool
<1>3. ASSUME ~disturbed', ~dangling'
      PROVE  /\ permits' = [permits EXCEPT ![s] = @ - 1]
             /\ permits'[s] = value[s] - 1
             /\ \E w : /\ WaitQueues(w)'
                       /\ mode' # "lost" => \E q : QueueOf(q)' /\ WaitersApart(w, q)'
  <2>1. ~disturbed /\ ~dangling /\ permits' = [permits EXCEPT ![s] = @ - 1]
    BY <1>3, PermitsOf DEF WaitTakes, NotDisturbed, vars
  <2>2. PICK w : /\ WaitQueues(w)
                 /\ mode # "lost" => \E q : QueueOf(q) /\ WaitersApart(w, q)
    BY <2>1 DEF SemIInv, Waits
  <2>3. w[s] = <<>> /\ Len(w[s]) = 0
    <3>1. Linked(next, waiting_head[s], waiting_tail[s], w[s])
      BY <2>2 DEF WaitQueues
    <3> QED BY <1>2, <3>1, ListEnds, EmptySeq
  <2>4. permits[s] = value[s]
    BY <1>2, <2>2, <2>3 DEF WaitQueues
  <2>5. /\ permits'[s] = value[s] - 1 /\ value'[s] = value[s] - 1
        /\ \A t \in Sem : t # s => permits'[t] = permits[t] /\ value'[t] = value[t]
    BY <2>1, <2>4 DEF WaitTakes, SemIInv, SemTypeOK
  <2>6. \A t \in Sem : id'[t] # INVALID_SEMAPHORE_ID => permits'[t] = value'[t] - Len(w[t])
    <3>1. value'[s] - Len(w[s]) = value[s] - 1
      BY <1>2, <2>3, <2>5
    <3> QED BY <2>2, <2>5, <3>1 DEF WaitTakes, WaitQueues, Used
  <2>7. /\ WaitQueues(w)'
        /\ mode' # "lost" => \E q : QueueOf(q)' /\ WaitersApart(w, q)'
    BY <2>2, <2>6, SameWaiters DEF WaitTakes
  <2> QED BY <2>1, <2>5, <2>7
<1>4. SemTypeOK'
  <2>1. value[s] - 1 \in (-MaxProcesses) .. ValueBound /\ value[s] - 1 \in 0 .. ValueBound
    BY <1>2, ProcessAssumption, SemaphoreAssumption
  <2>2. permits' \in [Sem -> (-MaxProcesses) .. ValueBound]
    <3>1. CASE disturbed' \/ dangling'
      <4>1. 0 \in (-MaxProcesses) .. ValueBound
        BY ProcessAssumption, SemaphoreAssumption
      <4> QED BY <3>1, <4>1 DEF WaitTakes, Recorded
    <3>2. CASE ~(disturbed' \/ dangling')
      BY <1>3, <2>1, <3>2 DEF SemIInv, SemTypeOK
    <3> QED BY <3>1, <3>2
  <2> QED BY <1>1, <2>1, <2>2 DEF WaitTakes, NotDisturbed, SemIInv, SemTypeOK, IInv
<1>5. Pool'
  BY <1>2 DEF WaitTakes, SemIInv, SemTypeOK, Pool, Used, vars
<1> QED BY <1>1, <1>3, <1>4, <1>5 DEF SemIInv, Waits

-----------------------------------------------------------------------------
(* A step of ipc.c that changes one waiting queue, that of s from w[s] to  *)
(* v[s]: nobody else is touched, who leaves is not BLOCKED any more, and   *)
(* who enters is BLOCKED, in use and was in no queue.                      *)
OneQueueChanges(s, w, v) ==
  /\ Linked(next', waiting_head'[s], waiting_tail'[s], v[s])
  /\ \A t \in Sem : t # s => /\ v[t] = w[t]
                             /\ waiting_head'[t] = waiting_head[t]
                             /\ waiting_tail'[t] = waiting_tail[t]
                             /\ id'[t] = id[t]
                             /\ value'[t] = value[t]
                             /\ permits'[t] = permits[t]
  /\ \A i \in Slot : i \notin Members(v[s]) /\ i \notin Members(w[s]) =>
       next'[i] = next[i] /\ state'[i] = state[i]
  /\ \A i \in Members(w[s]) : i \notin Members(v[s]) => state'[i] # "BLOCKED"
  /\ \A i \in Members(w[s]) : i \in Members(v[s]) => state'[i] = state[i]
  /\ \A i \in Members(v[s]) : i \notin Members(w[s]) =>
       state'[i] = "BLOCKED" /\ InUse(i) /\ i \notin Waiting \cup Queued
  /\ id'[s] # INVALID_SEMAPHORE_ID => permits'[s] = value'[s] - Len(v[s])

LEMMA OneQueueStep ==
  ASSUME SemTypeOK, NEW w, WaitQueues(w), NEW q, QueueOf(q), WaitersApart(w, q),
         UNCHANGED untouched, NEW s \in Sem, NEW v, OneQueueChanges(s, w, v),
         OwnProcess /\ current_process \in Members(v[s]) => waiting_tail'[s] = current_process
  PROVE  WaitQueues(v)' /\ QueueOf(q)' /\ WaitersApart(v, q)'
<1>1. Queued = Members(q) /\ Members(q) \subseteq Slot
  BY TableShowsList, ListEnds DEF SemTypeOK, TypeOK, QueueOf, Queued
<1>2. \A t \in Sem : Members(w[t]) \subseteq Waiting /\ Members(w[t]) \subseteq Slot
  <2> TAKE t \in Sem
  <2>1. Members(w[t]) \subseteq Slot
    BY ListEnds DEF WaitQueues
  <2> QED BY <2>1, WaitersAreMembers DEF Waiting
<1>3. \A i \in Members(v[s]) : i \in Members(w[s]) \/ (i \notin Members(q) /\ \A t \in Sem : i \notin Members(w[t]))
  BY <1>1, <1>2 DEF OneQueueChanges
<1>4. Members(v[s]) \subseteq Slot
  BY ListEnds DEF OneQueueChanges
<1>5. ASSUME NEW t \in Sem, t # s, NEW i \in Members(w[t])
      PROVE  /\ i \in Slot /\ i \notin Members(v[s]) /\ i \notin Members(w[s])
             /\ next'[i] = next[i] /\ state'[i] = state[i]
  <2>1. i \in Slot /\ i \notin Members(w[s])
    BY <1>2, <1>5 DEF WaitQueues
  <2>2. i \notin Members(v[s])
    BY <1>3, <1>5, <2>1
  <2> QED BY <2>1, <2>2 DEF OneQueueChanges
<1>6. ASSUME NEW i \in Members(q)
      PROVE  next'[i] = next[i] /\ state'[i] = state[i] /\ i \notin Members(v[s])
  <2>1. i \in Slot /\ i \notin Members(w[s])
    BY <1>1, <1>6 DEF WaitersApart
  <2>2. i \notin Members(v[s])
    BY <1>3, <1>6, <2>1
  <2> QED BY <2>1, <2>2 DEF OneQueueChanges
<1>7. WaitQueues(v)'
  <2>1. ASSUME NEW t \in Sem PROVE Linked(next', waiting_head'[t], waiting_tail'[t], v[t])
    <3>1. CASE t = s
      BY <3>1 DEF OneQueueChanges
    <3>2. CASE t # s
      <4>1. Linked(next, waiting_head[t], waiting_tail[t], w[t])
        BY DEF WaitQueues
      <4>2. Linked(next', waiting_head[t], waiting_tail[t], w[t])
        BY <1>5, <3>2, <4>1, ListFrame
      <4> QED BY <3>2, <4>2 DEF OneQueueChanges
    <3> QED BY <3>1, <3>2
  <2>2. \A t, u \in Sem : t # u => Members(v[t]) \cap Members(v[u]) = {}
    <3>1. \A t, u \in Sem : t # u /\ t # s /\ u # s => Members(v[t]) \cap Members(v[u]) = {}
      BY DEF OneQueueChanges, WaitQueues
    <3>2. \A t \in Sem : t # s => Members(v[t]) \cap Members(v[s]) = {}
      BY <1>5 DEF OneQueueChanges
    <3> QED BY <3>1, <3>2
  <2>3. ASSUME NEW t \in Sem, NEW i \in Members(v[t]) PROVE InUse(i)
    BY <2>3 DEF OneQueueChanges, WaitQueues
  <2>4. ASSUME NEW i \in Slot, InUse(i), state'[i] = "BLOCKED"
        PROVE  \E t \in Sem : i \in Members(v[t])
    <3>1. CASE i \in Members(v[s])
      BY <3>1
    <3>2. CASE i \notin Members(v[s])
      <4>1. i \notin Members(w[s])
        BY <2>4, <3>2 DEF OneQueueChanges
      <4>2. state[i] = "BLOCKED"
        BY <2>4, <3>2, <4>1 DEF OneQueueChanges
      <4>3. PICK t \in Sem : i \in Members(w[t])
        BY <2>4, <4>2 DEF WaitQueues
      <4> QED BY <4>1, <4>3 DEF OneQueueChanges
    <3> QED BY <3>1, <3>2
  <2>5. ASSUME NEW t \in Sem, id'[t] # INVALID_SEMAPHORE_ID
        PROVE  permits'[t] = value'[t] - Len(v[t])
    BY <2>5 DEF OneQueueChanges, WaitQueues, Used
  <2> QED BY <2>1, <2>2, <2>3, <2>4, <2>5 DEF WaitQueues, InUse, Used, untouched
<1>8. QueueOf(q)'
  BY <1>6, QueueNotTouched
<1>9. WaitersApart(v, q)'
  <2>1. \A t \in Sem : Members(v[t]) \cap Members(q) = {}
    BY <1>6 DEF OneQueueChanges, WaitersApart
  <2>2. ASSUME NEW t \in Sem, NEW i \in Members(v[t]) PROVE state'[i] \in {"BLOCKED", "TERMINATED"}
    <3>1. CASE t = s
      BY <2>2, <3>1 DEF OneQueueChanges, WaitersApart
    <3>2. CASE t # s
      BY <1>5, <2>2, <3>2 DEF OneQueueChanges, WaitersApart
    <3> QED BY <3>1, <3>2
  <2>3. ASSUME NEW t \in Sem, OwnProcess, current_process \in Members(v[t])
        PROVE  waiting_tail'[t] = current_process
    BY <2>3 DEF OneQueueChanges, WaitersApart
  <2> QED BY <2>1, <2>2, <2>3 DEF WaitersApart, OwnProcess, untouched, control
<1> QED BY <1>7, <1>8, <1>9

(* What a step of ipc.c that leaves the machine running finds.             *)
LEMMA WaitsNow ==
  ASSUME SemIInv, ~disturbed, ~dangling, mode # "lost"
  PROVE  \E w, q : WaitQueues(w) /\ QueueOf(q) /\ WaitersApart(w, q)
BY DEF SemIInv, Waits

LEMMA WaitJoinsInv ==
  ASSUME SemIInv, NEW s \in Sem, WaitJoins(s)
  PROVE  SemIInv'
<1> DEFINE c == current_process
           t == waiting_tail[s]
<1>1. mode # "lost" /\ Used(s) /\ c # NULL /\ UNCHANGED untouched /\ UNCHANGED <<id, value, next_semaphore_id>>
  BY DEF WaitJoins, Calling
<1>2. initialized /\ c \in Slot /\ InUse(c)
  BY <1>1, CallerUsed DEF SemIInv
<1>3. value[s] = 0
  BY SemaphoreAssumption DEF WaitJoins, Available, SemIInv, SemTypeOK
<1>4. /\ next \in [Slot -> SlotOrNull] /\ state \in [Slot -> State]
      /\ waiting_head \in [Sem -> SlotOrNull] /\ waiting_tail \in [Sem -> SlotOrNull]
      /\ permits \in [Sem -> (-MaxProcesses) .. ValueBound] /\ SemTypeOK
  BY DEF SemIInv, SemTypeOK, TypeOK
<1>5. state' = [state EXCEPT ![c] = "BLOCKED"] /\ next' \in [Slot -> SlotOrNull]
  BY <1>2, <1>4 DEF WaitJoins, LinksOfWaiter, SlotOrNull
<1>6. IInv' /\ CurrentUsed'
  <2>1. state' \in [Slot -> State] /\ \A i \in Slot : state'[i] = "RUNNING" => state[i] = "RUNNING"
    BY <1>2, <1>4, <1>5 DEF State
  <2> QED BY <1>1, <1>5, <2>1, PoolStepKeepsProcesses DEF SemIInv
<1>7. /\ waiting_head' = [waiting_head EXCEPT ![s] = IF waiting_head[s] = NULL THEN c ELSE waiting_head[s]]
      /\ waiting_tail' = [waiting_tail EXCEPT ![s] = c]
      /\ Recorded([permits EXCEPT ![s] = permits[s] - 1])
  BY DEF WaitJoins, TailWithWaiter
<1>8. ASSUME ~disturbed', ~dangling'
      PROVE  /\ permits' = [permits EXCEPT ![s] = permits[s] - 1]
             /\ permits[s] - 1 \in (-MaxProcesses) .. 0
             /\ \E v, q : WaitQueues(v)' /\ QueueOf(q)' /\ WaitersApart(v, q)'
  <2>1. ~disturbed /\ c \notin Waiting /\ c \notin Queued
    <3>1. disturbed' = (disturbed \/ c \in Waiting \cup Queued)
      BY DEF WaitJoins
    <3> QED BY <1>8, <3>1
  <2>2. ~dangling /\ permits' = [permits EXCEPT ![s] = permits[s] - 1]
    BY <1>1, <1>7, <1>8, PermitsOf DEF untouched
  <2>3. PICK w, q : WaitQueues(w) /\ QueueOf(q) /\ WaitersApart(w, q)
    BY <1>1, <2>1, <2>2, WaitsNow
  <2>4. Linked(next, waiting_head[s], t, w[s]) /\ Members(w[s]) \subseteq Waiting /\ Members(w[s]) \subseteq Slot
    <3>1. Linked(next, waiting_head[s], t, w[s])
      BY <2>3 DEF WaitQueues
    <3>2. Members(w[s]) \subseteq Waiting
      BY <1>4, <2>3, WaitersAreMembers DEF Waiting
    <3> QED BY <3>1, <3>2, ListEnds
  <2>5. (waiting_head[s] = NULL <=> w[s] = <<>>) /\ (w[s] # <<>> => t \in Members(w[s]))
    BY <2>4, ListEnds
  <2>6. LinksBehind(next, next', t, w[s], c)
    <3>1. c \notin Members(w[s])
      BY <2>1, <2>4
    <3>2. CASE waiting_head[s] = NULL
      <4>1. next' = [next EXCEPT ![c] = NULL]
        BY <3>2 DEF WaitJoins, LinksOfWaiter
      <4> QED BY <1>2, <1>4, <2>4, <2>5, <3>1, <3>2, <4>1 DEF LinksBehind
    <3>3. CASE waiting_head[s] # NULL
      <4>1. next' = [[next EXCEPT ![c] = NULL] EXCEPT ![t] = c]
        BY <3>3 DEF WaitJoins, LinksOfWaiter
      <4> QED BY <1>2, <1>4, <2>4, <2>5, <3>1, <3>3, <4>1 DEF LinksBehind
    <3> QED BY <3>2, <3>3
  <2>7. /\ Linked(next', IF waiting_head[s] = NULL THEN c ELSE waiting_head[s], c, Append(w[s], c))
        /\ Members(Append(w[s], c)) = Members(w[s]) \cup {c}
        /\ Len(Append(w[s], c)) = Len(w[s]) + 1
    <3> DEFINE h == waiting_head[s]
               x == w[s]
    <3>1. Linked(next, h, t, x) /\ LinksBehind(next, next', t, x, c)
      BY <2>4, <2>6
    <3> HIDE DEF c, t, h, x
    <3>2. /\ Linked(next', IF h = NULL THEN c ELSE h, c, Append(x, c))
          /\ Members(Append(x, c)) = Members(x) \cup {c}
          /\ Len(Append(x, c)) = Len(x) + 1
      BY <3>1, ListAppend
    <3> QED BY <3>2 DEF h, x
  <2>8. Len(w[s]) \in Nat /\ Len(w[s]) + 1 <= MaxProcesses
    <3>1. Len(Append(w[s], c)) \in 0 .. MaxProcesses
      BY <2>7, ListLength DEF Linked
    <3>2. Len(w[s]) \in Nat
      BY <2>4, LenProperties DEF Linked
    <3> QED BY <2>7, <3>1, <3>2, ProcessAssumption
  <2>9. permits[s] = 0 - Len(w[s])
    BY <1>1, <1>3, <2>3 DEF WaitQueues
  <2>10. permits[s] - 1 \in (-MaxProcesses) .. 0
    BY <2>8, <2>9, ProcessAssumption
  <2>11. \A i \in Slot : i # c /\ i \notin Members(w[s]) => next'[i] = next[i] /\ state'[i] = state[i]
    <3>1. \A i \in Slot : i # c => state'[i] = state[i]
      BY <1>4, <1>5
    <3>2. CASE waiting_head[s] = NULL
      <4>1. next' = [next EXCEPT ![c] = NULL]
        BY <3>2 DEF WaitJoins, LinksOfWaiter
      <4> QED BY <1>4, <3>1, <4>1
    <3>3. CASE waiting_head[s] # NULL
      <4>1. next' = [[next EXCEPT ![c] = NULL] EXCEPT ![t] = c]
        BY <3>3 DEF WaitJoins, LinksOfWaiter
      <4> QED BY <1>4, <2>5, <3>1, <3>3, <4>1
    <3> QED BY <3>2, <3>3
  <2>12. PICK u : u[s] = Append(w[s], c) /\ \A x \in Sem : x # s => u[x] = w[x]
    <3> DEFINE f == [x \in Sem |-> IF x = s THEN Append(w[s], c) ELSE w[x]]
    <3>1. f[s] = Append(w[s], c) /\ \A x \in Sem : x # s => f[x] = w[x]
      OBVIOUS
    <3> HIDE DEF f
    <3> QED BY <3>1
  <2>13. state'[c] = "BLOCKED" /\ \A i \in Members(w[s]) : state'[i] = state[i]
    BY <1>2, <1>4, <1>5, <2>1, <2>4
  <2>14. waiting_head'[s] = (IF waiting_head[s] = NULL THEN c ELSE waiting_head[s]) /\ waiting_tail'[s] = c
         /\ permits'[s] = permits[s] - 1
    BY <1>4, <1>7, <2>2
  <2>15. \A x \in Sem : x # s => /\ waiting_head'[x] = waiting_head[x] /\ waiting_tail'[x] = waiting_tail[x]
                                 /\ permits'[x] = permits[x]
    BY <1>4, <1>7, <2>2
  <2>16. permits'[s] = value'[s] - Len(u[s])
    BY <1>1, <1>3, <2>7, <2>8, <2>9, <2>12, <2>14
  <2>17. OneQueueChanges(s, w, u)
    <3>1. Linked(next', waiting_head'[s], waiting_tail'[s], u[s])
      BY <2>7, <2>12, <2>14
    <3>2. Members(u[s]) = Members(w[s]) \cup {c}
      BY <2>7, <2>12
    <3> HIDE DEF c, t
    <3>3. \A i \in Members(u[s]) : i \notin Members(w[s]) =>
            state'[i] = "BLOCKED" /\ InUse(i) /\ i \notin Waiting \cup Queued
      BY <1>2, <2>1, <2>13, <3>2
    <3>4. /\ \A i \in Slot : i \notin Members(u[s]) /\ i \notin Members(w[s]) =>
               next'[i] = next[i] /\ state'[i] = state[i]
          /\ \A i \in Members(w[s]) : i \in Members(u[s]) /\ state'[i] = state[i]
      BY <2>11, <2>13, <3>2
    <3> QED BY <1>1, <2>12, <2>15, <2>16, <3>1, <3>3, <3>4 DEF OneQueueChanges
  <2>18. waiting_tail'[s] = current_process
    BY <2>14 DEF c
  <2> HIDE DEF c, t
  <2>19. WaitQueues(u)' /\ QueueOf(q)' /\ WaitersApart(u, q)'
    BY <1>1, <1>4, <2>3, <2>17, <2>18, OneQueueStep
  <2> QED BY <2>2, <2>10, <2>19
<1>9. SemTypeOK'
  <2>1. permits' \in [Sem -> (-MaxProcesses) .. ValueBound]
    <3>1. CASE disturbed' \/ dangling'
      <4>1. 0 \in (-MaxProcesses) .. ValueBound
        BY ProcessAssumption, SemaphoreAssumption
      <4> QED BY <1>7, <3>1, <4>1 DEF Recorded
    <3>2. CASE ~(disturbed' \/ dangling')
      <4>1. permits[s] - 1 \in (-MaxProcesses) .. ValueBound
        BY <1>8, <3>2, ProcessAssumption, SemaphoreAssumption
      <4> QED BY <1>4, <1>8, <3>2, <4>1
    <3> QED BY <3>1, <3>2
  <2>2. waiting_head' \in [Sem -> SlotOrNull] /\ waiting_tail' \in [Sem -> SlotOrNull]
    BY <1>2, <1>4, <1>7 DEF SlotOrNull
  <2>3. disturbed' \in BOOLEAN
    BY DEF WaitJoins
  <2> QED BY <1>1, <1>6, <2>1, <2>2, <2>3 DEF SemIInv, SemTypeOK, IInv
<1>10. Pool'
  BY <1>1, <1>2, <1>3, <1>4, <1>7 DEF SemIInv, Pool, Used, untouched
<1>11. Waits'
  BY <1>8 DEF Waits
<1> QED BY <1>6, <1>9, <1>10, <1>11 DEF SemIInv

(* A signal that wakes nobody.                                             *)
LEMMA SignalCountsWaits ==
  ASSUME SemIInv, NEW s \in Sem, Signal(s), waiting_head[s] = NULL, ~disturbed', ~dangling'
  PROVE  /\ permits[s] = value[s]
         /\ \E v, q : WaitQueues(v)' /\ QueueOf(q)' /\ WaitersApart(v, q)'
<1>1. mode # "lost" /\ Used(s) /\ UNCHANGED vars /\ UNCHANGED <<id, waiting_head, waiting_tail>>
      /\ value' = [value EXCEPT ![s] = value[s] + 1]
  BY DEF Signal, Calling, CountsSignal, untouched, vars, table, queue, control
<1>2. ~disturbed /\ ~dangling /\ permits' = [permits EXCEPT ![s] = permits[s] + 1]
  BY <1>1, PermitsOf DEF Signal, NotDisturbed, vars
<1>3. PICK w, q : WaitQueues(w) /\ QueueOf(q) /\ WaitersApart(w, q)
  BY <1>1, <1>2, WaitsNow
<1>4. w[s] = <<>> /\ Len(w[s]) = 0
  <2>1. Linked(next, waiting_head[s], waiting_tail[s], w[s])
    BY <1>3 DEF WaitQueues
  <2> QED BY <2>1, ListEnds, EmptySeq
<1>5. value[s] \in Int /\ permits[s] = value[s]
  <2>1. value[s] \in Int
    BY SemaphoreAssumption DEF SemIInv, SemTypeOK
  <2>2. permits[s] = value[s] - Len(w[s])
    BY <1>1, <1>3 DEF WaitQueues
  <2> QED BY <1>4, <2>1, <2>2
<1>6. /\ permits'[s] = value[s] + 1 /\ value'[s] = value[s] + 1
      /\ \A t \in Sem : t # s => permits'[t] = permits[t] /\ value'[t] = value[t]
  BY <1>1, <1>2, <1>5 DEF SemIInv, SemTypeOK
<1>7. \A t \in Sem : id'[t] # INVALID_SEMAPHORE_ID => permits'[t] = value'[t] - Len(w[t])
  <2>1. permits'[s] = value'[s] - Len(w[s])
    BY <1>4, <1>5, <1>6
  <2> QED BY <1>1, <1>3, <1>6, <2>1 DEF WaitQueues, Used
<1>8. \E r : QueueOf(r) /\ WaitersApart(w, r)
  BY <1>3
<1>9. WaitQueues(w)' /\ (mode' # "lost" => \E r : QueueOf(r)' /\ WaitersApart(w, r)')
  BY <1>1, <1>3, <1>7, <1>8, SameWaiters
<1> QED BY <1>1, <1>5, <1>9 DEF vars, control

(* A signal that wakes the first of those that wait.                       *)
LEMMA SignalWakesWaits ==
  ASSUME SemIInv, NEW s \in Sem, Signal(s), waiting_head[s] # NULL, ~disturbed', ~dangling'
  PROVE  /\ permits[s] < value[s]
         /\ \E v, q : WaitQueues(v)' /\ QueueOf(q)' /\ WaitersApart(v, q)'
<1> DEFINE h == waiting_head[s]
           t == waiting_tail[s]
<1>1. /\ mode # "lost" /\ Used(s) /\ UNCHANGED untouched /\ UNCHANGED <<id, value>>
      /\ state' = [state EXCEPT ![h] = "READY"]
      /\ next' = [next EXCEPT ![h] = NULL]
      /\ waiting_head' = [waiting_head EXCEPT ![s] = next[h]]
      /\ waiting_tail' = [waiting_tail EXCEPT ![s] = TailAfterWake(s)]
  BY DEF Signal, Calling, CountsSignal
<1>2. /\ next \in [Slot -> SlotOrNull] /\ state \in [Slot -> State]
      /\ waiting_head \in [Sem -> SlotOrNull] /\ waiting_tail \in [Sem -> SlotOrNull]
      /\ value \in [Sem -> 0 .. ValueBound]
      /\ permits \in [Sem -> (-MaxProcesses) .. ValueBound] /\ SemTypeOK
  BY DEF SemIInv, SemTypeOK, TypeOK
<1>3. ~disturbed /\ ~dangling /\ permits' = [permits EXCEPT ![s] = permits[s] + 1]
  BY <1>1, PermitsOf DEF Signal, NotDisturbed, untouched
<1>4. PICK w, q : WaitQueues(w) /\ QueueOf(q) /\ WaitersApart(w, q)
  BY <1>1, <1>3, WaitsNow
<1>5. Linked(next, h, t, w[s])
  BY <1>4 DEF WaitQueues
<1>6. w[s] # <<>> /\ h \in Members(w[s]) /\ Members(w[s]) \subseteq Slot
  BY <1>5, ListEnds
<1>7. next[h] # NULL => TailAfterWake(s) = t
  BY DEF TailAfterWake
<1>8. /\ Linked(next, next[h], TailAfterWake(s), Tail(w[s]))
      /\ Members(Tail(w[s])) = Members(w[s]) \ {h}
      /\ Len(Tail(w[s])) = Len(w[s]) - 1
  <2> DEFINE x == w[s]
             u == TailAfterWake(s)
  <2>1. Linked(next, h, t, x) /\ x # <<>> /\ (next[h] # NULL => u = t)
    BY <1>5, <1>6, <1>7
  <2> HIDE DEF h, t, x, u
  <2>2. Linked(next, next[h], u, Tail(x)) /\ Members(Tail(x)) = Members(x) \ {h}
        /\ Len(Tail(x)) = Len(x) - 1
    BY <2>1, ListPop
  <2> QED BY <2>2 DEF x, u
<1>9. \A i \in Slot : i # h => next'[i] = next[i] /\ state'[i] = state[i]
  BY <1>1, <1>2
<1>10. Linked(next', next[h], TailAfterWake(s), Tail(w[s]))
  <2>1. \A i \in Members(Tail(w[s])) : next'[i] = next[i]
    BY <1>6, <1>8, <1>9
  <2> HIDE DEF h
  <2> QED BY <1>8, <2>1, ListFrame
<1>11. PICK v : v[s] = Tail(w[s]) /\ \A x \in Sem : x # s => v[x] = w[x]
  <2> DEFINE f == [x \in Sem |-> IF x = s THEN Tail(w[s]) ELSE w[x]]
  <2>1. f[s] = Tail(w[s]) /\ \A x \in Sem : x # s => f[x] = w[x]
    OBVIOUS
  <2> HIDE DEF f
  <2> QED BY <2>1
<1>12. /\ waiting_head'[s] = next[h] /\ waiting_tail'[s] = TailAfterWake(s)
       /\ permits'[s] = permits[s] + 1 /\ state'[h] = "READY"
  BY <1>1, <1>2, <1>3, <1>6
<1>13. \A x \in Sem : x # s => /\ waiting_head'[x] = waiting_head[x] /\ waiting_tail'[x] = waiting_tail[x]
                               /\ permits'[x] = permits[x]
  BY <1>1, <1>2, <1>3
<1>14. permits[s] = value[s] - Len(w[s]) /\ Len(w[s]) \in Nat \ {0} /\ value[s] \in Int
  <2>1. permits[s] = value[s] - Len(w[s])
    BY <1>1, <1>4 DEF WaitQueues
  <2>2. Len(w[s]) \in Nat \ {0}
    BY <1>5, <1>6, EmptySeq DEF Linked
  <2>3. value[s] \in Int
    BY <1>2, SemaphoreAssumption
  <2> QED BY <2>1, <2>2, <2>3
<1>15. permits'[s] = value'[s] - Len(v[s])
  BY <1>1, <1>8, <1>11, <1>12, <1>14
<1>16. OneQueueChanges(s, w, v)
  <2>1. Linked(next', waiting_head'[s], waiting_tail'[s], v[s])
    BY <1>10, <1>11, <1>12
  <2>2. Members(v[s]) = Members(w[s]) \ {h}
    BY <1>8, <1>11
  <2>3. \A i \in Members(w[s]) : i \notin Members(v[s]) => state'[i] # "BLOCKED"
    BY <1>12, <2>2
  <2>4. /\ \A i \in Slot : i \notin Members(v[s]) /\ i \notin Members(w[s]) =>
             next'[i] = next[i] /\ state'[i] = state[i]
        /\ \A i \in Members(w[s]) : i \in Members(v[s]) => state'[i] = state[i]
        /\ \A i \in Members(v[s]) : i \in Members(w[s])
    BY <1>6, <1>9, <2>2
  <2> QED BY <1>1, <1>11, <1>13, <1>15, <2>1, <2>3, <2>4 DEF OneQueueChanges
<1>17. ASSUME OwnProcess, current_process \in Members(v[s])
       PROVE  waiting_tail'[s] = current_process
  <2>1. current_process \in Members(w[s]) /\ Tail(w[s]) # <<>>
    <3>1. Members(<<>>) = {}
      BY EmptySeq DEF Members
    <3> QED BY <1>8, <1>11, <1>17, <3>1
  <2>2. t = current_process
    BY <1>4, <1>17, <2>1 DEF WaitersApart
  <2>3. next[h] # NULL
    BY <1>8, <2>1, ListEnds
  <2> QED BY <1>7, <1>12, <2>2, <2>3
<1>18. WaitQueues(v)' /\ QueueOf(q)' /\ WaitersApart(v, q)'
  BY <1>1, <1>2, <1>4, <1>16, <1>17, OneQueueStep
<1>19. permits[s] < value[s]
  BY <1>14
<1> QED BY <1>18, <1>19

LEMMA SignalInv ==
  ASSUME SemIInv, NEW s \in Sem, Signal(s)
  PROVE  SemIInv'
<1> DEFINE h == waiting_head[s]
<1>1. /\ value[s] \in 0 .. ValueBound - 1 /\ value[s] + 1 \in 0 .. ValueBound
      /\ SemTypeOK /\ TypeOK /\ UNCHANGED untouched /\ UNCHANGED <<id, next_semaphore_id>> /\ disturbed' = disturbed
      /\ Recorded([permits EXCEPT ![s] = permits[s] + 1]) /\ Used(s)
  BY SemaphoreAssumption DEF Signal, NotDisturbed, SemIInv, SemTypeOK
<1>2. ASSUME ~disturbed', ~dangling'
      PROVE  /\ permits' = [permits EXCEPT ![s] = permits[s] + 1]
             /\ permits[s] + 1 \in (-MaxProcesses) .. ValueBound
             /\ \E v, q : WaitQueues(v)' /\ QueueOf(q)' /\ WaitersApart(v, q)'
  <2>1. permits[s] <= value[s] /\ \E v, q : WaitQueues(v)' /\ QueueOf(q)' /\ WaitersApart(v, q)'
    <3>1. CASE h = NULL
      BY <1>1, <1>2, <3>1, SignalCountsWaits, SemaphoreAssumption
    <3>2. CASE h # NULL
      <4>1. permits[s] \in Int /\ value[s] \in Int
        BY <1>1, ProcessAssumption, SemaphoreAssumption DEF SemTypeOK
      <4> QED BY <1>2, <3>2, <4>1, SignalWakesWaits
    <3> QED BY <3>1, <3>2
  <2>2. permits[s] \in (-MaxProcesses) .. ValueBound
    BY <1>1 DEF SemTypeOK
  <2>3. permits[s] + 1 \in (-MaxProcesses) .. ValueBound
    BY <1>1, <2>1, <2>2, ProcessAssumption, SemaphoreAssumption
  <2> QED BY <1>1, <1>2, <2>1, <2>3, PermitsOf
<1>3. h # NULL => h \in Slot
  BY <1>1 DEF SemTypeOK, SlotOrNull
<1>4. /\ state' \in [Slot -> State] /\ next' \in [Slot -> SlotOrNull]
      /\ waiting_head' \in [Sem -> SlotOrNull] /\ waiting_tail' \in [Sem -> SlotOrNull]
      /\ \A i \in Slot : state'[i] = "RUNNING" => state[i] = "RUNNING"
  <2>1. CASE h = NULL
    BY <1>1, <2>1 DEF Signal, SemTypeOK, TypeOK
  <2>2. CASE h # NULL
    BY <1>1, <1>3, <2>2 DEF Signal, TailAfterWake, SemTypeOK, TypeOK, SlotOrNull, State
  <2> QED BY <2>1, <2>2
<1>5. IInv' /\ CurrentUsed'
  BY <1>1, <1>4, PoolStepKeepsProcesses DEF SemIInv
<1>6. value' = (IF h = NULL THEN [value EXCEPT ![s] = value[s] + 1] ELSE value)
  BY DEF Signal, CountsSignal
<1>7. SemTypeOK'
  <2>1. permits' \in [Sem -> (-MaxProcesses) .. ValueBound]
    <3>1. CASE disturbed' \/ dangling'
      <4>1. 0 \in (-MaxProcesses) .. ValueBound
        BY ProcessAssumption, SemaphoreAssumption
      <4> QED BY <1>1, <3>1, <4>1 DEF Recorded
    <3>2. CASE ~(disturbed' \/ dangling')
      BY <1>1, <1>2, <3>2 DEF SemTypeOK
    <3> QED BY <3>1, <3>2
  <2>2. value' \in [Sem -> 0 .. ValueBound]
    BY <1>1, <1>6 DEF SemTypeOK
  <2> QED BY <1>1, <1>4, <1>5, <2>1, <2>2 DEF SemTypeOK, IInv
<1>8. Pool'
  <2>1. CASE h = NULL
    BY <1>1, <1>6, <2>1 DEF Signal, SemIInv, SemTypeOK, Pool, Used, untouched
  <2>2. CASE h # NULL
    <3>1. /\ waiting_head' = [waiting_head EXCEPT ![s] = next[h]] /\ value' = value
      BY <2>2 DEF Signal, CountsSignal
    <3>2. ~(value[s] > 0) /\ initialized
      BY <2>2 DEF SemIInv, Pool
    <3> QED BY <1>1, <3>1, <3>2 DEF SemIInv, SemTypeOK, Pool, Used, untouched
  <2> QED BY <2>1, <2>2
<1>9. Waits'
  BY <1>2 DEF Waits
<1> QED BY <1>5, <1>7, <1>8, <1>9 DEF SemIInv

LEMMA DestroyInv ==
  ASSUME SemIInv, NEW s \in Sem, Destroy(s)
  PROVE  SemIInv'
<1>1. /\ mode # "lost" /\ UNCHANGED untouched /\ SemTypeOK /\ TypeOK /\ disturbed' = disturbed
      /\ state' = [i \in Slot |-> IF i \in Waiters(s) THEN "READY" ELSE state[i]]
      /\ next' = [i \in Slot |-> IF i \in Waiters(s) THEN NULL ELSE next[i]]
      /\ waiting_head' = [waiting_head EXCEPT ![s] = NULL]
      /\ waiting_tail' = [waiting_tail EXCEPT ![s] = IF waiting_head[s] = NULL THEN waiting_tail[s] ELSE NULL]
      /\ id' = [id EXCEPT ![s] = INVALID_SEMAPHORE_ID]
      /\ value' = [value EXCEPT ![s] = 0]
      /\ next_semaphore_id' = next_semaphore_id
      /\ Recorded([permits EXCEPT ![s] = 0])
  BY DEF Destroy, Woken, Calling, NotDisturbed, SemIInv, SemTypeOK
<1>2. 0 \in (-MaxProcesses) .. ValueBound /\ 0 \in 0 .. ValueBound
  BY ProcessAssumption, SemaphoreAssumption
<1>3. /\ state' \in [Slot -> State] /\ next' \in [Slot -> SlotOrNull]
      /\ \A i \in Slot : state'[i] = "RUNNING" => state[i] = "RUNNING"
  BY <1>1 DEF TypeOK, State, SlotOrNull
<1>4. IInv' /\ CurrentUsed'
  BY <1>1, <1>3, PoolStepKeepsProcesses DEF SemIInv
<1>5. SemTypeOK'
  <2>1. permits' \in [Sem -> (-MaxProcesses) .. ValueBound]
    BY <1>1, <1>2, RecordedType DEF SemTypeOK
  <2> QED BY <1>1, <1>2, <1>4, <2>1 DEF SemTypeOK, IInv, SlotOrNull
<1>6. Pool'
  BY <1>1 DEF SemIInv, SemTypeOK, Pool, Used, untouched
<1>7. ASSUME ~disturbed', ~dangling'
      PROVE  \E v, q : WaitQueues(v)' /\ QueueOf(q)' /\ WaitersApart(v, q)'
  <2>1. ~disturbed /\ ~dangling /\ permits' = [permits EXCEPT ![s] = 0]
    BY <1>1, <1>7, PermitsOf DEF untouched
  <2>2. PICK w, q : WaitQueues(w) /\ QueueOf(q) /\ WaitersApart(w, q)
    BY <1>1, <2>1, WaitsNow
  <2>3. Waiters(s) = Members(w[s])
    BY <1>1, <2>2, WaitersAreMembers
  <2>4. PICK v : v[s] = <<>> /\ \A x \in Sem : x # s => v[x] = w[x]
    <3> DEFINE f == [x \in Sem |-> IF x = s THEN <<>> ELSE w[x]]
    <3>1. f[s] = <<>> /\ \A x \in Sem : x # s => f[x] = w[x]
      OBVIOUS
    <3> HIDE DEF f
    <3> QED BY <3>1
  <2>5. Members(v[s]) = {} /\ \A t : Linked(next', NULL, t, v[s])
    BY <2>4, EmptySeq DEF Members, Linked
  <2>6. waiting_head'[s] = NULL /\ id'[s] = INVALID_SEMAPHORE_ID
        /\ \A x \in Sem : x # s => /\ waiting_head'[x] = waiting_head[x]
                                   /\ waiting_tail'[x] = waiting_tail[x]
                                   /\ id'[x] = id[x] /\ value'[x] = value[x] /\ permits'[x] = permits[x]
    BY <1>1, <2>1 DEF SemTypeOK
  <2>7. /\ \A i \in Slot : i \notin Members(w[s]) => next'[i] = next[i] /\ state'[i] = state[i]
        /\ \A i \in Members(w[s]) : state'[i] # "BLOCKED"
    <3>1. Members(w[s]) \subseteq Slot
      BY <2>2, ListEnds DEF WaitQueues
    <3> QED BY <1>1, <2>3, <3>1
  <2>8. OneQueueChanges(s, w, v)
    BY <2>4, <2>5, <2>6, <2>7 DEF OneQueueChanges
  <2>9. WaitQueues(v)' /\ QueueOf(q)' /\ WaitersApart(v, q)'
    BY <1>1, <2>2, <2>5, <2>8, OneQueueStep
  <2> QED BY <2>9
<1>8. Waits'
  BY <1>7 DEF Waits
<1> QED BY <1>4, <1>5, <1>6, <1>8 DEF SemIInv

LEMMA SemStepInv == SemIInv /\ [SemNext]_semVars => SemIInv'
<1> SUFFICES ASSUME SemIInv, [SemNext]_semVars PROVE SemIInv'
  OBVIOUS
<1>1. ASSUME NEW s \in Sem, NEW v \in 0 .. ValueBound, SemCreate(s, v) PROVE SemIInv'
  BY <1>1, SemCreateInv
<1>2. ASSUME NEW s \in Sem, WaitTakes(s) \/ WaitJoins(s) \/ Signal(s) \/ Destroy(s) PROVE SemIInv'
  BY <1>2, WaitTakesInv, WaitJoinsInv, SignalInv, DestroyInv
<1>3. CASE UNCHANGED semVars
  <2>1. /\ UNCHANGED vars /\ UNCHANGED pool /\ UNCHANGED <<permits, disturbed>>
        /\ UNCHANGED untouched /\ UNCHANGED <<next, state>>
    BY <1>3 DEF semVars, vars, untouched, table, queue, control
  <2>2. IInv' /\ CurrentUsed'
    BY <2>1, NothingStepKeepsProcesses DEF SemIInv
  <2>3. SemTypeOK' /\ Pool'
    BY <2>1, <2>2 DEF SemIInv, SemTypeOK, IInv, Pool, Used, pool, vars
  <2>4. Waits'
    <3> SUFFICES ASSUME ~disturbed, ~dangling
                 PROVE  \E w : /\ WaitQueues(w)'
                               /\ mode' # "lost" => \E q : QueueOf(q)' /\ WaitersApart(w, q)'
      BY <2>1 DEF Waits, vars
    <3>1. PICK w : /\ WaitQueues(w)
                   /\ mode # "lost" => \E q : QueueOf(q) /\ WaitersApart(w, q)
      BY DEF SemIInv, Waits
    <3>2. \A s \in Sem : /\ waiting_head'[s] = waiting_head[s] /\ waiting_tail'[s] = waiting_tail[s]
                         /\ id'[s] # INVALID_SEMAPHORE_ID => permits'[s] = value'[s] - Len(w[s])
      BY <2>1, <3>1 DEF WaitQueues, Used, pool
    <3> QED BY <2>1, <3>1, <3>2, SameWaiters
  <2> QED BY <2>2, <2>3, <2>4 DEF SemIInv
<1> QED BY <1>1, <1>2, <1>3, ProcessStepInv, IpcInitInv DEF SemNext

-----------------------------------------------------------------------------
(* The invariant of the processes and the semaphores together holds in     *)
(* every reachable state.                                                  *)
THEOREM SemInvariantsHold == SemSpec => []SemIInv
BY SemInitInv, SemStepInv, PTL DEF SemSpec

(* The waiting queues and the ready queue share the links of the processes *)
(* and never get into each other, as long as no process is linked twice.   *)
THEOREM QueuesStayApart == SemSpec => []QueuesApart
<1>1. SemIInv => QueuesApart
  <2> SUFFICES ASSUME SemIInv, mode # "lost", ~disturbed, ~dangling
               PROVE  /\ ReadyQueueIsList
                      /\ \A s \in Sem :
                           /\ EndsFrom(waiting_head[s])
                           /\ Waiters(s) # {} => waiting_tail[s] \in Waiters(s) /\ next[waiting_tail[s]] = NULL
                           /\ Waiters(s) \cap Queued = {}
                           /\ \A t \in Sem \ {s} : Waiters(s) \cap Waiters(t) = {}
    BY DEF QueuesApart
  <2>1. PICK w, q : WaitQueues(w) /\ QueueOf(q) /\ WaitersApart(w, q)
    BY WaitsNow
  <2>2. SemTypeOK /\ TypeOK
    BY DEF SemIInv, SemTypeOK
  <2>3. /\ Queued = Members(q) /\ EndsFrom(ready_queue_head)
        /\ Members(q) # {} => ready_queue_tail \in Members(q) /\ next[ready_queue_tail] = NULL
    BY <2>1, <2>2, TableShowsList DEF TypeOK, QueueOf, Queued
  <2>4. ReadyQueueIsList
    BY <2>1, <2>3 DEF ReadyQueueIsList, QueueOf
  <2>5. \A s \in Sem : /\ Waiters(s) = Members(w[s]) /\ EndsFrom(waiting_head[s])
                       /\ Members(w[s]) # {} => waiting_tail[s] \in Members(w[s]) /\ next[waiting_tail[s]] = NULL
    BY <2>1, <2>2, WaitersAreMembers
  <2> QED BY SMTT(30), <2>1, <2>3, <2>4, <2>5 DEF WaitQueues, WaitersApart
<1> QED BY <1>1, SemInvariantsHold, PTL

(* No wait and no signal is lost: a semaphore has as many permits as were  *)
(* given to it and not taken, or as many processes waiting as are missing. *)
THEOREM NoPermitLost == SemSpec => []PermitsConserved
<1>1. SemIInv => PermitsConserved
  <2> SUFFICES ASSUME SemIInv, mode # "lost", ~disturbed, ~dangling, NEW s \in Sem, Used(s)
               PROVE  permits[s] = value[s] - Len(ListFrom(waiting_head[s]))
    BY DEF PermitsConserved, SemIInv, Pool
  <2>1. PICK w, q : WaitQueues(w) /\ QueueOf(q) /\ WaitersApart(w, q)
    BY WaitsNow
  <2>2. ListFrom(waiting_head[s]) = w[s]
    BY <2>1, WaitersAreMembers DEF SemIInv
  <2> QED BY <2>1, <2>2 DEF WaitQueues
<1> QED BY <1>1, SemInvariantsHold, PTL

(* Nobody stays BLOCKED out of reach of the signals.                       *)
THEOREM BlockedCanBeWoken == SemSpec => []BlockedAreWaiting
<1>1. SemIInv => BlockedAreWaiting
  <2> SUFFICES ASSUME SemIInv, ~disturbed, ~dangling, NEW i \in Slot, InUse(i), state[i] = "BLOCKED"
               PROVE  i \in Waiting
    BY DEF BlockedAreWaiting
  <2>1. PICK w : WaitQueues(w)
    BY DEF SemIInv, Waits
  <2>2. PICK s \in Sem : i \in Members(w[s])
    BY <2>1 DEF WaitQueues
  <2>3. Waiters(s) = Members(w[s])
    BY <2>1, WaitersAreMembers DEF SemIInv
  <2> QED BY <2>2, <2>3 DEF Waiting
<1> QED BY <1>1, SemInvariantsHold, PTL

-----------------------------------------------------------------------------
(***************************************************************************)
(* Messages.                                                               *)
(***************************************************************************)
\* No two slots hold the same message, and every message was sent.
Apart ==
  /\ \A m \in MsgSlot : UsedMsg(m) => message_pool[m].content <= sent
  /\ \A m, k \in MsgSlot : UsedMsg(m) /\ UsedMsg(k) /\ message_pool[m] = message_pool[k] => m = k

\* A message that was sent since a slot was freed found every slot before its
\* own in use, with an older message.
Ordered ==
  \A m, k \in MsgSlot : k < m /\ UsedMsg(m) /\ message_pool[m].content > freed =>
    UsedMsg(k) /\ message_pool[k].content < message_pool[m].content

MsgIInv == IInv /\ CurrentUsed /\ MsgTypeOK /\ Apart /\ Ordered

-----------------------------------------------------------------------------
(* The calling process has a pid, or is the kernel.                        *)
LEMMA SelfIsPid ==
  ASSUME IInv, CurrentUsed, mode \in {"shell", "entry"}
  PROVE  Self \in Pid
<1>1. 0 \in Pid
  BY ProcessAssumption DEF Pid
<1>2. CASE current_process = NULL
  BY <1>1, <1>2 DEF Self
<1>3. CASE current_process # NULL
  <2>1. current_process \in Slot
    BY <1>3 DEF IInv, TypeOK, SlotOrNull
  <2>2. initialized
    BY <1>3 DEF IInv, Boot
  <2>3. InUse(current_process)
    <3>1. CASE OwnProcess
      BY <3>1 DEF CurrentUsed
    <3>2. CASE ~OwnProcess
      BY <2>2, <3>2 DEF IInv, Control, UniquePids, InUse, KERNEL_PID, INVALID_PID
    <3> QED BY <3>1, <3>2
  <2> QED BY <1>3, <2>1, <2>3 DEF IInv, TypeOK, InUse, Self
<1> QED BY <1>2, <1>3

LEMMA MsgInitInv == MsgInit => MsgIInv
<1> SUFFICES ASSUME MsgInit PROVE MsgIInv
  OBVIOUS
<1>1. IInv
  BY InitIInv DEF MsgInit
<1>2. CurrentUsed
  BY DEF MsgInit, Init, CurrentUsed, OwnProcess
<1>3. MsgTypeOK
  <2>1. message_pool \in [MsgSlot -> Message \cup {NoMessage}]
    BY DEF MsgInit, ClearedPool
  <2>2. {sent, freed} \subseteq 0 .. DataBound
    BY MessagesAssumption DEF MsgInit
  <2> QED BY <1>1, <2>1, <2>2 DEF MsgInit, MsgTypeOK, IInv
<1>4. Apart /\ Ordered
  BY DEF MsgInit, ClearedPool, Apart, Ordered, UsedMsg
<1> QED BY <1>1, <1>2, <1>3, <1>4 DEF MsgIInv

(* The steps of the process table and those of the pool are apart.         *)
LEMMA ProcessPart ==
  ASSUME MsgIInv, [MsgNext]_msgVars
  PROVE  IInv' /\ CurrentUsed'
<1>1. [Next]_vars
  BY DEF MsgNext, MsgIpcInit, Send, SendFails, Receive, msgVars
<1> QED BY <1>1, StepType, StepRest, CurrentStaysUsed DEF MsgIInv, IInv, Rest

LEMMA PoolPart ==
  ASSUME MsgIInv, [MsgNext]_msgVars
  PROVE  MsgTypeOK' /\ Apart' /\ Ordered'
<1>0. TypeOK'
  BY ProcessPart DEF IInv
<1>a. NoMessage \notin Message
  BY DEF NoMessage, Message, Pid, INVALID_PID
<1>1. CASE (Next \/ UNCHANGED vars) /\ UNCHANGED <<message_pool, ghosts>>
  BY <1>0, <1>1 DEF MsgIInv, MsgTypeOK, Apart, Ordered, UsedMsg, ghosts
<1>2. CASE MsgIpcInit
  BY <1>0, <1>2
     DEF MsgIpcInit, MsgIInv, MsgTypeOK, ClearedPool, Apart, Ordered, UsedMsg, ghosts
<1>3. ASSUME NEW p \in Pid, Send(p)
      PROVE  MsgTypeOK' /\ Apart' /\ Ordered'
  <2>1. PICK m \in MsgSlot :
          /\ FirstFreeMsg(m)
          /\ message_pool' = [message_pool EXCEPT ![m] = [from |-> Self, to |-> p, content |-> sent + 1]]
    BY <1>3 DEF Send
  <2> DEFINE new == [from |-> Self, to |-> p, content |-> sent + 1]
  <2>2. Self \in Pid
    BY <1>3, SelfIsPid DEF Send, Calling, MsgIInv
  <2>3. new \in Message /\ sent' \in 0 .. DataBound /\ sent' = sent + 1
    BY <1>3, <2>2, MessagesAssumption DEF Send, MsgIInv, MsgTypeOK, Message
  <2>4. MsgTypeOK'
    BY <1>0, <1>3, <2>1, <2>3 DEF Send, MsgIInv, MsgTypeOK
  <2>5. ASSUME NEW k \in MsgSlot, UsedMsg(k)
        PROVE  message_pool[k].content \in Nat /\ message_pool[k].content <= sent
    BY <2>5 DEF MsgIInv, MsgTypeOK, Message, Apart, UsedMsg
  <2>6. \A k \in MsgSlot : message_pool'[k] = IF k = m THEN new ELSE message_pool[k]
    BY <2>1 DEF MsgIInv, MsgTypeOK
  <2>7. sent \in Nat
    BY DEF MsgIInv, MsgTypeOK
  <2>8. Apart'
    <3>1. \A k \in MsgSlot : message_pool'[k] # NoMessage => message_pool'[k].content <= sent'
      BY <2>3, <2>5, <2>6, <2>7 DEF UsedMsg
    <3>2. ASSUME NEW k \in MsgSlot, NEW l \in MsgSlot, message_pool'[k] # NoMessage,
                 message_pool'[k] = message_pool'[l]
          PROVE  k = l
      <4>1. ASSUME NEW j \in MsgSlot, UsedMsg(j) PROVE message_pool[j] # new
        BY <2>5, <2>7, <4>1
      <4>2. new # NoMessage
        BY <1>a, <2>3
      <4> QED BY <2>6, <3>2, <4>1, <4>2 DEF MsgIInv, Apart, UsedMsg
    <3> QED BY <3>1, <3>2 DEF Apart, UsedMsg
  <2>9. Ordered'
    <3> SUFFICES ASSUME NEW j \in MsgSlot, NEW k \in MsgSlot, k < j, message_pool'[j] # NoMessage,
                        message_pool'[j].content > freed
                 PROVE  message_pool'[k] # NoMessage /\ message_pool'[k].content < message_pool'[j].content
      BY <1>3 DEF Send, Ordered, UsedMsg
    <3>1. j \in Nat /\ k \in Nat /\ m \in Nat
      BY DEF MsgSlot
    <3>2. CASE j = m
      <4>1. k \in 0 .. m - 1
        BY <3>1, <3>2
      <4>2. UsedMsg(k) /\ k # m
        BY <2>1, <4>1 DEF FirstFreeMsg
      <4> QED BY <2>3, <2>5, <2>6, <2>7, <3>2, <4>2 DEF UsedMsg
    <3>3. CASE j # m
      <4>1. UsedMsg(j) /\ UsedMsg(k) /\ message_pool[k].content < message_pool[j].content
        BY <2>6, <3>3 DEF MsgIInv, Ordered, UsedMsg
      <4>2. k # m
        BY <2>1, <4>1 DEF FirstFreeMsg
      <4> QED BY <2>6, <3>3, <4>1, <4>2 DEF UsedMsg
    <3> QED BY <3>2, <3>3
  <2> QED BY <2>4, <2>8, <2>9
<1>4. ASSUME NEW p \in Pid, SendFails(p)
      PROVE  MsgTypeOK' /\ Apart' /\ Ordered'
  BY <1>0, <1>4 DEF SendFails, MsgIInv, MsgTypeOK, Apart, Ordered, UsedMsg
<1>5. ASSUME NEW p \in Pid \cup {AnySender}, Receive(p)
      PROVE  MsgTypeOK' /\ Apart' /\ Ordered'
  <2>1. PICK m \in MsgSlot :
          /\ ForMe(m, p)
          /\ received' = message_pool[m]
          /\ message_pool' = [message_pool EXCEPT ![m] = NoMessage]
    BY <1>5 DEF Receive
  <2>2. Self \in Pid
    BY <1>5, SelfIsPid DEF Receive, Calling, MsgIInv
  <2>3. MsgTypeOK'
    BY <1>0, <1>5, <2>1, <2>2 DEF Receive, MsgIInv, MsgTypeOK
  <2>4. \A k \in MsgSlot : message_pool'[k] = IF k = m THEN NoMessage ELSE message_pool[k]
    BY <2>1 DEF MsgIInv, MsgTypeOK
  <2>5. Apart'
    BY <1>5, <2>4 DEF Receive, MsgIInv, Apart, UsedMsg
  <2>6. Ordered'
    <3>1. ASSUME NEW k \in MsgSlot, UsedMsg(k)
          PROVE  message_pool[k].content \in Nat /\ message_pool[k].content <= sent
      BY <3>1 DEF MsgIInv, MsgTypeOK, Message, Apart, UsedMsg
    <3>2. freed' = sent /\ sent \in Nat
      BY <1>5 DEF Receive, MsgIInv, MsgTypeOK
    <3> QED BY <2>4, <3>1, <3>2 DEF Ordered, UsedMsg
  <2> QED BY <2>3, <2>5, <2>6
<1> QED BY <1>1, <1>2, <1>3, <1>4, <1>5 DEF MsgNext, msgVars

-----------------------------------------------------------------------------
(* The pool holds undelivered messages only, each with a content of its    *)
(* own, under every order of ipc_send_message and ipc_receive_message.     *)
THEOREM MessageInvariantsHold == MsgSpec => []MsgIInv
<1>1. MsgIInv /\ [MsgNext]_msgVars => MsgIInv'
  BY ProcessPart, PoolPart DEF MsgIInv
<1> QED BY <1>1, MsgInitInv, PTL DEF MsgSpec

(* A receive that passes over an older message of the same sender does so  *)
(* only when a slot was freed since that one was sent: the slots are       *)
(* scanned from the lowest, and taken from the lowest.                     *)
THEOREM InOrderUntilFreed == MsgSpec => ReceivedInOrder
<1> DEFINE InOrder ==
      received' # received =>
        \A m \in MsgSlot : UsedMsg(m) /\ Overtakes(received', message_pool[m]) =>
          message_pool[m].content <= freed
<1>1. MsgIInv /\ [MsgNext]_msgVars => InOrder
  <2> SUFFICES ASSUME MsgIInv, [MsgNext]_msgVars, received' # received,
                      NEW old \in MsgSlot, UsedMsg(old), Overtakes(received', message_pool[old])
               PROVE  message_pool[old].content <= freed
    OBVIOUS
  <2>1. PICK p \in Pid \cup {AnySender} : Receive(p)
    BY DEF MsgNext, msgVars, ghosts, MsgIpcInit, Send, SendFails
  <2>2. PICK m \in MsgSlot :
          ForMe(m, p) /\ (\A k \in 0 .. m - 1 : ~ForMe(k, p)) /\ received' = message_pool[m]
    BY <2>1 DEF Receive
  <2>3. ForMe(old, p)
    BY <2>2 DEF ForMe, Overtakes
  <2>4. UsedMsg(m)
    BY <2>2 DEF ForMe
  <2>5. /\ message_pool[m].content \in Nat /\ message_pool[old].content \in Nat /\ freed \in Nat
        /\ message_pool[old].content < message_pool[m].content
    BY <2>2, <2>4 DEF Overtakes, MsgIInv, MsgTypeOK, Message, UsedMsg
  <2>6. m < old
    <3>1. old \notin 0 .. m - 1
      BY <2>2, <2>3
    <3> QED BY <2>5, <3>1 DEF MsgSlot
  <2> QED BY <2>5, <2>6 DEF MsgIInv, Ordered
<1> QED BY <1>1, MessageInvariantsHold, PTL DEF MsgSpec, ReceivedInOrder

-----------------------------------------------------------------------------
(* How many messages wait: as many as there are used slots.                *)
Pending == { message_pool[m] : m \in { k \in MsgSlot : UsedMsg(k) } }

LEMMA SameCardinality == \A S : Mailbox!Cardinality(S) = Cardinality(S)
BY DEF Mailbox!Cardinality, Cardinality

LEMMA FewerThanSlots ==
  ASSUME MsgIInv, NEW m \in MsgSlot, ~UsedMsg(m)
  PROVE  Cardinality(Pending) < MaxMessages
<1> DEFINE used == { k \in MsgSlot : UsedMsg(k) }
           f == [k \in used |-> message_pool[k]]
<1>1. IsFiniteSet(MsgSlot) /\ Cardinality(MsgSlot) = MaxMessages
  BY MessagesAssumption, FS_Interval DEF MsgSlot
<1>2. IsFiniteSet(MsgSlot \ {m}) /\ Cardinality(MsgSlot \ {m}) = MaxMessages - 1
  BY <1>1, FS_RemoveElement
<1>3. IsFiniteSet(used) /\ Cardinality(used) <= MaxMessages - 1
  <2>1. used \in SUBSET (MsgSlot \ {m})
    OBVIOUS
  <2> QED BY <1>2, <2>1, FS_Subset
<1>4. f \in Surjection(used, Pending)
  BY DEF Surjection, Pending
<1>5. IsFiniteSet(Pending) /\ Cardinality(Pending) <= Cardinality(used)
  BY <1>3, <1>4, FS_Surjection
<1>6. Cardinality(Pending) \in Nat /\ Cardinality(used) \in Nat
  BY <1>3, <1>5, FS_CardinalityType
<1> HIDE DEF used
<1> QED BY <1>3, <1>5, <1>6, MessagesAssumption

LEMMA AsManyAsSlots ==
  ASSUME MsgIInv, \A m \in MsgSlot : UsedMsg(m)
  PROVE  Cardinality(Pending) = MaxMessages
<1> DEFINE f == [k \in MsgSlot |-> message_pool[k]]
<1>1. IsFiniteSet(MsgSlot) /\ Cardinality(MsgSlot) = MaxMessages
  BY MessagesAssumption, FS_Interval DEF MsgSlot
<1>2. Pending = { message_pool[k] : k \in MsgSlot }
  BY DEF Pending
<1>3. f \in Surjection(MsgSlot, Pending)
  BY <1>2 DEF Surjection
<1>4. f \in Injection(MsgSlot, Pending)
  BY <1>2 DEF Injection, IsInjective, MsgIInv, Apart
<1> QED BY <1>1, <1>3, <1>4, FS_Surjection

LEMMA SendIsAccept ==
  ASSUME MsgIInv, NEW p \in Pid, Send(p)
  PROVE  Mailbox!Next
<1>1. PICK m \in MsgSlot :
        /\ FirstFreeMsg(m)
        /\ message_pool' = [message_pool EXCEPT ![m] = [from |-> Self, to |-> p, content |-> sent + 1]]
  BY DEF Send
<1> DEFINE new == [from |-> Self, to |-> p, content |-> sent + 1]
<1>2. new \in Message
  <2>1. Self \in Pid
    BY SelfIsPid DEF Send, Calling, MsgIInv
  <2> QED BY <2>1, MessagesAssumption DEF Send, MsgIInv, MsgTypeOK, Message
<1>3. new \in Mailbox!Message
  BY <1>2 DEF Message, Mailbox!Message
<1>4. new # NoMessage
  BY <1>2 DEF NoMessage, Message, Pid, INVALID_PID
<1>5. \A k \in MsgSlot : message_pool'[k] = IF k = m THEN new ELSE message_pool[k]
  BY <1>1 DEF MsgIInv, MsgTypeOK
<1>6. ~UsedMsg(m)
  BY <1>1 DEF FirstFreeMsg
<1>7. Pending' = Pending \cup {new}
  BY <1>4, <1>5, <1>6 DEF Pending, UsedMsg
<1>8. new \notin Pending
  <2> SUFFICES ASSUME NEW k \in MsgSlot, UsedMsg(k), message_pool[k] = new PROVE FALSE
    BY DEF Pending
  <2>1. new.content <= sent
    BY DEF MsgIInv, Apart
  <2> QED BY <2>1 DEF MsgIInv, MsgTypeOK
<1>9. Cardinality(Pending) < MaxMessages
  BY <1>6, FewerThanSlots
<1>10. Mailbox!Cardinality(Pending) < MaxMessages
  BY <1>9, SameCardinality
<1>11. refused' = FALSE /\ received' = received
  BY DEF Send
<1> HIDE DEF new
<1> QED BY <1>3, <1>7, <1>8, <1>10, <1>11 DEF Mailbox!Accept, Mailbox!Next, Pending

LEMMA ReceiveIsTake ==
  ASSUME MsgIInv, NEW p \in Pid \cup {AnySender}, Receive(p)
  PROVE  Mailbox!Next
<1>1. PICK m \in MsgSlot :
        /\ ForMe(m, p)
        /\ received' = message_pool[m]
        /\ message_pool' = [message_pool EXCEPT ![m] = NoMessage]
  BY DEF Receive
<1>2. UsedMsg(m)
  BY <1>1 DEF ForMe
<1>3. message_pool[m] \in Mailbox!Message
  BY <1>2 DEF MsgIInv, MsgTypeOK, UsedMsg, Message, Mailbox!Message
<1>4. \A k \in MsgSlot : message_pool'[k] = IF k = m THEN NoMessage ELSE message_pool[k]
  BY <1>1 DEF MsgIInv, MsgTypeOK
<1>5. Pending' = Pending \ {message_pool[m]}
  <2>1. ASSUME NEW k \in MsgSlot, k # m, UsedMsg(k) PROVE message_pool[k] # message_pool[m]
    BY <1>2, <2>1 DEF MsgIInv, Apart
  <2> QED BY <1>4, <2>1 DEF Pending, UsedMsg
<1>6. message_pool[m] \in Pending
  BY <1>2 DEF Pending
<1>7. refused' = refused
  BY DEF Receive
<1> QED BY <1>1, <1>3, <1>5, <1>6, <1>7 DEF Mailbox!Take, Mailbox!Next, Pending

(* Accepted messages stay in the pool until they are received once or the  *)
(* pool is cleared, and a message is refused only when the pool is full.   *)
THEOREM PoolImplementsMailboxes == MsgSpec => ImplementsMailboxes
<1>1. MsgInit => Mailbox!Init
  BY DEF MsgInit, ClearedPool, UsedMsg, Mailbox!Init
<1>2. MsgIInv /\ [MsgNext]_msgVars => [Mailbox!Next]_<<Pending, received, refused>>
  <2> SUFFICES ASSUME MsgIInv, [MsgNext]_msgVars
               PROVE  Mailbox!Next \/ UNCHANGED <<Pending, received, refused>>
    OBVIOUS
  <2>1. CASE UNCHANGED <<message_pool, ghosts>>
    BY <2>1 DEF Pending, UsedMsg, ghosts
  <2>2. CASE MsgIpcInit
    BY <2>2 DEF MsgIpcInit, ClearedPool, UsedMsg, ghosts, Mailbox!Next, Mailbox!Reset
  <2>3. ASSUME NEW p \in Pid, Send(p)
        PROVE  Mailbox!Next
    BY <2>3, SendIsAccept
  <2>4. ASSUME NEW p \in Pid, SendFails(p)
        PROVE  Mailbox!Next
    <3>1. Mailbox!Cardinality(Pending) = MaxMessages
      BY <2>4, AsManyAsSlots, SameCardinality DEF SendFails
    <3> QED BY <2>4, <3>1 DEF SendFails, Pending, UsedMsg, Mailbox!Next, Mailbox!Refuse
  <2>5. ASSUME NEW p \in Pid \cup {AnySender}, Receive(p)
        PROVE  Mailbox!Next
    BY <2>5, ReceiveIsTake
  <2> QED BY <2>1, <2>2, <2>3, <2>4, <2>5 DEF MsgNext, msgVars
<1> QED BY <1>1, <1>2, MessageInvariantsHold, PTL DEF MsgSpec, ImplementsMailboxes, Mailbox!Spec, Pending
=============================================================================
