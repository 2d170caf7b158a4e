----------------------------- MODULE Semaphore -----------------------------
(***************************************************************************)
(* The semaphores of kernel/ipc.c on top of the process table.  A waiting  *)
(* queue links processes through the field next, the one the ready queue   *)
(* uses; a process that waits is marked BLOCKED and goes on running.       *)
(*                                                                         *)
(* The operations are called by the "ipc" commands of the shell and by     *)
(* entry points; the process that waits is whoever current_process is.     *)
(***************************************************************************)
EXTENDS Process

CONSTANTS MaxSemaphores,  (* MAX_SEMAPHORES: 8 in the kernel               *)
          SemIdBound,     (* bound of the model: no semaphore gets this id *)
          ValueBound      (* bound of the model: the largest value         *)

ASSUME SemaphoreAssumption == /\ MaxSemaphores \in Nat \ {0}
                              /\ SemIdBound \in Nat \ {0}
                              /\ ValueBound \in Nat

VARIABLES id, value, waiting_head, waiting_tail,  (* semaphore_pool        *)
          next_semaphore_id,
          permits,    (* value at creation, plus signals, minus waits, as  *)
                      (* long as nothing is disturbed or dangling          *)
          disturbed   (* whether a process was linked while it was linked, *)
                      (* or was cleaned up, or its queue reset, meanwhile  *)

pool == <<id, value, waiting_head, waiting_tail, next_semaphore_id>>
untouched == <<pid, exit_code, current_process, queue, next_pid, initialized, control, dangling>>
semVars == <<vars, pool, permits, disturbed>>

\* The id of an unused slot of the pool.
INVALID_SEMAPHORE_ID == -1

Sem == 0 .. MaxSemaphores - 1
Used(s) == id[s] # INVALID_SEMAPHORE_ID

Waiters(s) == LinkedFrom(waiting_head[s])
Waiting == UNION { Waiters(s) : s \in Sem }

\* The new permits of a step that also determines disturbed' and dangling'.
Recorded(p) == permits' = IF disturbed' \/ dangling' THEN [s \in Sem |-> 0] ELSE p
NotDisturbed == UNCHANGED disturbed

-----------------------------------------------------------------------------
EmptyPool ==
  /\ id = [s \in Sem |-> INVALID_SEMAPHORE_ID]
  /\ value = [s \in Sem |-> 0]
  /\ waiting_head = [s \in Sem |-> NULL]
  /\ waiting_tail = [s \in Sem |-> NULL]
  /\ next_semaphore_id = 1
  /\ permits = [s \in Sem |-> 0]

SemInit == Init /\ EmptyPool /\ disturbed = FALSE

\* ipc_init, at any time: whoever waits is forgotten, and stays BLOCKED.
IpcInit ==
  /\ mode = "shell"
  /\ id' = [s \in Sem |-> INVALID_SEMAPHORE_ID]
  /\ value' = [s \in Sem |-> 0]
  /\ waiting_head' = [s \in Sem |-> NULL]
  /\ waiting_tail' = [s \in Sem |-> NULL]
  /\ next_semaphore_id' = 1
  /\ disturbed' = (disturbed \/ Waiting # {})
  /\ UNCHANGED vars
  /\ Recorded([s \in Sem |-> 0])

SemCreate(s, v) ==
  /\ Calling("create")
  /\ next_semaphore_id < SemIdBound
  /\ ~Used(s) /\ \A t \in 0 .. s - 1 : Used(t)
  /\ id' = [id EXCEPT ![s] = next_semaphore_id]
  /\ next_semaphore_id' = next_semaphore_id + 1
  /\ value' = [value EXCEPT ![s] = v]
  /\ waiting_head' = [waiting_head EXCEPT ![s] = NULL]
  /\ waiting_tail' = [waiting_tail EXCEPT ![s] = NULL]
  /\ UNCHANGED vars
  /\ NotDisturbed /\ Recorded([permits EXCEPT ![s] = v])

\* ipc_semaphore_wait: take a permit if there is one ...
Available(s) == value[s] > 0

WaitTakes(s) ==
  /\ Calling("wait") /\ Used(s) /\ Available(s)
  /\ value' = [value EXCEPT ![s] = @ - 1]
  /\ UNCHANGED <<vars, id, waiting_head, waiting_tail, next_semaphore_id>>
  /\ NotDisturbed /\ Recorded([permits EXCEPT ![s] = @ - 1])

\* ... and otherwise join the waiting queue.  Before "proc init" there is no
\* current process, and the call changes nothing.
TailWithWaiter_OnlyFirst(s) == IF waiting_head[s] = NULL THEN current_process ELSE waiting_tail[s]
TailWithWaiter(s) == current_process
LinksOfWaiter(s) ==
  LET alone == [next EXCEPT ![current_process] = NULL]
  IN IF waiting_head[s] = NULL THEN alone
     ELSE [alone EXCEPT ![waiting_tail[s]] = current_process]

WaitJoins(s) ==
  /\ Calling("wait") /\ Used(s) /\ ~Available(s)
  /\ current_process # NULL
  /\ state' = [state EXCEPT ![current_process] = "BLOCKED"]
  /\ next' = LinksOfWaiter(s)
  /\ waiting_head' = [waiting_head EXCEPT ![s] = IF @ = NULL THEN current_process ELSE @]
  /\ waiting_tail' = [waiting_tail EXCEPT ![s] = TailWithWaiter(s)]
  /\ disturbed' = (disturbed \/ current_process \in Waiting \cup Queued)
  /\ UNCHANGED <<untouched, id, value, next_semaphore_id>>
  /\ Recorded([permits EXCEPT ![s] = @ - 1])

\* ipc_semaphore_signal: wake the first waiting process, or else count.
CountsSignal_Always(s) == TRUE
CountsSignal(s) == waiting_head[s] = NULL

TailAfterWake(s) == IF next[waiting_head[s]] = NULL THEN NULL ELSE waiting_tail[s]

Signal(s) ==
  LET woken == waiting_head[s]
  IN /\ Calling("signal") /\ Used(s)
     /\ value[s] < ValueBound
     /\ value' = IF CountsSignal(s) THEN [value EXCEPT ![s] = @ + 1] ELSE value
     /\ IF woken = NULL
        THEN UNCHANGED <<state, next, waiting_head, waiting_tail>>
        ELSE /\ state' = [state EXCEPT ![woken] = "READY"]
             /\ next' = [next EXCEPT ![woken] = NULL]
             /\ waiting_head' = [waiting_head EXCEPT ![s] = next[woken]]
             /\ waiting_tail' = [waiting_tail EXCEPT ![s] = TailAfterWake(s)]
     /\ UNCHANGED <<untouched, id, next_semaphore_id>>
     /\ NotDisturbed /\ Recorded([permits EXCEPT ![s] = @ + 1])

\* ipc_destroy_semaphore: the loop unlinks and readies all it can reach.
Woken_OnlyFirst(s) == {waiting_head[s]} \ {NULL}
Woken(s) == Waiters(s)

Destroy(s) ==
  /\ Calling("destroy") /\ Used(s)
  /\ state' = [i \in Slot |-> IF i \in Woken(s) THEN "READY" ELSE state[i]]
  /\ next' = [i \in Slot |-> IF i \in Woken(s) THEN NULL ELSE next[i]]
  /\ waiting_head' = [waiting_head EXCEPT ![s] = NULL]
  /\ waiting_tail' = [waiting_tail EXCEPT ![s] = IF waiting_head[s] = NULL THEN @ ELSE NULL]
  /\ id' = [id EXCEPT ![s] = INVALID_SEMAPHORE_ID]
  /\ value' = [value EXCEPT ![s] = 0]
  /\ UNCHANGED <<untouched, next_semaphore_id>>
  /\ NotDisturbed /\ Recorded([permits EXCEPT ![s] = 0])

\* A step of process.c; cleaning up a process that waits disturbs its queue.
ProcessStep ==
  /\ Next
  /\ disturbed' = (disturbed \/ \E i \in Waiting : InUse(i) /\ pid'[i] = INVALID_PID)
  /\ UNCHANGED pool
  /\ Recorded(permits)

SemNext ==
  \/ ProcessStep
  \/ IpcInit
  \/ \E s \in Sem :
       \/ \E v \in 0 .. ValueBound : SemCreate(s, v)
       \/ WaitTakes(s) \/ WaitJoins(s) \/ Signal(s) \/ Destroy(s)

SemSpec == SemInit /\ [][SemNext]_semVars

-----------------------------------------------------------------------------
SemTypeOK ==
  /\ TypeOK
  /\ id \in [Sem -> (1 .. SemIdBound - 1) \cup {INVALID_SEMAPHORE_ID}]
  /\ value \in [Sem -> 0 .. ValueBound]
  /\ waiting_head \in [Sem -> SlotOrNull]
  /\ waiting_tail \in [Sem -> SlotOrNull]
  /\ next_semaphore_id \in 1 .. SemIdBound
  /\ permits \in [Sem -> (-MaxProcesses) .. ValueBound]
  /\ disturbed \in BOOLEAN

(* As long as every process was linked and unlinked in turn, the waiting   *)
(* queues and the ready queue are lists without a common process, although *)
(* they share the field next.                                              *)
QueuesApart ==
  mode # "lost" /\ ~disturbed /\ ~dangling =>
    /\ ReadyQueueIsList
    /\ \A s \in Sem :
         /\ EndsFrom(waiting_head[s])
         /\ Waiters(s) # {} => waiting_tail[s] \in Waiters(s) /\ next[waiting_tail[s]] = NULL
         /\ Waiters(s) \cap Queued = {}
         /\ \A t \in Sem \ {s} : Waiters(s) \cap Waiters(t) = {}

(* No signal and no wait is lost: what is left of the permits is the value *)
(* if it is positive, and the number of waiting processes if it is not.    *)
(* And no permit ever lies unused while somebody waits for it, whatever    *)
(* became of the links between the waiting processes.                      *)
PermitsConserved ==
  /\ SemTypeOK
  /\ \A s \in Sem : value[s] > 0 => waiting_head[s] = NULL
  /\ mode # "lost" /\ ~disturbed /\ ~dangling =>
       \A s \in Sem : Used(s) => permits[s] = value[s] - Len(ListFrom(waiting_head[s]))

(* A process is BLOCKED only while it is in a waiting queue, so that a     *)
(* signal can reach it.  Not so once a queued process was cleaned up: the  *)
(* tail of the ready queue may then be a process that waits, and a new     *)
(* process linked behind it cuts off those that wait after it.             *)
BlockedAreWaiting ==
  ~disturbed /\ ~dangling => \A i \in Slot : InUse(i) /\ state[i] = "BLOCKED" => i \in Waiting

=============================================================================
