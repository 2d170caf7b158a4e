\* Two semaphores, two process slots beside the kernel's.
\* The machine may stop: nothing happens any more once the processor is lost.
SPECIFICATION SemSpec
CONSTANTS
  MaxProcesses = 3
  PidBound = 3
  EntryCalls = {"wait", "signal"}
  NULL = NULL
  MaxSemaphores = 2
  SemIdBound = 3
  ValueBound = 1
CHECK_DEADLOCK FALSE
INVARIANTS
  QueuesApart
  PermitsConserved
  BlockedAreWaiting
