\* Three slots beside the kernel's, and two pids that process_find refuses.
\* The machine may stop: nothing happens any more once the processor is lost.
SPECIFICATION Spec
CONSTANTS
  MaxProcesses = 4
  PidBound = 6
  EntryCalls = {"yield", "exit"}
  NULL = NULL
CHECK_DEADLOCK FALSE
INVARIANTS
  UniquePids
  KernelAtPrompt
  QueueEndsAgree
  QueueIntactUnlessDangling
PROPERTIES
  ReadyQueueIsFifo
