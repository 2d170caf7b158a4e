\* A pool of two messages, two process slots, three pids and three messages.
\* The machine may stop: nothing happens any more once the processor is lost.
SPECIFICATION MsgSpec
CONSTANTS
  MaxProcesses = 3
  PidBound = 4
  EntryCalls = {"send", "receive"}
  NULL = NULL
  MaxMessages = 2
  DataBound = 3
CHECK_DEADLOCK FALSE
PROPERTIES
  ReceivedInOrder
  ImplementsMailboxes
