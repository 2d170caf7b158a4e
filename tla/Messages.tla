------------------------------ MODULE Messages ------------------------------
(***************************************************************************)
(* The message pool of kernel/ipc.c on top of the process table.  A send   *)
(* looks its receiver up with process_find and takes the first free slot;  *)
(* a receive takes the first slot with a message for current_process.      *)
(* Neither waits: both answer -1 when there is no slot or no message.      *)
(*                                                                         *)
(* The data of a message is a number, different for every message sent.    *)
(***************************************************************************)
EXTENDS Process

CONSTANTS MaxMessages,  (* MAX_MESSAGES: 16 in the kernel                  *)
          DataBound     (* bound of the model: the messages ever sent      *)

ASSUME MessagesAssumption == MaxMessages \in Nat \ {0} /\ DataBound \in Nat

VARIABLES message_pool,
          sent,       (* how many messages were accepted                   *)
          freed,      (* what sent was when slots were last freed          *)
          received,   (* the last message received                         *)
          refused     (* whether the last message sent found no free slot  *)

ghosts == <<sent, freed, received, refused>>
msgVars == <<vars, message_pool, ghosts>>

\* A slot with is_used = false, and "from any sender" in a receive.
NoMessage == [from |-> INVALID_PID, to |-> INVALID_PID, content |-> 0]
AnySender == -1

MsgSlot == 0 .. MaxMessages - 1
UsedMsg(m) == message_pool[m] # NoMessage

\* Whom a message comes from or is for: the kernel before "proc init".
Self == IF current_process = NULL THEN 0 ELSE pid[current_process]

-----------------------------------------------------------------------------
ClearedPool == [m \in MsgSlot |-> NoMessage]

MsgInit ==
  /\ Init
  /\ message_pool = ClearedPool
  /\ sent = 0
  /\ freed = 0
  /\ received = NoMessage
  /\ refused = FALSE

MsgIpcInit ==
  /\ mode = "shell"
  /\ message_pool' = ClearedPool
  /\ freed' = sent
  /\ UNCHANGED <<vars, sent, received, refused>>

FirstFreeMsg_Any(m) == \A k \in 0 .. m - 1 : UsedMsg(k)
FirstFreeMsg_Last(m) == ~UsedMsg(m) /\ \A k \in m + 1 .. MaxMessages - 1 : UsedMsg(k)
FirstFreeMsg(m) == ~UsedMsg(m) /\ \A k \in 0 .. m - 1 : UsedMsg(k)

Send(p) ==
  /\ Calling("send")
  /\ sent < DataBound
  /\ \E i \in Slot : Found(p, i)
  /\ \E m \in MsgSlot :
       /\ FirstFreeMsg(m)
       /\ message_pool' = [message_pool EXCEPT ![m] = [from |-> Self, to |-> p, content |-> sent + 1]]
  /\ sent' = sent + 1
  /\ refused' = FALSE
  /\ UNCHANGED <<vars, freed, received>>

\* A receiver that is not found is an error of its own, and changes nothing.
SendFails(p) ==
  /\ Calling("send")
  /\ \E i \in Slot : Found(p, i)
  /\ \A m \in MsgSlot : UsedMsg(m)
  /\ refused' = TRUE
  /\ UNCHANGED <<vars, message_pool, sent, freed, received>>

ForMe(m, p) ==
  /\ UsedMsg(m)
  /\ message_pool[m].to = Self
  /\ p = AnySender \/ message_pool[m].from = p

Receive(p) ==
  /\ Calling("receive")
  /\ \E m \in MsgSlot :
       /\ ForMe(m, p) /\ \A k \in 0 .. m - 1 : ~ForMe(k, p)
       /\ received' = message_pool[m]
       /\ message_pool' = [message_pool EXCEPT ![m] = NoMessage]
  /\ freed' = sent
  /\ UNCHANGED <<vars, sent, refused>>

MsgNext ==
  \/ Next /\ UNCHANGED <<message_pool, ghosts>>
  \/ MsgIpcInit
  \/ \E p \in Pid : Send(p) \/ SendFails(p)
  \/ \E p \in Pid \cup {AnySender} : Receive(p)

MsgSpec == MsgInit /\ [][MsgNext]_msgVars

-----------------------------------------------------------------------------
Message == [from : Pid, to : Pid, content : 1 .. DataBound]

MsgTypeOK ==
  /\ TypeOK
  /\ message_pool \in [MsgSlot -> Message \cup {NoMessage}]
  /\ {sent, freed} \subseteq 0 .. DataBound
  /\ received \in Message \cup {NoMessage}
  /\ refused \in BOOLEAN

(* Of the messages one process sent to another, one that was sent before   *)
(* is received before, unless a slot of the pool was freed since the older *)
(* one was sent: a later message may then be in a lower slot, and receive  *)
(* finds it first.  (ipc_send_message, ipc_receive_message)                *)
Overtakes(m, old) == old.from = m.from /\ old.to = m.to /\ old.content < m.content

ReceivedInOrder ==
  [][ received' # received =>
        \A m \in MsgSlot : UsedMsg(m) /\ Overtakes(received', message_pool[m]) =>
          message_pool[m].content <= freed ]_msgVars

(* Every accepted message stays in the pool, unaltered, until it is        *)
(* received once or ipc_init clears the pool.                              *)
Mailbox == INSTANCE Mailboxes
             WITH Pids <- Pid, Contents <- 1 .. DataBound, Capacity <- MaxMessages,
                  Nothing <- NoMessage,
                  pending <- { message_pool[m] : m \in { k \in MsgSlot : UsedMsg(k) } }

ImplementsMailboxes == Mailbox!Spec

=============================================================================
