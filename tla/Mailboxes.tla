----------------------------- MODULE Mailboxes -----------------------------
(***************************************************************************)
(* What message passing through a pool of limited size promises: a message *)
(* that was accepted is kept until the process it is addressed to takes    *)
(* it, once, unaltered, or until everything is thrown away by a reset; a   *)
(* message is refused for lack of room only when the pool is full.         *)
(***************************************************************************)
EXTENDS Naturals, FiniteSets

CONSTANTS Pids, Contents, Capacity, Nothing

VARIABLES pending,   (* the messages accepted and not taken                *)
          received,  (* the last message taken                             *)
          refused    (* whether the last message offered was refused       *)

Message == [from : Pids, to : Pids, content : Contents]

Init == pending = {} /\ received = Nothing /\ refused = FALSE

Accept(m) ==
  /\ Cardinality(pending) < Capacity
  /\ m \notin pending
  /\ pending' = pending \cup {m}
  /\ refused' = FALSE
  /\ UNCHANGED received

Refuse ==
  /\ Cardinality(pending) = Capacity
  /\ refused' = TRUE
  /\ UNCHANGED <<pending, received>>

Take(m) ==
  /\ m \in pending
  /\ pending' = pending \ {m}
  /\ received' = m
  /\ UNCHANGED refused

Reset == pending' = {} /\ UNCHANGED <<received, refused>>

Next == (\E m \in Message : Accept(m) \/ Take(m)) \/ Refuse \/ Reset

Spec == Init /\ [][Next]_<<pending, received, refused>>
=============================================================================
