---------------------------- MODULE BoundedFifo ----------------------------
(***************************************************************************)
(* A bounded first-in first-out queue: what a circular buffer between one  *)
(* producer and one consumer promises.  An item is refused only when the   *)
(* queue is full, and items come out complete, once, and in order.         *)
(***************************************************************************)
EXTENDS Naturals, Sequences

CONSTANTS Items,     (* what can be queued                                 *)
          Capacity,  (* how many items fit                                 *)
          Nothing    (* the value of out before the first item came out    *)

VARIABLES queue,     (* the items waiting                                  *)
          out,       (* the item that came out last                        *)
          lost       (* whether the last item offered was refused          *)

Init == queue = <<>> /\ out = Nothing /\ lost = FALSE

Accept(x) ==
  /\ Len(queue) < Capacity
  /\ queue' = Append(queue, x)
  /\ lost' = FALSE
  /\ UNCHANGED out

Refuse == Len(queue) = Capacity /\ lost' = TRUE /\ UNCHANGED <<queue, out>>

Take ==
  /\ queue # <<>>
  /\ out' = Head(queue)
  /\ queue' = Tail(queue)
  /\ UNCHANGED lost

Next == (\E x \in Items : Accept(x)) \/ Refuse \/ Take

Spec == Init /\ [][Next]_<<queue, out, lost>>
=============================================================================
