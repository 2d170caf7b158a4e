--------------------------- MODULE PageAllocator ---------------------------
(***************************************************************************)
(* What a physical page allocator promises its clients, whatever data      *)
(* structure it keeps: a page is handed to one client at a time, a client  *)
(* gets a page back only after somebody returned it, the reserved pages    *)
(* are never handed out, and a request is refused only when no page is     *)
(* left.  Pmm implements it.                                               *)
(***************************************************************************)
EXTENDS Naturals

CONSTANTS Pages,     (* every page of physical memory                      *)
          Reserved,  (* the pages that no client may get                   *)
          Refused    (* the answer to a request that cannot be served      *)

VARIABLES owned,     (* the pages the clients hold                         *)
          answer     (* what the last request got                          *)

Available == Pages \ (Reserved \cup owned)

Init == owned = {} /\ answer = Refused

Grant == \E p \in Available : owned' = owned \cup {p} /\ answer' = p

Refuse == Available = {} /\ answer' = Refused /\ UNCHANGED owned

Return == \E p \in owned : owned' = owned \ {p} /\ UNCHANGED answer

Spec == Init /\ [][Grant \/ Refuse \/ Return]_<<owned, answer>>
=============================================================================
