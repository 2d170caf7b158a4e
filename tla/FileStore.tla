----------------------------- MODULE FileStore -----------------------------
(***************************************************************************)
(* What SimpleFS promises a client that has no file open twice while it is *)
(* changed: named files that hold what was written to them, at the         *)
(* position of the descriptor it was written through.                      *)
(*                                                                         *)
(* The promise ends, by GiveUp, when the client or the code breaks it.     *)
(***************************************************************************)
EXTENDS Naturals, Sequences

CONSTANTS Names, Bytes, Descriptors, Closed, MaxCount

VARIABLES files,    (* the content of every file there is                  *)
          handles,  (* open descriptors: file, position, what they may do  *)
          kept      (* whether the promise is kept still                   *)

vars == <<files, handles, kept>>

Nothing == [n \in {} |-> <<>>]
With(name, content) ==
  [n \in DOMAIN files \cup {name} |-> IF n = name THEN content ELSE files[n]]

\* count bytes b in place of what is at position.
Overwritten(content, position, b, count) ==
  [i \in 1 .. (IF position + count > Len(content) THEN position + count ELSE Len(content)) |->
     IF i \in position + 1 .. position + count THEN b ELSE content[i]]

Init == files = Nothing /\ handles = [d \in Descriptors |-> Closed] /\ kept = TRUE

Create(name) ==
  name \notin DOMAIN files /\ files' = With(name, <<>>) /\ UNCHANGED <<handles, kept>>

\* Open, of a file that is there or is created, with its content or truncated.
Open(d, name, mode) ==
  /\ handles[d] = Closed
  /\ handles' = [handles EXCEPT ![d] = [name |-> name, position |-> 0, mode |-> mode]]
  /\ \/ name \in DOMAIN files /\ files' = files
     \/ files' = With(name, <<>>)
  /\ UNCHANGED kept

\* At the position of the descriptor, over what is there or beyond its end.
Write(d, b, count) ==
  LET h == handles[d] IN
  /\ "write" \in h.mode
  /\ files' = With(h.name, Overwritten(files[h.name], h.position, b, count))
  /\ handles' = [handles EXCEPT ![d].position = @ + count]
  /\ UNCHANGED kept

Read(d, count) ==
  LET h == handles[d] IN
  /\ "read" \in h.mode
  /\ h.position + count <= Len(files[h.name])
  /\ handles' = [handles EXCEPT ![d].position = @ + count]
  /\ UNCHANGED <<files, kept>>

Close(d) == handles' = [handles EXCEPT ![d] = Closed] /\ UNCHANGED <<files, kept>>

GiveUp ==
  files' = Nothing /\ handles' = [d \in Descriptors |-> Closed] /\ kept' = FALSE

Next ==
  kept /\ \/ \E name \in Names : Create(name)
          \/ \E d \in Descriptors :
               \/ \E name \in Names, mode \in SUBSET {"read", "write"} : Open(d, name, mode)
               \/ handles[d] # Closed /\
                    (\/ \E count \in 1 .. MaxCount :
                          (\E b \in Bytes : Write(d, b, count)) \/ Read(d, count)
                     \/ Close(d))
          \/ GiveUp

Spec == Init /\ [][Next]_vars
=============================================================================
