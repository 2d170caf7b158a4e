--------------------------- MODULE CommandHistory ---------------------------
(***************************************************************************)
(* What the shell's history promises: the last commands, without immediate *)
(* repetitions, to walk back and forth in from the newest one.             *)
(***************************************************************************)
EXTENDS Naturals, Sequences

CONSTANTS Lines, Size

VARIABLES log,    (* the last commands, the newest last                    *)
          back,   (* how far the user has gone back; 0 is not at all       *)
          line    (* what is on the line                                   *)

vars == <<log, back, line>>

Nothing == <<>>
Newest(s, n) == SubSeq(s, IF Len(s) > n THEN Len(s) - n + 1 ELSE 1, Len(s))

Init == log = <<>> /\ back = 0 /\ line = Nothing

\* Any key that changes the line ends the walk.
Edit == back' = 0 /\ line' \in Lines /\ UNCHANGED log

Enter ==
  /\ log' = IF line = Nothing \/ (log # <<>> /\ log[Len(log)] = line) THEN log
            ELSE Newest(Append(log, line), Size)
  /\ back' = 0
  /\ line' = Nothing

Back ==
  /\ back < Len(log)
  /\ back' = back + 1
  /\ line' = log[Len(log) - back]
  /\ UNCHANGED log

\* Forward from the newest command is an empty line.
Forward ==
  /\ back > 0
  /\ back' = back - 1
  /\ line' = IF back = 1 THEN Nothing ELSE log[Len(log) - back + 2]
  /\ UNCHANGED log

Next == Edit \/ Enter \/ Back \/ Forward

Spec == Init /\ [][Next]_vars
=============================================================================
