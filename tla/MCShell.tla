------------------------------ MODULE MCShell ------------------------------
(***************************************************************************)
(* Values for the sequences among the constants of Shell: two commands of  *)
(* which one begins like the other, and an alias for a line of more words  *)
(* than there is room for, the first of them too long.                     *)
(***************************************************************************)
EXTENDS Shell

CONSTANT a

SomeCommands == << <<a, a>>, <<a, a, a>> >>
SomeName == <<a>>
SomeLine == <<Blank, a, a, a, Blank, Blank, a, Blank, a>>
=============================================================================
