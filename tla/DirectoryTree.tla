--------------------------- MODULE DirectoryTree ---------------------------
(***************************************************************************)
(* What the memory file system promises: a tree of directories with files. *)
(* A node has a number of its own, never given twice, a directory it is in *)
(* and a name that no other node of that directory has.  Directories are   *)
(* removed only when they are empty and nobody is in them.                 *)
(*                                                                         *)
(* The promise ends, by Collapse, when a command leaves the tree.          *)
(***************************************************************************)
EXTENDS Naturals, FiniteSets

CONSTANTS Names, Contents, Capacity, FirstNodes

VARIABLES nodes,  (* the files and directories                             *)
          here,   (* the number of the current directory, 0 for the root   *)
          sound   (* whether this is a tree still                          *)

vars == <<nodes, here, sound>>

Directories == { n.id : n \in { d \in nodes : d.type = "dir" } } \cup {0}
Children(id) == { n \in nodes : n.parent_id = id }

Init == nodes = FirstNodes /\ here = 0 /\ sound = TRUE

\* mkdir, create, touch and cp, and write to a new file.
Make(n) ==
  /\ Cardinality(nodes) < Capacity
  /\ n.parent_id = here
  /\ \A m \in nodes : m.id # n.id
  /\ \A m \in Children(here) : m.name # n.name
  /\ nodes' = nodes \cup {n}
  /\ UNCHANGED <<here, sound>>

\* write to an existing file.
Fill(n, content) ==
  /\ nodes' = (nodes \ {n}) \cup {[n EXCEPT !.content = content]}
  /\ UNCHANGED <<here, sound>>

\* mv: a new name in the directory it is in.
Rename(n, name) ==
  /\ \A m \in Children(n.parent_id) : m.name # name
  /\ nodes' = (nodes \ {n}) \cup {[n EXCEPT !.name = name]}
  /\ UNCHANGED <<here, sound>>

\* delete and rmdir.
Remove(n) ==
  /\ Children(n.id) = {} /\ here # n.id
  /\ nodes' = nodes \ {n}
  /\ UNCHANGED <<here, sound>>

\* cd, to a directory of the current one or of the root, to the parent, to the root.
Enter(id) ==
  /\ \/ id = 0
     \/ \E n \in Children(here) \cup Children(0) : n.type = "dir" /\ n.id = id
     \/ \E n \in nodes : n.id = here /\ n.parent_id = id
  /\ here' = id
  /\ UNCHANGED <<nodes, sound>>

Collapse == sound' = FALSE /\ nodes' = {} /\ here' = 0

Next ==
  sound /\ \/ \E n \in nodes' : Make(n)
           \/ \E n \in nodes :
                \/ \E c \in Contents : Fill(n, c)
                \/ \E name \in Names : Rename(n, name)
                \/ Remove(n)
           \/ \E id \in Directories : Enter(id)
           \/ Collapse

Spec == Init /\ [][Next]_vars
=============================================================================
