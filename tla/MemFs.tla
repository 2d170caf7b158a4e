------------------------------- MODULE MemFs -------------------------------
(***************************************************************************)
(* The memory file system, fs/memfs_simple.c, and the shell commands that  *)
(* use it: one table of files and directories, linked by the number of the *)
(* directory an entry is in (0 is the root), and a current directory.      *)
(*                                                                         *)
(* What the shell passes on is a path: a name and the slashes before it.   *)
(* memfs_simple_find_file takes one slash off and searches the root, or    *)
(* searches the current directory; what creates or renames an entry stores *)
(* the whole argument as its name, cut after 31 characters.                *)
(*                                                                         *)
(* The file system is a record fs = [table, current_dir_id, next_file_id]; *)
(* the functions below map it to the next one and the code they return.    *)
(***************************************************************************)
EXTENDS Naturals, FiniteSets, FiniteSetsExt

CONSTANTS MaxFiles,    (* MEMFS_MAX_FILES: 32                              *)
          ShortNames,  (* names without a slash, of up to 31 characters    *)
          LongNames,   (* longer ones, which all begin with the characters *)
          Prefix,      (* of this short one                                *)
          Slashes,     (* bound of the model: slashes before a name        *)
          Texts,       (* what files contain                               *)
          Empty, Greeting, Hello,  (* no bytes; what create writes; what   *)
                                   (* hello.txt says                       *)
          Bin, HelloTxt,           (* the first directory and file         *)
          IdBound      (* bound of the model: entries ever made            *)

ASSUME MemFsAssumption == /\ MaxFiles \in Nat \ {0, 1} /\ IdBound \in Nat
                          /\ Slashes \in Nat
                          /\ {Prefix, Bin, HelloTxt} \subseteq ShortNames /\ Bin # HelloTxt
                          /\ ShortNames \cap LongNames = {}
                          /\ {Empty, Greeting, Hello} \subseteq Texts

VARIABLES fs,
          tidy   (* no command left the tree of directories so far          *)

vars == <<fs, tidy>>

Slot == 0 .. MaxFiles - 1
Root == 0
Path == ({0} \X LongNames) \cup ((0 .. Slashes) \X ShortNames)
Name == (0 .. Slashes) \X ShortNames
Plain(p) == p[1] = 0 /\ p[2] \in ShortNames

Unused == [in_use |-> FALSE]
Entry == [in_use : {TRUE}, name : Name, type : {"file", "dir"}, id : Nat, parent_id : Nat,
          content : Texts]

Used(f) == { i \in Slot : f.table[i].in_use }
Result(f, code) == [fs |-> f, code |-> code]
Fail(code) == Result(fs, code)

-----------------------------------------------------------------------------
\* memfs_simple_find_file: the slots that fit; the code takes the first.
DirectoryOf(f, p) == IF p[1] = 0 THEN f.current_dir_id ELSE Root
NameSought(p) == IF p[1] = 0 THEN p ELSE <<p[1] - 1, p[2]>>

Matches(f, p) == { i \in Used(f) : /\ f.table[i].parent_id = DirectoryOf(f, p)
                                   /\ f.table[i].name = NameSought(p) }
Found(f, p) == Matches(f, p) # {}
FindFile(f, p) == Min(Matches(f, p))

\* simple_strcpy into a name of MEMFS_MAX_FILENAME bytes.
Stored(p) == IF p[2] \in LongNames THEN <<p[1], Prefix>> ELSE p

FreeSlots(f) == Slot \ Used(f)

NewId_FromSlot(f, i) == i + 1
NewId(f, i) == f.next_file_id

\* memfs_simple_create and memfs_simple_mkdir.
AddTo(f, p, type) ==
  IF Found(f, p) THEN Result(f, "EXISTS")
  ELSE IF FreeSlots(f) = {} THEN Result(f, "NO_SPACE")
  ELSE LET i == Min(FreeSlots(f))
           entry == [in_use |-> TRUE, name |-> Stored(p), type |-> type, id |-> NewId(f, i),
                     parent_id |-> f.current_dir_id, content |-> Empty]
       IN Result([f EXCEPT !.table[i] = entry, !.next_file_id = @ + 1], "SUCCESS")

\* memfs_simple_write: to what it finds, or makes and then finds.
WriteTo(f, p, text) ==
  LET made == IF Found(f, p) THEN Result(f, "SUCCESS") ELSE AddTo(f, p, "file")
  IN IF made.code = "SUCCESS" /\ Found(made.fs, p)
     THEN Result([made.fs EXCEPT !.table[FindFile(made.fs, p)].content = text], "SUCCESS")
     ELSE Result(made.fs, "ERROR")

\* The command create: memfs_simple_create, and then what memfs_simple_write
\* answers is ignored.
Create(p) ==
  LET made == AddTo(fs, p, "file")
  IN IF made.code = "SUCCESS" THEN Result(WriteTo(made.fs, p, Greeting).fs, "SUCCESS") ELSE made

Erase(i) == [fs EXCEPT !.table[i] = Unused]

Delete(p) ==
  IF Found(fs, p) THEN Result(Erase(FindFile(fs, p)), "SUCCESS") ELSE Fail("NOT_FOUND")

HasChildren_Here(f, i) == \E j \in Used(f) : f.table[j].parent_id = f.current_dir_id
HasChildren(f, i) == \E j \in Used(f) : f.table[j].parent_id = f.table[i].id

Rmdir(p) ==
  IF ~Found(fs, p) THEN Fail("NOT_FOUND")
  ELSE IF fs.table[FindFile(fs, p)].type # "dir" THEN Fail("NOT_DIR")
  ELSE IF HasChildren(fs, FindFile(fs, p)) THEN Fail("ERROR")
  ELSE Result(Erase(FindFile(fs, p)), "SUCCESS")

Chdir(p) ==
  IF ~Found(fs, p) THEN Fail("NOT_FOUND")
  ELSE IF fs.table[FindFile(fs, p)].type # "dir" THEN Fail("NOT_DIR")
  ELSE Result([fs EXCEPT !.current_dir_id = fs.table[FindFile(fs, p)].id], "SUCCESS")

ChdirRoot == Result([fs EXCEPT !.current_dir_id = Root], "SUCCESS")

\* cd .., which stays where it is when the current directory is gone.
CurrentEntries == { i \in Used(fs) : fs.current_dir_id # Root /\ fs.table[i].id = fs.current_dir_id }
ChdirUp ==
  IF CurrentEntries = {} THEN Result(fs, "SUCCESS")
  ELSE Result([fs EXCEPT !.current_dir_id = fs.table[Min(CurrentEntries)].parent_id], "SUCCESS")

Touch(p) == IF Found(fs, p) THEN Result(fs, "SUCCESS") ELSE AddTo(fs, p, "file")

\* memfs_simple_copy: files only, onto a name that is not there.
CopyInto(r, p, q) ==
  IF r.code # "SUCCESS" THEN r
  ELSE IF ~Found(r.fs, q) THEN Result(r.fs, "ERROR")
  ELSE Result([r.fs EXCEPT !.table[FindFile(r.fs, q)].content = fs.table[FindFile(fs, p)].content], "SUCCESS")

Copy_TestedLate(p, q) ==
  IF ~Found(fs, p) THEN Fail("NOT_FOUND")
  ELSE IF fs.table[FindFile(fs, p)].type # "file" THEN Result(AddTo(fs, q, "file").fs, "ERROR")
  ELSE CopyInto(AddTo(fs, q, "file"), p, q)
Copy(p, q) ==
  IF ~Found(fs, p) THEN Fail("NOT_FOUND")
  ELSE IF fs.table[FindFile(fs, p)].type # "file" THEN Fail("ERROR")
  ELSE CopyInto(AddTo(fs, q, "file"), p, q)

\* memfs_simple_move: a new name where it is.
MayMoveTo_Anything(q) == TRUE
MayMoveTo(q) == ~Found(fs, q)

Move(p, q) ==
  IF ~Found(fs, p) THEN Fail("NOT_FOUND")
  ELSE IF ~MayMoveTo(q) THEN Fail("EXISTS")
  ELSE Result([fs EXCEPT !.table[FindFile(fs, p)].name = Stored(q)], "SUCCESS")

-----------------------------------------------------------------------------
\* memfs_simple_init, with one of its three directories and three files.
Init ==
  /\ LET dir == [in_use |-> TRUE, name |-> <<0, Bin>>, type |-> "dir", id |-> 1, parent_id |-> Root,
                 content |-> Empty]
         file == [dir EXCEPT !.name = <<0, HelloTxt>>, !.type = "file", !.id = 2, !.content = Hello]
     IN fs = [table |-> [i \in Slot |-> IF i = 0 THEN dir ELSE IF i = 1 THEN file ELSE Unused],
              current_dir_id |-> Root, next_file_id |-> 3]
  /\ tidy = TRUE

\* A command that ends in r, and whether it leaves a tree a tree: an entry is
\* found again under the path it was made with only if that is plain.
Command(r, keeps) == fs' = r.fs /\ tidy' = (tidy /\ keeps)
Makes(r, p) == Command(r, Plain(p) \/ r.fs.next_file_id = fs.next_file_id)

KeepsIfMoved(p, q) == Plain(q) /\ (p[1] = 0 \/ fs.current_dir_id = Root)
KeepsIfRemoved(p) ==
  Found(fs, p) => LET i == FindFile(fs, p)
                  IN ~HasChildren(fs, i) /\ fs.table[i].id # fs.current_dir_id

\* The commands of the shell, one action each.
CreateCommand(p) == Makes(Create(p), p)
MkdirCommand(p) == Makes(AddTo(fs, p, "dir"), p)
TouchCommand(p) == Makes(Touch(p), p)
WriteCommand(p, text) == Makes(WriteTo(fs, p, text), p)
CpCommand(p, q) == Makes(Copy(p, q), q)
MvCommand(p, q) == Command(Move(p, q), Move(p, q).code = "SUCCESS" => KeepsIfMoved(p, q))
DeleteCommand(p) == Command(Delete(p), KeepsIfRemoved(p))
RmdirCommand(p) == Command(Rmdir(p), Rmdir(p).code = "SUCCESS" => KeepsIfRemoved(p))
CdCommand == \E r \in {ChdirRoot, ChdirUp} \cup { Chdir(p) : p \in Path } : Command(r, TRUE)

Next ==
  /\ fs.next_file_id < IdBound
  /\ \/ \E p \in Path :
          \/ CreateCommand(p)
          \/ MkdirCommand(p)
          \/ TouchCommand(p)
          \/ \E text \in Texts : WriteCommand(p, text)
          \/ DeleteCommand(p)
          \/ RmdirCommand(p)
          \/ \E q \in Path : CpCommand(p, q) \/ MvCommand(p, q)
     \/ CdCommand

Spec == Init /\ [][Next]_vars

-----------------------------------------------------------------------------
TypeOK ==
  /\ fs \in [table : [Slot -> Entry \cup {Unused}], current_dir_id : Nat, next_file_id : Nat \ {0}]
  /\ tidy \in BOOLEAN

(* Numbers are never given twice, although slots are used again and again, *)
(* and an entry is younger than the directory it is in: no command makes a *)
(* cycle of directories, and what is left of a deleted directory never     *)
(* turns up in one that is made later, whatever paths were given.          *)
AncestorsAreOlder ==
  /\ TypeOK
  /\ fs.current_dir_id < fs.next_file_id
  /\ \A i \in Used(fs) : /\ fs.table[i].parent_id < fs.table[i].id
                         /\ fs.table[i].id < fs.next_file_id
  /\ \A i, j \in Used(fs) : fs.table[i].id = fs.table[j].id => i = j

(* A command that answers with an error has changed nothing, whatever the  *)
(* path, but for write and cp: under a path that is not plain these may    *)
(* leave an empty file more, which the path does not find, and nothing     *)
(* else.  (memfs_simple_write, memfs_simple_copy)                          *)
HalfMade(p) ==
  LET entry(i) == [in_use |-> TRUE, name |-> Stored(p), type |-> "file", id |-> NewId(fs, i),
                   parent_id |-> fs.current_dir_id, content |-> Empty]
  IN { g \in { [fs EXCEPT !.table[i] = entry(i), !.next_file_id = @ + 1] : i \in FreeSlots(fs) } : ~Found(g, p) }

FailuresTouchNothing ==
  \A p \in Path :
    LET written == WriteTo(fs, p, Hello)
    IN /\ \A r \in {Create(p), AddTo(fs, p, "dir"), Touch(p), Delete(p), Rmdir(p), Chdir(p)} :
            r.code # "SUCCESS" => r.fs = fs
       /\ written.code # "SUCCESS" => written.fs = fs \/ (~Plain(p) /\ written.fs \in HalfMade(p))
       /\ \A q \in Path :
            LET copied == Copy(q, p)
                moved == Move(q, p)
            IN /\ moved.code # "SUCCESS" => moved.fs = fs
               /\ copied.code # "SUCCESS" => copied.fs = fs \/ (~Plain(p) /\ copied.fs \in HalfMade(p))

(* After cp the new path finds a copy and the old one finds the source;    *)
(* after mv the new path finds what the old one found, with its number,    *)
(* so that what is in a directory stays in it, and the old path nothing.   *)
CopyAndMoveFaithful ==
  \A p, q \in Path :
    LET before == fs.table[FindFile(fs, p)]
        after(r, path) == r.fs.table[FindFile(r.fs, path)]
    IN /\ Copy(p, q).code = "SUCCESS" =>
            /\ after(Copy(p, q), q).content = before.content
            /\ after(Copy(p, q), p) = before
       /\ tidy /\ Move(p, q).code = "SUCCESS" /\ KeepsIfMoved(p, q) =>
            /\ after(Move(p, q), q) = [before EXCEPT !.name = q]
            /\ ~Found(Move(p, q).fs, p)

(* The table is a tree of directories as long as commands make entries     *)
(* under plain paths and remove no directory that is in use: then names    *)
(* are unique in a directory, every entry is in a directory that exists,   *)
(* and so is the current one; nothing else brings the tree down.           *)
Nodes == { [id |-> fs.table[i].id, parent_id |-> fs.table[i].parent_id, name |-> fs.table[i].name,
            type |-> fs.table[i].type, content |-> fs.table[i].content] : i \in Used(fs) }

FirstNodes ==
  {[id |-> 1, parent_id |-> Root, name |-> <<0, Bin>>, type |-> "dir", content |-> Empty],
   [id |-> 2, parent_id |-> Root, name |-> <<0, HelloTxt>>, type |-> "file", content |-> Hello]}

Tree == INSTANCE DirectoryTree
          WITH Names <- Name, Contents <- Texts, Capacity <- MaxFiles,
               nodes <- IF tidy THEN Nodes ELSE {},
               here <- IF tidy THEN fs.current_dir_id ELSE Root,
               sound <- tidy

ImplementsDirectoryTree == Tree!Spec
=============================================================================
