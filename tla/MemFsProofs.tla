----------------------------- MODULE MemFsProofs -----------------------------
(***************************************************************************)
(* Proofs about the memory file system of fs/memfs_simple.c, for a table   *)
(* of any size and any names: the numbers of directories order the tree,   *)
(* failures leave no trace, copies and moves are found again, and the      *)
(* table implements DirectoryTree.                                         *)
(***************************************************************************)
EXTENDS MemFs, FiniteSetTheorems, WellFoundedInduction, TLAPS

FileSystem == [table : [Slot -> Entry \cup {Unused}], current_dir_id : Nat, next_file_id : Nat \ {0}]

\* What the functions do to the table, in one slot.
Put(f, i, e) == [f EXCEPT !.table[i] = e]
Added(f, i, e) == [Put(f, i, e) EXCEPT !.next_file_id = @ + 1]
NewEntry(f, p, type) ==
  [in_use |-> TRUE, name |-> Stored(p), type |-> type, id |-> f.next_file_id,
   parent_id |-> f.current_dir_id, content |-> Empty]

-----------------------------------------------------------------------------
(* Entries and slots.                                                      *)
LEMMA SlotFacts == Slot \subseteq Nat /\ 0 \in Slot /\ 1 \in Slot
BY MemFsAssumption DEF Slot

LEMMA LeastOfSlots ==
  ASSUME NEW S, S \subseteq Slot, S # {}
  PROVE  Min(S) \in S /\ \A i \in S : Min(S) <= i
<1>1. S \subseteq Nat
  BY SlotFacts
<1>2. PICK i \in S : \A j \in S : ~(<<j, i>> \in OpToRel(<, Nat))
  BY <1>1, NatLessThanWellFounded, WFMin
<1>3. \A j \in S : i <= j
  <2> SUFFICES ASSUME NEW j \in S, j < i PROVE FALSE
    BY <1>1
  <2>1. <<j, i>> \in Nat \X Nat
    BY <1>1
  <2>2. <<j, i>> \in OpToRel(<, Nat)
    BY <2>1 DEF OpToRel
  <2> QED BY <1>2, <2>2
<1> QED BY <1>3 DEF Min

LEMMA EntryFacts ==
  ASSUME NEW e \in Entry
  PROVE  /\ e.in_use = TRUE /\ e.name \in Name /\ e.type \in {"file", "dir"}
         /\ e.id \in Nat /\ e.parent_id \in Nat /\ e.content \in Texts
         /\ e # Unused
<1>1. /\ e.in_use = TRUE /\ e.name \in Name /\ e.type \in {"file", "dir"}
      /\ e.id \in Nat /\ e.parent_id \in Nat /\ e.content \in Texts
  BY DEF Entry
<1>2. Unused.in_use = FALSE
  BY DEF Unused
<1> QED BY <1>1, <1>2

LEMMA UsedAreEntries ==
  ASSUME NEW f \in FileSystem, NEW i \in Slot
  PROVE  /\ i \in Used(f) => f.table[i] \in Entry
         /\ i \notin Used(f) => f.table[i] = Unused
<1>1. f.table[i] \in Entry \/ f.table[i] = Unused
  BY DEF FileSystem
<1>2. f.table[i] \in Entry => i \in Used(f)
  BY EntryFacts DEF Used
<1>3. f.table[i] = Unused => i \notin Used(f)
  BY DEF Used, Unused
<1> QED BY <1>1, <1>2, <1>3

LEMMA StoredIsName ==
  ASSUME NEW p \in Path
  PROVE  Stored(p) \in Name /\ (Plain(p) => Stored(p) = p /\ p \in Name)
BY MemFsAssumption DEF Stored, Path, Name, Plain

LEMMA PutFacts ==
  ASSUME NEW f \in FileSystem, NEW i \in Slot, NEW e \in Entry \cup {Unused}
  PROVE  LET g == Put(f, i, e)
         IN /\ g \in FileSystem
            /\ g.current_dir_id = f.current_dir_id /\ g.next_file_id = f.next_file_id
            /\ g.table[i] = e /\ \A j \in Slot \ {i} : g.table[j] = f.table[j]
            /\ Used(g) = IF e = Unused THEN Used(f) \ {i} ELSE Used(f) \cup {i}
<1> DEFINE g == Put(f, i, e)
<1>1. /\ g \in FileSystem
      /\ g.current_dir_id = f.current_dir_id /\ g.next_file_id = f.next_file_id
      /\ g.table[i] = e /\ \A j \in Slot \ {i} : g.table[j] = f.table[j]
  BY DEF Put, FileSystem
<1> HIDE DEF g
<1>2. e \in Entry => Used(g) = Used(f) \cup {i}
  BY <1>1, EntryFacts DEF Used
<1>3. e = Unused => Used(g) = Used(f) \ {i}
  BY <1>1 DEF Used, Unused
<1> QED BY <1>1, <1>2, <1>3, EntryFacts DEF g

LEMMA PutEntryFacts ==
  ASSUME NEW f \in FileSystem, NEW i \in Used(f), NEW e \in Entry
  PROVE  LET g == Put(f, i, e)
         IN /\ g \in FileSystem
            /\ g.current_dir_id = f.current_dir_id /\ g.next_file_id = f.next_file_id
            /\ g.table[i] = e /\ \A j \in Slot \ {i} : g.table[j] = f.table[j]
            /\ Used(g) = Used(f) /\ Used(f) \subseteq Slot
<1> DEFINE g == Put(f, i, e)
<1>1. i \in Slot /\ Used(f) \cup {i} = Used(f) /\ Used(f) \subseteq Slot /\ e # Unused
  BY EntryFacts DEF Used
<1>2. /\ g \in FileSystem
      /\ g.current_dir_id = f.current_dir_id /\ g.next_file_id = f.next_file_id
      /\ g.table[i] = e /\ \A j \in Slot \ {i} : g.table[j] = f.table[j]
      /\ Used(g) = IF e = Unused THEN Used(f) \ {i} ELSE Used(f) \cup {i}
  BY <1>1, PutFacts
<1> HIDE DEF g
<1> QED BY <1>1, <1>2 DEF g

LEMMA AddedFacts ==
  ASSUME NEW f \in FileSystem, NEW i \in Slot, NEW e \in Entry
  PROVE  LET g == Added(f, i, e)
         IN /\ g \in FileSystem
            /\ g.current_dir_id = f.current_dir_id /\ g.next_file_id = f.next_file_id + 1
            /\ g.table[i] = e /\ \A j \in Slot \ {i} : g.table[j] = f.table[j]
            /\ Used(g) = Used(f) \cup {i}
<1> DEFINE g == Added(f, i, e)
<1>1. /\ g \in FileSystem
      /\ g.current_dir_id = f.current_dir_id /\ g.next_file_id = f.next_file_id + 1
      /\ g.table[i] = e /\ \A j \in Slot \ {i} : g.table[j] = f.table[j]
  <2> DEFINE h == Put(f, i, e)
  <2>1. /\ h \in FileSystem
        /\ h.current_dir_id = f.current_dir_id /\ h.next_file_id = f.next_file_id
        /\ h.table[i] = e /\ \A j \in Slot \ {i} : h.table[j] = f.table[j]
    BY PutFacts
  <2>2. g = [h EXCEPT !.next_file_id = h.next_file_id + 1]
    BY DEF Added
  <2> HIDE DEF h, g
  <2> QED BY <2>1, <2>2 DEF FileSystem
<1> HIDE DEF g
<1>2. Used(g) = Used(f) \cup {i}
  BY <1>1, EntryFacts DEF Used
<1> QED BY <1>1, <1>2 DEF g

LEMMA FindFacts ==
  ASSUME NEW f, NEW p
  PROVE  /\ Matches(f, p) \subseteq Used(f) /\ Used(f) \subseteq Slot
         /\ Found(f, p) => FindFile(f, p) \in Matches(f, p)
BY LeastOfSlots DEF Matches, Used, Found, FindFile

(* memfs_simple_create answers with an error and does nothing, or makes    *)
(* an entry in a slot that was free.                                       *)
LEMMA AddToFacts ==
  ASSUME NEW f \in FileSystem, NEW p \in Path, NEW type \in {"file", "dir"}
  PROVE  \/ /\ AddTo(f, p, type).fs = f /\ AddTo(f, p, type).code # "SUCCESS"
            /\ Found(f, p) \/ FreeSlots(f) = {}
         \/ /\ AddTo(f, p, type).code = "SUCCESS" /\ ~Found(f, p)
            /\ NewEntry(f, p, type) \in Entry
            /\ \E i \in FreeSlots(f) : AddTo(f, p, type).fs = Added(f, i, NewEntry(f, p, type))
<1>1. NewEntry(f, p, type) \in Entry
  BY StoredIsName, MemFsAssumption DEF NewEntry, Entry, FileSystem
<1>2. CASE Found(f, p) \/ FreeSlots(f) = {}
  BY <1>2 DEF AddTo, Result
<1>3. CASE ~Found(f, p) /\ FreeSlots(f) # {}
  <2>1. Min(FreeSlots(f)) \in FreeSlots(f)
    BY <1>3, LeastOfSlots DEF FreeSlots
  <2>2. AddTo(f, p, type) = Result(Added(f, Min(FreeSlots(f)), NewEntry(f, p, type)), "SUCCESS")
    BY <1>3 DEF AddTo, Added, Put, NewEntry, NewId
  <2> QED BY <1>1, <1>3, <2>1, <2>2 DEF Result
<1> QED BY <1>2, <1>3

LEMMA FillIsPut ==
  ASSUME NEW f \in FileSystem, NEW i \in Used(f), NEW text \in Texts
  PROVE  /\ [f EXCEPT !.table[i].content = text] = Put(f, i, [f.table[i] EXCEPT !.content = text])
         /\ [f.table[i] EXCEPT !.content = text] \in Entry
<1>1. i \in Slot /\ f.table[i] \in Entry
  BY UsedAreEntries DEF Used
<1>2. [f.table[i] EXCEPT !.content = text] \in Entry
  BY <1>1 DEF Entry
<1> QED BY <1>2 DEF Put

-----------------------------------------------------------------------------
\* What holds of every file system, whatever paths were given.
Aged(f) ==
  /\ f \in FileSystem
  /\ f.current_dir_id < f.next_file_id
  /\ \A i \in Used(f) : f.table[i].parent_id < f.table[i].id /\ f.table[i].id < f.next_file_id
  /\ \A i, j \in Used(f) : f.table[i].id = f.table[j].id => i = j

LEMMA AgedFacts ==
  ASSUME NEW f, Aged(f), NEW i \in Used(f)
  PROVE  /\ i \in Slot /\ f.table[i] \in Entry
         /\ f.table[i].parent_id \in Nat /\ f.table[i].id \in Nat /\ f.next_file_id \in Nat
         /\ f.table[i].parent_id < f.table[i].id /\ f.table[i].id < f.next_file_id
<1>1. i \in Slot /\ f \in FileSystem
  BY DEF Aged, Used
<1> QED BY <1>1, UsedAreEntries, EntryFacts DEF Aged, FileSystem

LEMMA AgedAdded ==
  ASSUME NEW f, Aged(f), NEW i \in FreeSlots(f),
         NEW e \in Entry, e.id = f.next_file_id, e.parent_id = f.current_dir_id
  PROVE  Aged(Added(f, i, e))
<1> DEFINE g == Added(f, i, e)
<1>1. i \in Slot /\ i \notin Used(f) /\ f \in FileSystem /\ Used(f) \subseteq Slot
      /\ f.current_dir_id \in Nat /\ f.next_file_id \in Nat /\ f.current_dir_id < f.next_file_id
  BY DEF Aged, FreeSlots, Used, FileSystem
<1>2. /\ g \in FileSystem
      /\ g.current_dir_id = f.current_dir_id /\ g.next_file_id = f.next_file_id + 1
      /\ g.table[i] = e /\ \A j \in Used(f) : j # i /\ g.table[j] = f.table[j]
      /\ Used(g) = Used(f) \cup {i}
  BY <1>1, AddedFacts
<1> HIDE DEF g
<1>3. \A j \in Used(f) : /\ f.table[j].parent_id \in Nat /\ f.table[j].id \in Nat
                         /\ f.table[j].parent_id < f.table[j].id /\ f.table[j].id < f.next_file_id
  BY AgedFacts
<1>4. \A j \in Used(g) : g.table[j].parent_id < g.table[j].id /\ g.table[j].id < g.next_file_id
  BY <1>1, <1>2, <1>3
<1>5. \A j, k \in Used(g) : g.table[j].id = g.table[k].id => j = k
  BY <1>1, <1>2, <1>3 DEF Aged
<1>6. g.current_dir_id < g.next_file_id
  BY <1>1, <1>2
<1> QED BY <1>2, <1>4, <1>5, <1>6 DEF Aged, g

LEMMA AgedPut ==
  ASSUME NEW f, Aged(f), NEW i \in Used(f),
         NEW e \in Entry, e.id = f.table[i].id, e.parent_id = f.table[i].parent_id
  PROVE  Aged(Put(f, i, e))
<1> DEFINE g == Put(f, i, e)
<1>1. f \in FileSystem
  BY DEF Aged
<1>2. /\ g \in FileSystem
      /\ g.current_dir_id = f.current_dir_id /\ g.next_file_id = f.next_file_id
      /\ g.table[i] = e /\ \A j \in Slot \ {i} : g.table[j] = f.table[j]
      /\ Used(g) = Used(f) /\ Used(f) \subseteq Slot
  BY <1>1, PutEntryFacts
<1> HIDE DEF g
<1>3. \A j \in Used(g) : g.table[j].id = f.table[j].id /\ g.table[j].parent_id = f.table[j].parent_id
  BY <1>2
<1> QED BY <1>2, <1>3 DEF Aged, g

LEMMA AgedErased ==
  ASSUME NEW f, Aged(f), NEW i \in Used(f)
  PROVE  Aged(Put(f, i, Unused))
<1> DEFINE g == Put(f, i, Unused)
<1>1. i \in Slot /\ f \in FileSystem
  BY AgedFacts DEF Aged
<1>2. /\ g \in FileSystem
      /\ g.current_dir_id = f.current_dir_id /\ g.next_file_id = f.next_file_id
      /\ Used(g) = Used(f) \ {i} /\ \A j \in Used(g) : g.table[j] = f.table[j]
  BY <1>1, PutFacts DEF Used
<1> HIDE DEF g
<1> QED BY <1>2 DEF Aged, g

LEMMA AgedChdir ==
  ASSUME NEW f, Aged(f), NEW d \in Nat, d < f.next_file_id
  PROVE  Aged([f EXCEPT !.current_dir_id = d])
<1> DEFINE g == [f EXCEPT !.current_dir_id = d]
<1>1. /\ g \in FileSystem /\ g.current_dir_id = d /\ g.next_file_id = f.next_file_id
      /\ g.table = f.table
  BY DEF Aged, FileSystem
<1>2. Used(g) = Used(f)
  BY <1>1 DEF Used
<1> HIDE DEF g
<1> QED BY <1>1, <1>2 DEF Aged, g

(* The functions of the file system.                                       *)
LEMMA AgedAddTo ==
  ASSUME NEW f, Aged(f), NEW p \in Path, NEW type \in {"file", "dir"}
  PROVE  Aged(AddTo(f, p, type).fs)
<1>1. f \in FileSystem
  BY DEF Aged
<1>2. NewEntry(f, p, type).id = f.next_file_id /\ NewEntry(f, p, type).parent_id = f.current_dir_id
  BY DEF NewEntry
<1> QED BY <1>1, <1>2, AddToFacts, AgedAdded

LEMMA AgedFill ==
  ASSUME NEW f, Aged(f), NEW i \in Used(f), NEW text \in Texts
  PROVE  Aged([f EXCEPT !.table[i].content = text])
<1> DEFINE e == [f.table[i] EXCEPT !.content = text]
<1>1. f \in FileSystem /\ f.table[i] \in Entry
  BY AgedFacts DEF Aged
<1>2. e \in Entry /\ e.id = f.table[i].id /\ e.parent_id = f.table[i].parent_id
  BY <1>1 DEF Entry
<1> HIDE DEF e
<1>3. Aged(Put(f, i, e))
  BY <1>2, AgedPut
<1> QED BY <1>1, <1>3, FillIsPut DEF e

LEMMA AgedWriteTo ==
  ASSUME NEW f, Aged(f), NEW p \in Path, NEW text \in Texts
  PROVE  Aged(WriteTo(f, p, text).fs)
<1> DEFINE made == IF Found(f, p) THEN Result(f, "SUCCESS") ELSE AddTo(f, p, "file")
<1>1. Aged(made.fs)
  BY AgedAddTo DEF Result
<1> HIDE DEF made
<1>2. Found(made.fs, p) => FindFile(made.fs, p) \in Used(made.fs)
  BY FindFacts
<1>3. Found(made.fs, p) => Aged([made.fs EXCEPT !.table[FindFile(made.fs, p)].content = text])
  BY <1>1, <1>2, AgedFill
<1>4. WriteTo(f, p, text) =
        IF made.code = "SUCCESS" /\ Found(made.fs, p)
        THEN Result([made.fs EXCEPT !.table[FindFile(made.fs, p)].content = text], "SUCCESS")
        ELSE Result(made.fs, "ERROR")
  BY DEF WriteTo, made
<1> QED BY <1>1, <1>3, <1>4 DEF Result

LEMMA AgedCommands ==
  ASSUME Aged(fs), NEW p \in Path, NEW q \in Path
  PROVE  /\ Aged(Create(p).fs) /\ Aged(Touch(p).fs) /\ Aged(Copy(p, q).fs) /\ Aged(Move(p, q).fs)
         /\ Aged(Delete(p).fs) /\ Aged(Rmdir(p).fs) /\ Aged(Chdir(p).fs)
<1>1. Found(fs, p) => FindFile(fs, p) \in Used(fs)
  BY FindFacts
<1>2. Aged(Create(p).fs)
  <2>1. Aged(AddTo(fs, p, "file").fs) /\ Greeting \in Texts
    BY AgedAddTo, MemFsAssumption
  <2>2. Aged(WriteTo(AddTo(fs, p, "file").fs, p, Greeting).fs)
    BY <2>1, AgedWriteTo
  <2> QED BY <2>1, <2>2 DEF Create, Result
<1>3. Aged(Touch(p).fs)
  BY AgedAddTo DEF Touch, Result
<1>4. Aged(Copy(p, q).fs)
  <2> DEFINE r == AddTo(fs, q, "file")
             text == fs.table[FindFile(fs, p)].content
  <2>1. Aged(r.fs)
    BY AgedAddTo
  <2>2. Found(fs, p) => text \in Texts
    BY <1>1, AgedFacts, EntryFacts
  <2> HIDE DEF r, text
  <2>3. Found(r.fs, q) => FindFile(r.fs, q) \in Used(r.fs)
    BY FindFacts
  <2>4. Found(r.fs, q) /\ Found(fs, p) => Aged([r.fs EXCEPT !.table[FindFile(r.fs, q)].content = text])
    BY <2>1, <2>2, <2>3, AgedFill
  <2>5. Found(fs, p) => Aged(CopyInto(r, p, q).fs)
    BY <2>1, <2>4 DEF CopyInto, Result, text
  <2> QED BY <2>5 DEF Copy, Fail, Result, r
<1>5. Aged(Move(p, q).fs)
  <2>1. CASE Found(fs, p)
    <3> DEFINE i == FindFile(fs, p)
               e == [fs.table[i] EXCEPT !.name = Stored(q)]
    <3>1. i \in Used(fs) /\ fs.table[i] \in Entry /\ Stored(q) \in Name
      BY <1>1, <2>1, AgedFacts, StoredIsName
    <3>2. e \in Entry /\ e.id = fs.table[i].id /\ e.parent_id = fs.table[i].parent_id
      BY <3>1 DEF Entry
    <3>3. Aged(Put(fs, i, e))
      BY <3>1, <3>2, AgedPut
    <3>4. [fs EXCEPT !.table[i].name = Stored(q)] = Put(fs, i, e)
      BY DEF Put
    <3> QED BY <2>1, <3>3, <3>4 DEF Move, Fail, Result
  <2> QED BY <2>1 DEF Move, Fail, Result
<1>6. Found(fs, p) => Aged(Erase(FindFile(fs, p)))
  BY <1>1, AgedErased DEF Erase, Put
<1>7. Aged(Delete(p).fs) /\ Aged(Rmdir(p).fs)
  BY <1>6 DEF Delete, Rmdir, Fail, Result
<1>8. Aged(Chdir(p).fs)
  <2>1. Found(fs, p) => Aged([fs EXCEPT !.current_dir_id = fs.table[FindFile(fs, p)].id])
    BY <1>1, AgedFacts, AgedChdir
  <2> QED BY <2>1 DEF Chdir, Fail, Result
<1> QED BY <1>2, <1>3, <1>4, <1>5, <1>7, <1>8

LEMMA AgedDirectories == Aged(fs) => Aged(ChdirRoot.fs) /\ Aged(ChdirUp.fs)
<1> SUFFICES ASSUME Aged(fs) PROVE Aged(ChdirRoot.fs) /\ Aged(ChdirUp.fs)
  OBVIOUS
<1>1. fs.next_file_id \in Nat /\ fs.next_file_id > 0 /\ Root \in Nat /\ Root < fs.next_file_id
  BY DEF Aged, FileSystem, Root
<1>2. CASE CurrentEntries # {}
  <2> DEFINE i == Min(CurrentEntries)
  <2>1. i \in Used(fs)
    BY <1>2, LeastOfSlots DEF CurrentEntries, Used
  <2>2. Aged([fs EXCEPT !.current_dir_id = fs.table[i].parent_id])
    BY <2>1, AgedFacts, AgedChdir
  <2> QED BY <1>1, <1>2, <2>2, AgedChdir DEF ChdirRoot, ChdirUp, Result
<1> QED BY <1>1, <1>2, AgedChdir DEF ChdirRoot, ChdirUp, Result

(* Every command of the shell.                                             *)
AgedInv == Aged(fs) /\ tidy \in BOOLEAN

LEMMA StepAged == AgedInv /\ [Next]_vars => AgedInv'
<1> SUFFICES ASSUME Aged(fs), tidy \in BOOLEAN, [Next]_vars
             PROVE  Aged(fs)' /\ tidy' \in BOOLEAN
  BY DEF AgedInv
<1>1. ASSUME NEW p \in Path,
             \/ CreateCommand(p) \/ MkdirCommand(p) \/ TouchCommand(p)
             \/ \E text \in Texts : WriteCommand(p, text)
             \/ DeleteCommand(p) \/ RmdirCommand(p)
             \/ \E q \in Path : CpCommand(p, q) \/ MvCommand(p, q)
      PROVE  Aged(fs)' /\ tidy' \in BOOLEAN
  BY <1>1, AgedCommands, AgedAddTo, AgedWriteTo
     DEF CreateCommand, MkdirCommand, TouchCommand, WriteCommand, DeleteCommand, RmdirCommand,
         CpCommand, MvCommand, Makes, Command
<1>2. CASE CdCommand
  BY <1>2, AgedCommands, AgedDirectories DEF CdCommand, Command
<1>3. CASE UNCHANGED vars
  BY <1>3 DEF vars
<1> QED BY <1>1, <1>2, <1>3 DEF Next

LEMMA InitAged == Init => AgedInv
<1> SUFFICES ASSUME Init PROVE Aged(fs) /\ tidy \in BOOLEAN
  BY DEF AgedInv
<1> DEFINE dir == [in_use |-> TRUE, name |-> <<0, Bin>>, type |-> "dir", id |-> 1, parent_id |-> Root,
                   content |-> Empty]
           file == [dir EXCEPT !.name = <<0, HelloTxt>>, !.type = "file", !.id = 2, !.content = Hello]
<1>1. dir \in Entry /\ file \in Entry
  <2>1. dir \in Entry
    BY MemFsAssumption DEF Entry, Name, Root
  <2>2. <<0, HelloTxt>> \in Name /\ "file" \in {"file", "dir"} /\ 2 \in Nat /\ Hello \in Texts
    BY MemFsAssumption DEF Name
  <2> HIDE DEF dir
  <2> QED BY <2>1, <2>2 DEF Entry
<1>2. /\ fs = [table |-> [i \in Slot |-> IF i = 0 THEN dir ELSE IF i = 1 THEN file ELSE Unused],
               current_dir_id |-> Root, next_file_id |-> 3]
      /\ tidy = TRUE
  BY DEF Init
<1>3. dir.id = 1 /\ dir.parent_id = 0 /\ file.id = 2 /\ file.parent_id = 0
  BY DEF Root
<1> HIDE DEF dir, file
<1>4. /\ fs \in FileSystem /\ fs.current_dir_id = 0 /\ fs.next_file_id = 3
      /\ fs.table[0] = dir /\ fs.table[1] = file
      /\ \A i \in Slot \ {0, 1} : fs.table[i] = Unused
  BY <1>1, <1>2, SlotFacts DEF FileSystem, Root
<1>5. Used(fs) = {0, 1}
  <2>1. dir.in_use = TRUE /\ file.in_use = TRUE /\ Unused.in_use = FALSE
    BY <1>1, EntryFacts DEF Unused
  <2>2. \A i \in Slot : fs.table[i].in_use <=> i \in {0, 1}
    BY <1>4, <2>1
  <2> QED BY <2>2, SlotFacts DEF Used
<1> QED BY <1>2, <1>3, <1>4, <1>5 DEF Aged

LEMMA AgedIsInvariant == Spec => []AgedInv
BY StepAged, InitAged, PTL DEF Spec

(* Under any paths, every entry is younger than the directory it is in,    *)
(* and numbers are never given twice: memfs_simple_mkdir and the other     *)
(* commands make no cycle of directories.                                  *)
THEOREM DirectoriesHaveAnOrder == Spec => []AncestorsAreOlder
<1>1. AgedInv => AncestorsAreOlder
  BY DEF AgedInv, Aged, AncestorsAreOlder, TypeOK, FileSystem
<1> QED BY <1>1, AgedIsInvariant, PTL

-----------------------------------------------------------------------------
(* What paths find after a change of one slot.                             *)
Fits(f, e, p) == e.parent_id = DirectoryOf(f, p) /\ e.name = NameSought(p)

LEMMA FoundAfterAdd ==
  ASSUME NEW f \in FileSystem, NEW i \in FreeSlots(f), NEW e \in Entry, NEW p \in Path
  PROVE  Matches(Added(f, i, e), p) = IF Fits(f, e, p) THEN Matches(f, p) \cup {i} ELSE Matches(f, p)
<1> DEFINE g == Added(f, i, e)
<1>1. i \in Slot /\ i \notin Used(f) /\ Used(f) \subseteq Slot
  BY DEF FreeSlots, Used
<1>2. /\ g.table[i] = e /\ \A j \in Used(f) : j # i /\ g.table[j] = f.table[j]
      /\ Used(g) = Used(f) \cup {i} /\ DirectoryOf(g, p) = DirectoryOf(f, p)
  BY <1>1, AddedFacts DEF DirectoryOf
<1> HIDE DEF g
<1>3. Matches(g, p) = { j \in Used(g) : Fits(f, g.table[j], p) }
  BY <1>2 DEF Matches, Fits
<1>4. Matches(f, p) = { j \in Used(f) : Fits(f, f.table[j], p) }
  BY DEF Matches, Fits
<1> QED BY <1>1, <1>2, <1>3, <1>4 DEF g

LEMMA FoundAfterPut ==
  ASSUME NEW f \in FileSystem, NEW i \in Used(f), NEW e \in Entry, NEW p \in Path
  PROVE  Matches(Put(f, i, e), p) =
           IF Fits(f, e, p) THEN Matches(f, p) \cup {i} ELSE Matches(f, p) \ {i}
<1> DEFINE g == Put(f, i, e)
<1>1. i \in Slot /\ Used(f) \subseteq Slot
  BY DEF Used
<1>2. /\ g.table[i] = e /\ \A j \in Used(f) \ {i} : g.table[j] = f.table[j]
      /\ Used(g) = Used(f) /\ g.current_dir_id = f.current_dir_id
  BY <1>1, PutEntryFacts
<1>3. DirectoryOf(g, p) = DirectoryOf(f, p)
  BY <1>2 DEF DirectoryOf
<1> HIDE DEF g
<1>4. Matches(g, p) = { j \in Used(f) : Fits(f, g.table[j], p) }
  BY <1>2, <1>3 DEF Matches, Fits
<1>5. Matches(f, p) = { j \in Used(f) : Fits(f, f.table[j], p) }
  BY DEF Matches, Fits
<1> QED BY <1>1, <1>2, <1>4, <1>5 DEF g

(* An entry made under a plain path is found under it.                     *)
LEMMA PlainIsFound ==
  ASSUME NEW f \in FileSystem, NEW p \in Path, NEW type \in {"file", "dir"}, Plain(p)
  PROVE  Fits(f, NewEntry(f, p, type), p)
BY StoredIsName DEF Fits, NewEntry, DirectoryOf, NameSought, Plain

(* memfs_simple_create for the file that write and cp then look for.       *)
LEMMA MadeForPath ==
  ASSUME NEW f \in FileSystem, NEW p \in Path, NEW type \in {"file", "dir"},
         AddTo(f, p, type).code = "SUCCESS"
  PROVE  /\ ~Found(f, p) /\ NewEntry(f, p, type) \in Entry
         /\ \E i \in FreeSlots(f) :
              /\ AddTo(f, p, type).fs = Added(f, i, NewEntry(f, p, type))
              /\ Found(AddTo(f, p, type).fs, p) <=> Fits(f, NewEntry(f, p, type), p)
              /\ Found(AddTo(f, p, type).fs, p) => FindFile(AddTo(f, p, type).fs, p) = i
<1> DEFINE e == NewEntry(f, p, type)
           g == AddTo(f, p, type).fs
<1>1. PICK i \in FreeSlots(f) : g = Added(f, i, e) /\ e \in Entry /\ ~Found(f, p)
  BY AddToFacts
<1>2. Matches(g, p) = IF Fits(f, e, p) THEN {i} ELSE {}
  <2>1. Matches(f, p) = {}
    BY <1>1 DEF Found
  <2> HIDE DEF e, g
  <2> QED BY <1>1, <2>1, FoundAfterAdd
<1> HIDE DEF e, g
<1>3. Found(g, p) => FindFile(g, p) = i
  BY <1>2, FindFacts DEF Found
<1>4. Found(g, p) <=> Fits(f, e, p)
  BY <1>2 DEF Found
<1> QED BY <1>1, <1>3, <1>4 DEF e, g

(* What memfs_simple_create leaves when write or cp does not find it.      *)
LEMMA LeftBehind ==
  ASSUME NEW p \in Path, fs \in FileSystem,
         AddTo(fs, p, "file").code = "SUCCESS", ~Found(AddTo(fs, p, "file").fs, p)
  PROVE  ~Plain(p) /\ AddTo(fs, p, "file").fs \in HalfMade(p)
<1>1. PICK i \in FreeSlots(fs) :
        /\ AddTo(fs, p, "file").fs = Added(fs, i, NewEntry(fs, p, "file"))
        /\ Found(AddTo(fs, p, "file").fs, p) <=> Fits(fs, NewEntry(fs, p, "file"), p)
  BY MadeForPath
<1>2. ~Plain(p)
  BY <1>1, PlainIsFound
<1>3. Added(fs, i, NewEntry(fs, p, "file")) =
        [fs EXCEPT !.table[i] = [in_use |-> TRUE, name |-> Stored(p), type |-> "file", id |-> NewId(fs, i),
                                 parent_id |-> fs.current_dir_id, content |-> Empty],
                   !.next_file_id = @ + 1]
  BY DEF Added, Put, NewEntry, NewId
<1> QED BY <1>1, <1>2, <1>3 DEF HalfMade

LEMMA NoTrace ==
  ASSUME AgedInv, NEW p \in Path
  PROVE  \A r \in {Create(p), AddTo(fs, p, "dir"), Touch(p), Delete(p), Rmdir(p), Chdir(p)} :
           r.code # "SUCCESS" => r.fs = fs
<1>1. fs \in FileSystem
  BY DEF AgedInv, Aged
<1>2. \A type \in {"file", "dir"} : AddTo(fs, p, type).code # "SUCCESS" => AddTo(fs, p, type).fs = fs
  BY <1>1, AddToFacts
<1>3. /\ Create(p).code # "SUCCESS" => Create(p).fs = fs
      /\ Touch(p).code # "SUCCESS" => Touch(p).fs = fs
  BY <1>2 DEF Create, Touch, Result
<1>4. /\ Delete(p).code # "SUCCESS" => Delete(p).fs = fs
      /\ Rmdir(p).code # "SUCCESS" => Rmdir(p).fs = fs
      /\ Chdir(p).code # "SUCCESS" => Chdir(p).fs = fs
  BY DEF Delete, Rmdir, Chdir, Fail, Result
<1> QED BY <1>2, <1>3, <1>4

(* A command that fails has touched nothing that was there, not even cp    *)
(* and write, which make their entry in between: it may be left over, as   *)
(* an empty file, if the path has a slash or is too long.                  *)
THEOREM FailedCommandsTouchNothing == Spec => []FailuresTouchNothing
<1>1. AgedInv => FailuresTouchNothing
  <2> SUFFICES ASSUME AgedInv, NEW p \in Path, NEW q \in Path
               PROVE  /\ WriteTo(fs, p, Hello).code # "SUCCESS" =>
                           \/ WriteTo(fs, p, Hello).fs = fs
                           \/ ~Plain(p) /\ WriteTo(fs, p, Hello).fs \in HalfMade(p)
                      /\ Copy(q, p).code # "SUCCESS" =>
                           Copy(q, p).fs = fs \/ (~Plain(p) /\ Copy(q, p).fs \in HalfMade(p))
                      /\ Move(q, p).code # "SUCCESS" => Move(q, p).fs = fs
    BY NoTrace DEF FailuresTouchNothing
  <2>1. fs \in FileSystem
    BY DEF AgedInv, Aged
  <2>2. ASSUME NEW path \in Path
        PROVE  /\ AddTo(fs, path, "file").code # "SUCCESS" => AddTo(fs, path, "file").fs = fs
               /\ AddTo(fs, path, "file").code = "SUCCESS" /\ ~Found(AddTo(fs, path, "file").fs, path) =>
                    ~Plain(path) /\ AddTo(fs, path, "file").fs \in HalfMade(path)
    BY <2>1, AddToFacts, LeftBehind
  <2>3. WriteTo(fs, p, Hello).code # "SUCCESS" =>
          \/ WriteTo(fs, p, Hello).fs = fs
          \/ ~Plain(p) /\ WriteTo(fs, p, Hello).fs \in HalfMade(p)
    BY <2>2 DEF WriteTo, Result
  <2>4. Copy(q, p).code # "SUCCESS" =>
          Copy(q, p).fs = fs \/ (~Plain(p) /\ Copy(q, p).fs \in HalfMade(p))
    BY <2>2 DEF Copy, CopyInto, Fail, Result
  <2>5. Move(q, p).code # "SUCCESS" => Move(q, p).fs = fs
    BY DEF Move, Fail, Result
  <2> QED BY <2>3, <2>4, <2>5
<1> QED BY <1>1, AgedIsInvariant, PTL

-----------------------------------------------------------------------------
\* What a tree of directories is, and the changes that leave it one.
Dirs(f) == { f.table[i].id : i \in { k \in Used(f) : f.table[k].type = "dir" } } \cup {Root}

TreeLike(f) ==
  /\ \A i, j \in Used(f) : f.table[i].parent_id = f.table[j].parent_id /\ f.table[i].name = f.table[j].name
                             => i = j
  /\ \A i \in Used(f) : f.table[i].parent_id \in Dirs(f)
  /\ f.current_dir_id \in Dirs(f)

NameIsNew(f, d, name) == \A j \in Used(f) : f.table[j].parent_id = d => f.table[j].name # name

Grown(f, g) == \E i \in FreeSlots(f), e \in Entry :
  /\ g = Added(f, i, e)
  /\ e.id = f.next_file_id /\ e.parent_id = f.current_dir_id /\ NameIsNew(f, f.current_dir_id, e.name)

Filled(f, g) == \E i \in Used(f), text \in Texts : g = Put(f, i, [f.table[i] EXCEPT !.content = text])

Renamed(f, g) == \E i \in Used(f), name \in Name :
  /\ g = Put(f, i, [f.table[i] EXCEPT !.name = name])
  /\ NameIsNew(f, f.table[i].parent_id, name)

Removed(f, g) == \E i \in Used(f) :
  /\ g = Put(f, i, Unused)
  /\ f.table[i].id # f.current_dir_id
  /\ \A j \in Used(f) : f.table[j].parent_id # f.table[i].id

Entered(f, g) == \E d \in Dirs(f) :
  /\ g = [f EXCEPT !.current_dir_id = d]
  /\ \/ d = Root
     \/ \E i \in Used(f) : \/ /\ f.table[i].type = "dir" /\ f.table[i].id = d
                              /\ f.table[i].parent_id \in {f.current_dir_id, Root}
                           \/ f.table[i].id = f.current_dir_id /\ f.table[i].parent_id = d

Change(f, g) == Grown(f, g) \/ Filled(f, g) \/ Renamed(f, g) \/ Removed(f, g) \/ Entered(f, g) \/ g = f

LEMMA GrownIsTree == ASSUME NEW f, NEW g, Aged(f), TreeLike(f), Grown(f, g) PROVE TreeLike(g)
<1>1. PICK i \in FreeSlots(f), e \in Entry :
        /\ g = Added(f, i, e)
        /\ e.parent_id = f.current_dir_id /\ NameIsNew(f, f.current_dir_id, e.name)
  BY DEF Grown
<1>2. f \in FileSystem /\ i \in Slot /\ i \notin Used(f) /\ Used(f) \subseteq Slot
  BY DEF Aged, FreeSlots, Used
<1>3. /\ g.table[i] = e /\ \A j \in Used(f) : j # i /\ g.table[j] = f.table[j]
      /\ Used(g) = Used(f) \cup {i} /\ g.current_dir_id = f.current_dir_id
  BY <1>1, <1>2, AddedFacts
<1>4. Dirs(f) \subseteq Dirs(g)
  BY <1>3 DEF Dirs
<1> QED BY <1>1, <1>3, <1>4 DEF TreeLike, NameIsNew

LEMMA PutIsTree ==
  ASSUME NEW f, Aged(f), TreeLike(f), NEW i \in Used(f), NEW e \in Entry,
         e.id = f.table[i].id, e.parent_id = f.table[i].parent_id, e.type = f.table[i].type,
         e.name = f.table[i].name \/ NameIsNew(f, e.parent_id, e.name)
  PROVE  TreeLike(Put(f, i, e))
<1> DEFINE g == Put(f, i, e)
<1>1. f \in FileSystem
  BY DEF Aged
<1>2. /\ g.table[i] = e /\ \A j \in Used(f) \ {i} : g.table[j] = f.table[j]
      /\ Used(g) = Used(f) /\ g.current_dir_id = f.current_dir_id
  BY <1>1, PutEntryFacts
<1> HIDE DEF g
<1>3. \A j \in Used(g) : /\ g.table[j].id = f.table[j].id /\ g.table[j].type = f.table[j].type
                         /\ g.table[j].parent_id = f.table[j].parent_id
  BY <1>2
<1>4. Dirs(g) = Dirs(f)
  BY <1>2, <1>3 DEF Dirs
<1>5. \A j, k \in Used(g) : g.table[j].parent_id = g.table[k].parent_id /\ g.table[j].name = g.table[k].name
                              => j = k
  BY <1>2, <1>3 DEF TreeLike, NameIsNew
<1> QED BY <1>2, <1>3, <1>4, <1>5 DEF TreeLike, g

LEMMA RemovedIsTree == ASSUME NEW f, NEW g, Aged(f), TreeLike(f), Removed(f, g) PROVE TreeLike(g)
<1>1. PICK i \in Used(f) :
        /\ g = Put(f, i, Unused)
        /\ f.table[i].id # f.current_dir_id
        /\ \A j \in Used(f) : f.table[j].parent_id # f.table[i].id
  BY DEF Removed
<1>2. f \in FileSystem /\ i \in Slot /\ Used(f) \subseteq Slot
  BY DEF Aged, Used
<1>3. /\ Used(g) = Used(f) \ {i} /\ \A j \in Used(g) : g.table[j] = f.table[j]
      /\ g.current_dir_id = f.current_dir_id
  BY <1>1, <1>2, PutFacts
<1>4. Dirs(f) \ {f.table[i].id} \subseteq Dirs(g)
  BY <1>3 DEF Dirs
<1> QED BY <1>1, <1>3, <1>4 DEF TreeLike

LEMMA ChangeIsTree == ASSUME NEW f, NEW g, Aged(f), TreeLike(f), Change(f, g) PROVE TreeLike(g)
<1>0. f \in FileSystem /\ \A i \in Used(f) : f.table[i] \in Entry
  BY AgedFacts DEF Aged
<1>1. CASE Filled(f, g)
  <2>1. PICK i \in Used(f), text \in Texts : g = Put(f, i, [f.table[i] EXCEPT !.content = text])
    BY <1>1 DEF Filled
  <2> DEFINE e == [f.table[i] EXCEPT !.content = text]
  <2>2. /\ e \in Entry /\ e.id = f.table[i].id /\ e.parent_id = f.table[i].parent_id
        /\ e.type = f.table[i].type /\ e.name = f.table[i].name
    BY <1>0 DEF Entry
  <2> HIDE DEF e
  <2>3. TreeLike(Put(f, i, e))
    BY <2>2, PutIsTree
  <2> QED BY <2>1, <2>3 DEF e
<1>2. CASE Renamed(f, g)
  <2>1. PICK i \in Used(f), name \in Name : /\ g = Put(f, i, [f.table[i] EXCEPT !.name = name])
                                            /\ NameIsNew(f, f.table[i].parent_id, name)
    BY <1>2 DEF Renamed
  <2> DEFINE e == [f.table[i] EXCEPT !.name = name]
  <2>2. /\ e \in Entry /\ e.id = f.table[i].id /\ e.parent_id = f.table[i].parent_id
        /\ e.type = f.table[i].type /\ e.name = name
    BY <1>0 DEF Entry
  <2> HIDE DEF e
  <2>3. TreeLike(Put(f, i, e))
    BY <2>1, <2>2, PutIsTree
  <2> QED BY <2>1, <2>3 DEF e
<1>3. CASE Entered(f, g)
  <2>1. PICK d \in Dirs(f) : g = [f EXCEPT !.current_dir_id = d]
    BY <1>3 DEF Entered
  <2>2. g.table = f.table /\ g.current_dir_id = d
    BY <1>0, <2>1 DEF FileSystem
  <2>3. Used(g) = Used(f) /\ Dirs(g) = Dirs(f)
    BY <2>2 DEF Used, Dirs
  <2> QED BY <2>2, <2>3 DEF TreeLike
<1> QED BY <1>1, <1>2, <1>3, GrownIsTree, RemovedIsTree DEF Change

-----------------------------------------------------------------------------
(* What the commands that make or fill an entry do, under plain paths.     *)
LEMMA PlainPath ==
  ASSUME NEW f \in FileSystem, NEW p \in Path, Plain(p), ~Found(f, p)
  PROVE  NameIsNew(f, f.current_dir_id, p) /\ p \in Name
<1>1. p \in Name /\ DirectoryOf(f, p) = f.current_dir_id /\ NameSought(p) = p
  BY StoredIsName DEF Plain, DirectoryOf, NameSought
<1> QED BY <1>1 DEF NameIsNew, Found, Matches

LEMMA FilledIsAdded ==
  ASSUME NEW f \in FileSystem, NEW i \in FreeSlots(f), NEW e \in Entry, NEW text \in Texts
  PROVE  /\ [Added(f, i, e) EXCEPT !.table[i].content = text] = Added(f, i, [e EXCEPT !.content = text])
         /\ [e EXCEPT !.content = text] \in Entry
<1>1. i \in Slot
  BY DEF FreeSlots
<1>2. [e EXCEPT !.content = text] \in Entry
  BY DEF Entry
<1>3. /\ f.table \in [Slot -> Entry \cup {Unused}]
      /\ f = [table |-> f.table, current_dir_id |-> f.current_dir_id, next_file_id |-> f.next_file_id]
  BY DEF FileSystem
<1> DEFINE t == f.table
           c == f.current_dir_id
           n == f.next_file_id
           d == [e EXCEPT !.content = text]
<1> HIDE DEF t, c, n
<1>4. \A x : Put(f, i, x) = [table |-> [t EXCEPT ![i] = x], current_dir_id |-> c, next_file_id |-> n]
  BY <1>3 DEF Put, t, c, n
<1>5. \A x : Added(f, i, x) = [table |-> [t EXCEPT ![i] = x], current_dir_id |-> c, next_file_id |-> n + 1]
  BY <1>4 DEF Added
<1>6. [Added(f, i, e) EXCEPT !.table[i].content = text] =
        [table |-> [[t EXCEPT ![i] = e] EXCEPT ![i].content = text], current_dir_id |-> c, next_file_id |-> n + 1]
  BY <1>5
<1>7. [[t EXCEPT ![i] = e] EXCEPT ![i].content = text] = [t EXCEPT ![i] = d]
  BY <1>1, <1>3 DEF t
<1> QED BY <1>2, <1>5, <1>6, <1>7

LEMMA MakesGrown ==
  ASSUME Aged(fs), NEW p \in Path, Plain(p), NEW type \in {"file", "dir"},
         AddTo(fs, p, type).code = "SUCCESS", NEW text \in Texts
  PROVE  LET r == AddTo(fs, p, type).fs
         IN /\ Grown(fs, r)
            /\ Found(r, p) /\ Grown(fs, [r EXCEPT !.table[FindFile(r, p)].content = text])
<1> DEFINE r == AddTo(fs, p, type).fs
           e == NewEntry(fs, p, type)
<1>1. fs \in FileSystem
  BY DEF Aged
<1>2. PICK i \in FreeSlots(fs) :
        /\ r = Added(fs, i, e) /\ Found(r, p) /\ FindFile(r, p) = i /\ e \in Entry /\ ~Found(fs, p)
  BY <1>1, MadeForPath, PlainIsFound
<1>3. e.id = fs.next_file_id /\ e.parent_id = fs.current_dir_id /\ e.name = p
  BY StoredIsName DEF NewEntry
<1>4. NameIsNew(fs, fs.current_dir_id, p)
  BY <1>1, <1>2, PlainPath
<1> DEFINE d == [e EXCEPT !.content = text]
<1> HIDE DEF e, r
<1>5. d \in Entry /\ d.id = e.id /\ d.parent_id = e.parent_id /\ d.name = e.name
  BY <1>2 DEF Entry
<1>6. [r EXCEPT !.table[FindFile(r, p)].content = text] = Added(fs, i, d)
  BY <1>1, <1>2, FilledIsAdded
<1> HIDE DEF d
<1>7. Grown(fs, r)
  BY <1>2, <1>3, <1>4 DEF Grown
<1>8. Grown(fs, Added(fs, i, d))
  BY <1>3, <1>4, <1>5 DEF Grown
<1> QED BY <1>2, <1>6, <1>7, <1>8 DEF r

LEMMA FillsFound ==
  ASSUME Aged(fs), NEW p \in Path, Found(fs, p), NEW text \in Texts
  PROVE  Filled(fs, [fs EXCEPT !.table[FindFile(fs, p)].content = text])
<1>1. fs \in FileSystem /\ FindFile(fs, p) \in Used(fs)
  BY FindFacts DEF Aged
<1> QED BY <1>1, FillIsPut DEF Filled

\* A path that Makes keeps the tree for.
Keeps(r, p) == Plain(p) \/ r.fs.next_file_id = fs.next_file_id

LEMMA NumberTaken ==
  ASSUME NEW f, Aged(f), NEW p \in Path, NEW type \in {"file", "dir"}
  PROVE  /\ f.next_file_id \in Nat /\ AddTo(f, p, type).fs.next_file_id \in Nat
         /\ AddTo(f, p, type).code = "SUCCESS" => AddTo(f, p, type).fs.next_file_id = f.next_file_id + 1
         /\ AddTo(f, p, type).code # "SUCCESS" => AddTo(f, p, type).fs = f
<1>1. f \in FileSystem /\ f.next_file_id \in Nat
  BY DEF Aged, FileSystem
<1>2. \A i \in FreeSlots(f), e \in Entry : Added(f, i, e).next_file_id = f.next_file_id + 1
  BY <1>1, AddedFacts DEF FreeSlots
<1> QED BY <1>1, <1>2, AddToFacts

LEMMA NumberKept ==
  ASSUME NEW f, Aged(f), NEW i \in Used(f), NEW text \in Texts
  PROVE  [f EXCEPT !.table[i].content = text].next_file_id = f.next_file_id
<1>1. f \in FileSystem
  BY DEF Aged
<1> QED BY <1>1, FillIsPut, PutEntryFacts

LEMMA NumberAfterWrite ==
  ASSUME NEW f, Aged(f), NEW p \in Path, NEW text \in Texts
  PROVE  /\ WriteTo(f, p, text).fs.next_file_id \in Nat
         /\ WriteTo(f, p, text).fs.next_file_id >= f.next_file_id
         /\ ~Found(f, p) /\ AddTo(f, p, "file").code = "SUCCESS" =>
              WriteTo(f, p, text).fs.next_file_id = f.next_file_id + 1
<1> DEFINE made == IF Found(f, p) THEN Result(f, "SUCCESS") ELSE AddTo(f, p, "file")
<1>1. /\ Aged(made.fs) /\ made.fs.next_file_id \in Nat /\ f.next_file_id \in Nat
      /\ made.fs.next_file_id >= f.next_file_id
      /\ ~Found(f, p) /\ AddTo(f, p, "file").code = "SUCCESS" => made.fs.next_file_id = f.next_file_id + 1
  BY NumberTaken, AgedAddTo DEF Result
<1>2. WriteTo(f, p, text) =
        IF made.code = "SUCCESS" /\ Found(made.fs, p)
        THEN Result([made.fs EXCEPT !.table[FindFile(made.fs, p)].content = text], "SUCCESS")
        ELSE Result(made.fs, "ERROR")
  BY DEF WriteTo
<1> HIDE DEF made
<1>3. Found(made.fs, p) => FindFile(made.fs, p) \in Used(made.fs)
  BY FindFacts
<1>4. WriteTo(f, p, text).fs.next_file_id = made.fs.next_file_id
  BY <1>1, <1>2, <1>3, NumberKept DEF Result
<1> QED BY <1>1, <1>4

LEMMA AddChanges ==
  ASSUME Aged(fs), NEW p \in Path, NEW type \in {"file", "dir"}, Keeps(AddTo(fs, p, type), p)
  PROVE  Change(fs, AddTo(fs, p, type).fs)
<1>1. CASE AddTo(fs, p, type).code # "SUCCESS"
  BY <1>1, NumberTaken DEF Change
<1>2. CASE AddTo(fs, p, type).code = "SUCCESS"
  <2>1. Plain(p)
    BY <1>2, NumberTaken DEF Keeps
  <2>2. Empty \in Texts
    BY MemFsAssumption
  <2> QED BY <1>2, <2>1, <2>2, MakesGrown DEF Change
<1> QED BY <1>1, <1>2

LEMMA CreateChanges ==
  ASSUME Aged(fs), NEW p \in Path, Keeps(Create(p), p)
  PROVE  Change(fs, Create(p).fs)
<1> DEFINE made == AddTo(fs, p, "file")
<1>1. CASE made.code # "SUCCESS"
  BY <1>1, NumberTaken DEF Create, Change
<1>2. CASE made.code = "SUCCESS"
  <2>1. Create(p).fs = WriteTo(made.fs, p, Greeting).fs
    BY <1>2 DEF Create, Result
  <2>2. Aged(made.fs) /\ Greeting \in Texts
    BY AgedAddTo, MemFsAssumption
  <2>3. Plain(p)
    BY <1>2, <2>1, <2>2, NumberTaken, NumberAfterWrite DEF Keeps
  <2>4. /\ Found(made.fs, p)
        /\ Grown(fs, [made.fs EXCEPT !.table[FindFile(made.fs, p)].content = Greeting])
    BY <1>2, <2>2, <2>3, MakesGrown
  <2> HIDE DEF made
  <2>5. WriteTo(made.fs, p, Greeting).fs = [made.fs EXCEPT !.table[FindFile(made.fs, p)].content = Greeting]
    BY <2>4 DEF WriteTo, Result
  <2> QED BY <2>1, <2>4, <2>5 DEF Change
<1> QED BY <1>1, <1>2

LEMMA WriteChanges ==
  ASSUME Aged(fs), NEW p \in Path, NEW text \in Texts, Keeps(WriteTo(fs, p, text), p)
  PROVE  Change(fs, WriteTo(fs, p, text).fs)
<1>1. CASE Found(fs, p)
  BY <1>1, FillsFound DEF WriteTo, Result, Change
<1>2. CASE ~Found(fs, p) /\ AddTo(fs, p, "file").code # "SUCCESS"
  BY <1>2, NumberTaken DEF WriteTo, Result, Change
<1>3. CASE ~Found(fs, p) /\ AddTo(fs, p, "file").code = "SUCCESS"
  <2> DEFINE made == AddTo(fs, p, "file")
  <2>1. fs.next_file_id \in Nat
    BY NumberTaken
  <2>2. Plain(p)
    BY <1>3, <2>1, NumberAfterWrite DEF Keeps
  <2>3. /\ Found(made.fs, p)
        /\ Grown(fs, [made.fs EXCEPT !.table[FindFile(made.fs, p)].content = text])
    BY <1>3, <2>2, MakesGrown
  <2>4. WriteTo(fs, p, text).fs = [made.fs EXCEPT !.table[FindFile(made.fs, p)].content = text]
    BY <1>3, <2>3 DEF WriteTo, Result
  <2> QED BY <2>3, <2>4 DEF Change
<1> QED BY <1>1, <1>2, <1>3

LEMMA CopyChanges ==
  ASSUME Aged(fs), NEW p \in Path, NEW q \in Path, Keeps(Copy(p, q), q)
  PROVE  Change(fs, Copy(p, q).fs)
<1> DEFINE made == AddTo(fs, q, "file")
           text == fs.table[FindFile(fs, p)].content
<1>1. CASE ~Found(fs, p) \/ fs.table[FindFile(fs, p)].type # "file"
  BY <1>1 DEF Copy, Fail, Result, Change
<1>2. CASE Found(fs, p) /\ made.code # "SUCCESS"
  BY <1>2, NumberTaken DEF Copy, CopyInto, Fail, Result, Change
<1>3. CASE Found(fs, p) /\ fs.table[FindFile(fs, p)].type = "file" /\ made.code = "SUCCESS"
  <2>1. Copy(p, q) = CopyInto(made, p, q)
    BY <1>3 DEF Copy
  <2>2. text \in Texts
    BY <1>3, FindFacts, AgedFacts, EntryFacts
  <2>3. /\ Aged(made.fs) /\ made.fs.next_file_id = fs.next_file_id + 1 /\ fs.next_file_id \in Nat
    BY <1>3, AgedAddTo, NumberTaken
  <2>4. Plain(q) => /\ Found(made.fs, q)
                    /\ Grown(fs, [made.fs EXCEPT !.table[FindFile(made.fs, q)].content = text])
    BY <1>3, <2>2, MakesGrown
  <2>5. Found(made.fs, q) => FindFile(made.fs, q) \in Used(made.fs)
    BY FindFacts
  <2> HIDE DEF made, text
  <2>6. CopyInto(made, p, q).fs = IF Found(made.fs, q)
                                  THEN [made.fs EXCEPT !.table[FindFile(made.fs, q)].content = text]
                                  ELSE made.fs
    BY <1>3 DEF CopyInto, Result, text
  <2>7. CopyInto(made, p, q).fs.next_file_id = fs.next_file_id + 1
    BY <2>2, <2>3, <2>5, <2>6, NumberKept
  <2>8. Plain(q)
    BY <2>1, <2>3, <2>7 DEF Keeps
  <2> QED BY <2>1, <2>4, <2>6, <2>8 DEF Change
<1> QED BY <1>1, <1>2, <1>3

LEMMA MoveChanges ==
  ASSUME Aged(fs), NEW p \in Path, NEW q \in Path, Move(p, q).code = "SUCCESS" => KeepsIfMoved(p, q)
  PROVE  Change(fs, Move(p, q).fs)
<1>1. CASE ~Found(fs, p) \/ Found(fs, q)
  BY <1>1 DEF Move, MayMoveTo, Fail, Result, Change
<1>2. CASE Found(fs, p) /\ ~Found(fs, q)
  <2> DEFINE i == FindFile(fs, p)
  <2>1. Move(p, q) = Result([fs EXCEPT !.table[i].name = Stored(q)], "SUCCESS") /\ KeepsIfMoved(p, q)
    BY <1>2 DEF Move, MayMoveTo, Result
  <2>2. i \in Used(fs) /\ fs.table[i].parent_id = DirectoryOf(fs, p)
    BY <1>2, FindFacts DEF Matches
  <2>3. fs \in FileSystem /\ Stored(q) = q /\ q \in Name /\ NameIsNew(fs, fs.current_dir_id, q)
    BY <1>2, <2>1, PlainPath, StoredIsName DEF Aged, KeepsIfMoved
  <2>4. fs.table[i].parent_id = fs.current_dir_id
    BY <2>1, <2>2 DEF KeepsIfMoved, DirectoryOf, Root
  <2> HIDE DEF i
  <2>5. [fs EXCEPT !.table[i].name = q] = Put(fs, i, [fs.table[i] EXCEPT !.name = q])
    BY DEF Put
  <2>6. Renamed(fs, Move(p, q).fs)
    BY <2>1, <2>2, <2>3, <2>4, <2>5 DEF Renamed, Result
  <2> QED BY <2>6 DEF Change
<1> QED BY <1>1, <1>2

LEMMA RemoveChanges ==
  ASSUME Aged(fs), NEW p \in Path
  PROVE  /\ KeepsIfRemoved(p) => Change(fs, Delete(p).fs)
         /\ (Rmdir(p).code = "SUCCESS" => KeepsIfRemoved(p)) => Change(fs, Rmdir(p).fs)
<1>1. Found(fs, p) => FindFile(fs, p) \in Used(fs)
  BY FindFacts
<1>2. Found(fs, p) /\ KeepsIfRemoved(p) => Removed(fs, Erase(FindFile(fs, p)))
  BY <1>1 DEF KeepsIfRemoved, HasChildren, Removed, Erase, Put
<1> QED BY <1>2 DEF Delete, Rmdir, Fail, Result, Change

LEMMA CdChanges ==
  ASSUME Aged(fs), TreeLike(fs), NEW r \in {ChdirRoot, ChdirUp} \cup { Chdir(p) : p \in Path }
  PROVE  Change(fs, r.fs)
<1>1. CASE r = ChdirRoot
  <2>1. Entered(fs, [fs EXCEPT !.current_dir_id = Root])
    BY DEF Entered, Dirs
  <2> QED BY <1>1, <2>1 DEF ChdirRoot, Result, Change
<1>2. CASE r = ChdirUp
  <2>1. CASE CurrentEntries = {}
    BY <1>2, <2>1 DEF ChdirUp, Result, Change
  <2>2. CASE CurrentEntries # {}
    <3> DEFINE i == Min(CurrentEntries)
    <3>1. i \in CurrentEntries
      BY <2>2, LeastOfSlots DEF CurrentEntries, Used
    <3>2. i \in Used(fs) /\ fs.table[i].id = fs.current_dir_id /\ fs.table[i].parent_id \in Dirs(fs)
      BY <3>1 DEF CurrentEntries, TreeLike
    <3>3. r.fs = [fs EXCEPT !.current_dir_id = fs.table[i].parent_id]
      BY <1>2, <2>2 DEF ChdirUp, Result
    <3> HIDE DEF i
    <3>4. Entered(fs, r.fs)
      BY <3>2, <3>3 DEF Entered
    <3> QED BY <3>4 DEF Change
  <2> QED BY <2>1, <2>2
<1>3. ASSUME NEW p \in Path, r = Chdir(p) PROVE Change(fs, r.fs)
  <2> DEFINE i == FindFile(fs, p)
  <2>1. CASE Found(fs, p) /\ fs.table[i].type = "dir"
    <3>1. i \in Used(fs) /\ fs.table[i].parent_id \in {fs.current_dir_id, Root}
      BY <2>1, FindFacts DEF Matches, DirectoryOf
    <3>2. r.fs = [fs EXCEPT !.current_dir_id = fs.table[i].id]
      BY <1>3, <2>1 DEF Chdir, Result
    <3> HIDE DEF i
    <3>3. fs.table[i].id \in Dirs(fs)
      BY <2>1, <3>1 DEF Dirs
    <3>4. Entered(fs, r.fs)
      BY <2>1, <3>1, <3>2, <3>3 DEF Entered
    <3> QED BY <3>4 DEF Change
  <2>2. CASE ~(Found(fs, p) /\ fs.table[i].type = "dir")
    BY <1>3, <2>2 DEF Chdir, Fail, Result, Change
  <2> QED BY <2>1, <2>2
<1> QED BY <1>1, <1>2, <1>3

\* While it is tidy, the table is a tree.
TreeInv == AgedInv /\ (tidy => TreeLike(fs))

LEMMA StepChanges ==
  ASSUME TreeInv, Next, tidy'
  PROVE  tidy /\ Change(fs, fs')
<1>0. Aged(fs) /\ (tidy => TreeLike(fs))
  BY DEF TreeInv, AgedInv
<1>1. ASSUME NEW p \in Path, CreateCommand(p) \/ MkdirCommand(p) \/ TouchCommand(p)
      PROVE  tidy /\ Change(fs, fs')
  <2>1. Keeps(Touch(p), p) => Change(fs, Touch(p).fs)
    BY <1>0, AddChanges DEF Touch, Result, Change
  <2> QED BY <1>0, <1>1, <2>1, AddChanges, CreateChanges
          DEF CreateCommand, MkdirCommand, TouchCommand, Makes, Command, Keeps
<1>2. ASSUME NEW p \in Path, \E text \in Texts : WriteCommand(p, text)
      PROVE  tidy /\ Change(fs, fs')
  BY <1>0, <1>2, WriteChanges DEF WriteCommand, Makes, Command, Keeps
<1>3. ASSUME NEW p \in Path, DeleteCommand(p) \/ RmdirCommand(p)
      PROVE  tidy /\ Change(fs, fs')
  BY <1>0, <1>3, RemoveChanges DEF DeleteCommand, RmdirCommand, Command
<1>4. ASSUME NEW p \in Path, NEW q \in Path, CpCommand(p, q) \/ MvCommand(p, q)
      PROVE  tidy /\ Change(fs, fs')
  BY <1>0, <1>4, CopyChanges, MoveChanges DEF CpCommand, MvCommand, Makes, Command, Keeps
<1>5. CASE CdCommand
  BY <1>0, <1>5, CdChanges DEF CdCommand, Command
<1> QED BY <1>1, <1>2, <1>3, <1>4, <1>5 DEF Next

LEMMA InitIsTree == Init => TreeLike(fs)
<1> SUFFICES ASSUME Init PROVE TreeLike(fs)
  OBVIOUS
<1> DEFINE dir == [in_use |-> TRUE, name |-> <<0, Bin>>, type |-> "dir", id |-> 1, parent_id |-> Root,
                   content |-> Empty]
           file == [dir EXCEPT !.name = <<0, HelloTxt>>, !.type = "file", !.id = 2, !.content = Hello]
<1>1. /\ fs = [table |-> [i \in Slot |-> IF i = 0 THEN dir ELSE IF i = 1 THEN file ELSE Unused],
               current_dir_id |-> Root, next_file_id |-> 3]
  BY DEF Init
<1>2. /\ dir.parent_id = Root /\ file.parent_id = Root /\ dir.in_use /\ file.in_use
      /\ dir.name[2] = Bin /\ file.name[2] = HelloTxt
  OBVIOUS
<1> HIDE DEF dir, file
<1>3. /\ fs.current_dir_id = Root /\ fs.table[0] = dir /\ fs.table[1] = file
      /\ \A i \in Slot \ {0, 1} : fs.table[i] = Unused
  BY <1>1, SlotFacts
<1>4. Used(fs) = {0, 1}
  <2>1. \A i \in Slot : fs.table[i].in_use <=> i \in {0, 1}
    BY <1>2, <1>3 DEF Unused
  <2> QED BY <2>1, SlotFacts DEF Used
<1> QED BY <1>2, <1>3, <1>4, MemFsAssumption DEF TreeLike, Dirs

LEMMA TreeIsInvariant == Spec => []TreeInv
<1>1. Init => TreeInv
  BY InitAged, InitIsTree DEF TreeInv
<1>2. TreeInv /\ [Next]_vars => TreeInv'
  <2> SUFFICES ASSUME TreeInv, [Next]_vars PROVE TreeInv'
    OBVIOUS
  <2>1. AgedInv'
    BY StepAged DEF TreeInv
  <2>2. CASE Next
    <3>1. ASSUME tidy' PROVE TreeLike(fs)'
      <4>1. tidy /\ Change(fs, fs')
        BY <2>2, <3>1, StepChanges
      <4>2. TreeLike(fs')
        BY <4>1, ChangeIsTree DEF TreeInv, AgedInv
      <4> QED BY <4>2 DEF TreeLike, Dirs, Used
    <3> QED BY <2>1, <3>1 DEF TreeInv
  <2>3. CASE UNCHANGED vars
    BY <2>1, <2>3 DEF TreeInv, TreeLike, Dirs, Used, vars
  <2> QED BY <2>2, <2>3
<1> QED BY <1>1, <1>2, PTL DEF Spec

-----------------------------------------------------------------------------
(* What cp and mv leave to be found.                                       *)
LEMMA CopyIsFound ==
  ASSUME Aged(fs), NEW p \in Path, NEW q \in Path, Copy(p, q).code = "SUCCESS"
  PROVE  LET g == Copy(p, q).fs
         IN /\ g.table[FindFile(g, q)].content = fs.table[FindFile(fs, p)].content
            /\ g.table[FindFile(g, p)] = fs.table[FindFile(fs, p)]
<1> DEFINE r == AddTo(fs, q, "file")
           text == fs.table[FindFile(fs, p)].content
           e == NewEntry(fs, q, "file")
           d == [e EXCEPT !.content = text]
           g == Copy(p, q).fs
<1>1. Found(fs, p) /\ r.code = "SUCCESS" /\ Found(r.fs, q) /\ Copy(p, q) = CopyInto(r, p, q)
  BY DEF Copy, CopyInto, Fail, Result
<1>2. fs \in FileSystem /\ FindFile(fs, p) \in Used(fs) /\ text \in Texts
  BY <1>1, FindFacts, AgedFacts, EntryFacts DEF Aged
<1>3. PICK i \in FreeSlots(fs) : /\ r.fs = Added(fs, i, e) /\ ~Found(fs, q) /\ e \in Entry
                                 /\ Fits(fs, e, q) /\ FindFile(r.fs, q) = i
  BY <1>1, <1>2, MadeForPath
<1>4. g = [r.fs EXCEPT !.table[i].content = text]
  BY <1>1, <1>3 DEF CopyInto, Result
<1> HIDE DEF r, text, e, g
<1>5. g = Added(fs, i, d) /\ d \in Entry
  BY <1>2, <1>3, <1>4, FilledIsAdded
<1>6. d.content = text /\ d.name = e.name /\ d.parent_id = e.parent_id
  BY <1>3 DEF Entry
<1> HIDE DEF d
<1>7. Fits(fs, d, q) /\ ~Fits(fs, d, p)
  BY <1>1, <1>3, <1>6 DEF Fits, Found, Matches
<1>8. Matches(g, q) = {i} /\ Matches(g, p) = Matches(fs, p)
  BY <1>2, <1>3, <1>5, <1>7, FoundAfterAdd DEF Found
<1>9. FindFile(g, q) = i /\ FindFile(g, p) = FindFile(fs, p)
  BY <1>8, FindFacts DEF Found, FindFile
<1>10. /\ i \in Slot /\ i \notin Used(fs)
       /\ g.table[i] = d /\ \A j \in Slot \ {i} : g.table[j] = fs.table[j]
  BY <1>2, <1>5, AddedFacts DEF FreeSlots
<1>11. FindFile(fs, p) \in Slot \ {i}
  BY <1>2, <1>10 DEF Used
<1> QED BY <1>6, <1>9, <1>10, <1>11 DEF g, text

LEMMA MoveIsFound ==
  ASSUME Aged(fs), TreeLike(fs), NEW p \in Path, NEW q \in Path,
         Move(p, q).code = "SUCCESS", KeepsIfMoved(p, q)
  PROVE  LET g == Move(p, q).fs
         IN /\ g.table[FindFile(g, q)] = [fs.table[FindFile(fs, p)] EXCEPT !.name = q]
            /\ ~Found(g, p)
<1> DEFINE i == FindFile(fs, p)
           e == [fs.table[i] EXCEPT !.name = q]
           g == Move(p, q).fs
<1>1. /\ Found(fs, p) /\ ~Found(fs, q)
      /\ g = [fs EXCEPT !.table[i].name = Stored(q)]
  BY DEF Move, MayMoveTo, Fail, Result
<1>2. fs \in FileSystem /\ Plain(q) /\ q \in Name /\ Stored(q) = q
  BY StoredIsName DEF Aged, KeepsIfMoved
<1>3. i \in Matches(fs, p) /\ i \in Used(fs) /\ i \in Slot /\ fs.table[i] \in Entry
  BY <1>1, FindFacts, AgedFacts
<1>4. g = Put(fs, i, e)
  BY <1>1, <1>2 DEF Put
<1>5. DirectoryOf(fs, p) = fs.current_dir_id /\ DirectoryOf(fs, q) = fs.current_dir_id /\ NameSought(q) = q
  BY <1>2 DEF KeepsIfMoved, DirectoryOf, NameSought, Plain, Root
<1>6. fs.table[i].parent_id = fs.current_dir_id /\ fs.table[i].name = NameSought(p)
  BY <1>3, <1>5 DEF Matches
<1>7. NameSought(p) # q
  BY <1>1, <1>3, <1>5, <1>6 DEF Found, Matches
<1>8. Matches(fs, p) = {i}
  BY <1>3, <1>5, <1>6 DEF Matches, TreeLike
<1> HIDE DEF i
<1>9. e \in Entry /\ e.parent_id = fs.table[i].parent_id /\ e.name = q
  BY <1>2, <1>3 DEF Entry
<1> HIDE DEF e, g
<1>10. Fits(fs, e, q) /\ ~Fits(fs, e, p)
  BY <1>5, <1>6, <1>7, <1>9 DEF Fits
<1>11. Matches(g, q) = Matches(fs, q) \cup {i} /\ Matches(g, p) = Matches(fs, p) \ {i}
  BY <1>2, <1>3, <1>4, <1>9, <1>10, FoundAfterPut
<1>12. Matches(g, q) = {i} /\ Matches(g, p) = {}
  BY <1>1, <1>8, <1>11 DEF Found
<1>13. FindFile(g, q) = i /\ ~Found(g, p)
  BY <1>12, FindFacts DEF Found
<1>14. g.table[i] = e
  BY <1>2, <1>3, <1>4, <1>9, PutEntryFacts
<1> QED BY <1>13, <1>14 DEF g, e, i

(* A copy is found under its new path and has left the source as it was;   *)
(* what mv renames is found under the new path only, with its number, so   *)
(* that what is in a directory stays in it.                                *)
THEOREM CopiesAndMovesAreFound == Spec => []CopyAndMoveFaithful
<1>1. TreeInv => CopyAndMoveFaithful
  BY CopyIsFound, MoveIsFound DEF TreeInv, AgedInv, CopyAndMoveFaithful
<1> QED BY <1>1, TreeIsInvariant, PTL

-----------------------------------------------------------------------------
(* The nodes of DirectoryTree that a table stands for.                     *)
NodeOf(e) == [id |-> e.id, parent_id |-> e.parent_id, name |-> e.name, type |-> e.type, content |-> e.content]
NodesOf(f) == { NodeOf(f.table[i]) : i \in Used(f) }

LEMMA NodesAdded ==
  ASSUME NEW f, Aged(f), NEW i \in FreeSlots(f), NEW e \in Entry
  PROVE  NodesOf(Added(f, i, e)) = NodesOf(f) \cup {NodeOf(e)}
<1> DEFINE g == Added(f, i, e)
<1>1. i \in Slot /\ i \notin Used(f) /\ Used(f) \subseteq Slot /\ f \in FileSystem
  BY DEF Aged, FreeSlots, Used
<1>2. /\ g.table[i] = e /\ \A j \in Used(f) : g.table[j] = f.table[j]
      /\ Used(g) = Used(f) \cup {i}
  BY <1>1, AddedFacts
<1> HIDE DEF g
<1> QED BY <1>2 DEF NodesOf, g

LEMMA OtherNodes ==
  ASSUME NEW f, Aged(f), NEW i \in Used(f)
  PROVE  { NodeOf(f.table[j]) : j \in Used(f) \ {i} } = NodesOf(f) \ {NodeOf(f.table[i])}
<1>1. \A j \in Used(f) \ {i} : NodeOf(f.table[j]) # NodeOf(f.table[i])
  BY DEF NodeOf, Aged
<1> QED BY <1>1 DEF NodesOf

LEMMA NodesPut ==
  ASSUME NEW f, Aged(f), NEW i \in Used(f), NEW e \in Entry
  PROVE  NodesOf(Put(f, i, e)) = (NodesOf(f) \ {NodeOf(f.table[i])}) \cup {NodeOf(e)}
<1> DEFINE g == Put(f, i, e)
<1>1. f \in FileSystem /\ Used(f) \subseteq Slot
  BY DEF Aged, Used
<1>2. /\ g.table[i] = e /\ \A j \in Used(f) \ {i} : g.table[j] = f.table[j]
      /\ Used(g) = Used(f)
  BY <1>1, PutEntryFacts
<1> HIDE DEF g
<1>3. NodesOf(g) = { NodeOf(f.table[j]) : j \in Used(f) \ {i} } \cup {NodeOf(e)}
  BY <1>2 DEF NodesOf
<1> QED BY <1>3, OtherNodes DEF g

LEMMA NodesErased ==
  ASSUME NEW f, Aged(f), NEW i \in Used(f)
  PROVE  NodesOf(Put(f, i, Unused)) = NodesOf(f) \ {NodeOf(f.table[i])}
<1> DEFINE g == Put(f, i, Unused)
<1>1. f \in FileSystem /\ i \in Slot /\ Used(f) \subseteq Slot
  BY DEF Aged, Used
<1>2. Used(g) = Used(f) \ {i} /\ \A j \in Used(f) \ {i} : g.table[j] = f.table[j]
  BY <1>1, PutFacts
<1> HIDE DEF g
<1>3. NodesOf(g) = { NodeOf(f.table[j]) : j \in Used(f) \ {i} }
  BY <1>2 DEF NodesOf
<1> QED BY <1>3, OtherNodes DEF g

(* While a slot is free, there are fewer nodes than slots.                 *)
LEMMA RoomForNodes ==
  ASSUME NEW f, FreeSlots(f) # {}
  PROVE  Cardinality(NodesOf(f)) < MaxFiles
<1>1. MaxFiles \in Nat /\ MaxFiles - 1 \in Int /\ Slot = 0 .. MaxFiles - 1
  BY MemFsAssumption DEF Slot
<1>2. IsFiniteSet(Slot) /\ Cardinality(Slot) = MaxFiles
  BY <1>1, FS_Interval
<1>3. Used(f) \subseteq Slot /\ Used(f) # Slot
  BY DEF FreeSlots, Used
<1>4. IsFiniteSet(Used(f)) /\ Cardinality(Used(f)) < MaxFiles /\ Cardinality(Used(f)) \in Nat
  BY <1>2, <1>3, FS_Subset, FS_CardinalityType
<1> DEFINE node == [i \in Used(f) |-> NodeOf(f.table[i])]
<1>5. node \in Surjection(Used(f), NodesOf(f))
  BY DEF NodesOf, Surjection
<1>6. IsFiniteSet(NodesOf(f)) /\ Cardinality(NodesOf(f)) <= Cardinality(Used(f))
  BY <1>4, <1>5, FS_Surjection
<1>7. Cardinality(NodesOf(f)) \in Nat
  BY <1>6, FS_CardinalityType
<1> QED BY <1>1, <1>4, <1>6, <1>7

-----------------------------------------------------------------------------
(* Each change of a tree is an operation of DirectoryTree.                 *)
LEMMA NodesAreNodesOf == Nodes = NodesOf(fs)
BY DEF Nodes, NodesOf, NodeOf

LEMMA ViewOfTree ==
  ASSUME tidy, tidy', TreeInv
  PROVE  /\ (IF tidy THEN Nodes ELSE {}) = NodesOf(fs)
         /\ (IF tidy THEN Nodes ELSE {})' = NodesOf(fs')
         /\ (IF tidy THEN fs.current_dir_id ELSE Root) = fs.current_dir_id
         /\ (IF tidy THEN fs.current_dir_id ELSE Root)' = fs'.current_dir_id
         /\ tidy = TRUE /\ tidy' \in BOOLEAN => tidy' = TRUE
<1>1. (Nodes)' = NodesOf(fs')
  BY DEF Nodes, NodesOf, NodeOf, Used
<1> QED BY <1>1, NodesAreNodesOf DEF TreeInv, AgedInv

LEMMA SameCardinality == ASSUME NEW S PROVE Tree!Cardinality(S) = Cardinality(S)
BY DEF Tree!Cardinality, Cardinality

LEMMA GrownMakes ==
  ASSUME tidy, tidy', TreeInv, TreeInv', Grown(fs, fs')
  PROVE  Tree!Next
<1>0. Aged(fs) /\ tidy = TRUE /\ tidy' = TRUE
  BY DEF TreeInv, AgedInv
<1>1. PICK i \in FreeSlots(fs), e \in Entry :
        /\ fs' = Added(fs, i, e) /\ e.id = fs.next_file_id
        /\ e.parent_id = fs.current_dir_id /\ NameIsNew(fs, fs.current_dir_id, e.name)
  BY DEF Grown
<1> DEFINE n == NodeOf(e)
<1>2. NodesOf(fs') = NodesOf(fs) \cup {n}
  BY <1>0, <1>1, NodesAdded
<1>3. n.id = fs.next_file_id /\ n.parent_id = fs.current_dir_id /\ n.name = e.name
  BY <1>1 DEF NodeOf
<1>4. fs'.current_dir_id = fs.current_dir_id
  BY <1>0, <1>1, AddedFacts DEF Aged, FreeSlots
<1>5. \A m \in NodesOf(fs) : m.id # n.id
  <2>1. \A j \in Used(fs) : fs.table[j].id # fs.next_file_id
    BY <1>0, AgedFacts
  <2> QED BY <1>3, <2>1 DEF NodesOf, NodeOf
<1>6. \A m \in NodesOf(fs) : m.parent_id = fs.current_dir_id => m.name # n.name
  BY <1>1, <1>3 DEF NodesOf, NodeOf, NameIsNew
<1>7. Cardinality(NodesOf(fs)) < MaxFiles
  BY <1>1, RoomForNodes
<1> HIDE DEF n
<1>8. Tree!Make(n)
  BY <1>0, <1>2, <1>3, <1>4, <1>5, <1>6, <1>7, ViewOfTree, SameCardinality DEF Tree!Make, Tree!Children
<1>9. n \in (IF tidy THEN Nodes ELSE {})'
  BY <1>0, <1>2, ViewOfTree
<1> QED BY <1>0, <1>8, <1>9 DEF Tree!Next

LEMMA PutKeepsPlace ==
  ASSUME Aged(fs), NEW i \in Used(fs), NEW e \in Entry \cup {Unused}, fs' = Put(fs, i, e)
  PROVE  fs'.current_dir_id = fs.current_dir_id
<1>1. i \in Slot /\ fs \in FileSystem
  BY DEF Aged, Used
<1> QED BY <1>1, PutFacts

LEMMA FilledFills ==
  ASSUME tidy, tidy', TreeInv, TreeInv', Filled(fs, fs')
  PROVE  Tree!Next
<1>0. Aged(fs) /\ tidy = TRUE /\ tidy' = TRUE
  BY DEF TreeInv, AgedInv
<1>1. PICK i \in Used(fs), text \in Texts : fs' = Put(fs, i, [fs.table[i] EXCEPT !.content = text])
  BY DEF Filled
<1> DEFINE e == [fs.table[i] EXCEPT !.content = text]
           n == NodeOf(fs.table[i])
<1>2. e \in Entry /\ NodeOf(e) = [n EXCEPT !.content = text]
  <2>1. /\ e \in Entry /\ e.id = fs.table[i].id /\ e.parent_id = fs.table[i].parent_id
        /\ e.type = fs.table[i].type /\ e.name = fs.table[i].name /\ e.content = text
    BY <1>0, <1>1, AgedFacts DEF Entry
  <2> HIDE DEF e
  <2> QED BY <2>1 DEF NodeOf
<1> HIDE DEF e
<1>3. NodesOf(fs') = (NodesOf(fs) \ {n}) \cup {[n EXCEPT !.content = text]}
  BY <1>0, <1>1, <1>2, NodesPut DEF e
<1>4. fs'.current_dir_id = fs.current_dir_id
  BY <1>0, <1>1, <1>2, PutKeepsPlace DEF e
<1>5. n \in NodesOf(fs)
  BY <1>1 DEF NodesOf
<1> HIDE DEF n
<1>6. Tree!Fill(n, text)
  BY <1>0, <1>3, <1>4, ViewOfTree DEF Tree!Fill
<1>7. n \in (IF tidy THEN Nodes ELSE {})
  BY <1>0, <1>5, ViewOfTree
<1> QED BY <1>0, <1>1, <1>6, <1>7 DEF Tree!Next

LEMMA RenamedRenames ==
  ASSUME tidy, tidy', TreeInv, TreeInv', Renamed(fs, fs')
  PROVE  Tree!Next
<1>0. Aged(fs) /\ tidy = TRUE /\ tidy' = TRUE
  BY DEF TreeInv, AgedInv
<1>1. PICK i \in Used(fs), name \in Name : /\ fs' = Put(fs, i, [fs.table[i] EXCEPT !.name = name])
                                           /\ NameIsNew(fs, fs.table[i].parent_id, name)
  BY DEF Renamed
<1> DEFINE e == [fs.table[i] EXCEPT !.name = name]
           n == NodeOf(fs.table[i])
<1>2. e \in Entry /\ NodeOf(e) = [n EXCEPT !.name = name] /\ n.parent_id = fs.table[i].parent_id
  <2>1. /\ e \in Entry /\ e.id = fs.table[i].id /\ e.parent_id = fs.table[i].parent_id
        /\ e.type = fs.table[i].type /\ e.content = fs.table[i].content /\ e.name = name
    BY <1>0, <1>1, AgedFacts DEF Entry
  <2> HIDE DEF e
  <2> QED BY <2>1 DEF NodeOf
<1> HIDE DEF e
<1>3. NodesOf(fs') = (NodesOf(fs) \ {n}) \cup {[n EXCEPT !.name = name]}
  BY <1>0, <1>1, <1>2, NodesPut DEF e
<1>4. fs'.current_dir_id = fs.current_dir_id
  BY <1>0, <1>1, <1>2, PutKeepsPlace DEF e
<1>5. n \in NodesOf(fs) /\ \A m \in NodesOf(fs) : m.parent_id = n.parent_id => m.name # name
  BY <1>1, <1>2 DEF NodesOf, NodeOf, NameIsNew
<1> HIDE DEF n
<1>6. Tree!Rename(n, name)
  BY <1>0, <1>3, <1>4, <1>5, ViewOfTree DEF Tree!Rename, Tree!Children
<1>7. n \in (IF tidy THEN Nodes ELSE {})
  BY <1>0, <1>5, ViewOfTree
<1> QED BY <1>0, <1>1, <1>6, <1>7 DEF Tree!Next

LEMMA RemovedRemoves ==
  ASSUME tidy, tidy', TreeInv, TreeInv', Removed(fs, fs')
  PROVE  Tree!Next
<1>0. Aged(fs) /\ tidy = TRUE /\ tidy' = TRUE
  BY DEF TreeInv, AgedInv
<1>1. PICK i \in Used(fs) : /\ fs' = Put(fs, i, Unused)
                            /\ fs.table[i].id # fs.current_dir_id
                            /\ \A j \in Used(fs) : fs.table[j].parent_id # fs.table[i].id
  BY DEF Removed
<1> DEFINE n == NodeOf(fs.table[i])
<1>2. NodesOf(fs') = NodesOf(fs) \ {n}
  BY <1>0, <1>1, NodesErased
<1>3. fs'.current_dir_id = fs.current_dir_id
  BY <1>0, <1>1, PutKeepsPlace
<1>4. /\ n \in NodesOf(fs) /\ n.id # fs.current_dir_id
      /\ \A m \in NodesOf(fs) : m.parent_id # n.id
  BY <1>1 DEF NodesOf, NodeOf
<1> HIDE DEF n
<1>5. Tree!Remove(n)
  BY <1>0, <1>2, <1>3, <1>4, ViewOfTree DEF Tree!Remove, Tree!Children
<1>6. n \in (IF tidy THEN Nodes ELSE {})
  BY <1>0, <1>4, ViewOfTree
<1> QED BY <1>0, <1>5, <1>6 DEF Tree!Next

LEMMA EnteredEnters ==
  ASSUME tidy, tidy', TreeInv, TreeInv', Entered(fs, fs')
  PROVE  Tree!Next
<1>0. Aged(fs) /\ tidy = TRUE /\ tidy' = TRUE
  BY DEF TreeInv, AgedInv
<1>1. PICK d \in Dirs(fs) :
        /\ fs' = [fs EXCEPT !.current_dir_id = d]
        /\ \/ d = Root
           \/ \E i \in Used(fs) : \/ /\ fs.table[i].type = "dir" /\ fs.table[i].id = d
                                     /\ fs.table[i].parent_id \in {fs.current_dir_id, Root}
                                  \/ fs.table[i].id = fs.current_dir_id /\ fs.table[i].parent_id = d
  BY DEF Entered
<1>2. fs'.table = fs.table /\ fs'.current_dir_id = d
  BY <1>0, <1>1 DEF Aged, FileSystem
<1>3. NodesOf(fs') = NodesOf(fs)
  BY <1>2 DEF NodesOf, Used
<1> DEFINE N == NodesOf(fs)
<1>4. d \in { n.id : n \in { m \in N : m.type = "dir" } } \cup {0}
  <2>1. CASE d = Root
    BY <2>1 DEF Root
  <2>2. CASE d # Root
    <3>1. PICK i \in Used(fs) : fs.table[i].type = "dir" /\ fs.table[i].id = d
      BY <2>2 DEF Dirs
    <3> DEFINE n == NodeOf(fs.table[i])
    <3>2. n \in N /\ n.type = "dir" /\ n.id = d
      BY <3>1 DEF NodesOf, NodeOf
    <3> HIDE DEF n, N
    <3> QED BY <3>2
  <2> QED BY <2>1, <2>2
<1>5. \/ d = 0
      \/ \E n \in { m \in N : m.parent_id = fs.current_dir_id } \cup { m \in N : m.parent_id = 0 } :
           n.type = "dir" /\ n.id = d
      \/ \E n \in N : n.id = fs.current_dir_id /\ n.parent_id = d
  <2>1. \A i \in Used(fs) : /\ NodeOf(fs.table[i]) \in N
                            /\ NodeOf(fs.table[i]).id = fs.table[i].id
                            /\ NodeOf(fs.table[i]).type = fs.table[i].type
                            /\ NodeOf(fs.table[i]).parent_id = fs.table[i].parent_id
    BY DEF NodesOf, NodeOf
  <2> HIDE DEF N
  <2> QED BY <1>1, <2>1 DEF Root
<1> HIDE DEF N
<1>6. Tree!Enter(d)
  BY <1>0, <1>2, <1>3, <1>5, ViewOfTree DEF Tree!Enter, Tree!Children, N
<1>7. d \in Tree!Directories
  BY <1>0, <1>4, ViewOfTree DEF Tree!Directories, N
<1> QED BY <1>0, <1>6, <1>7 DEF Tree!Next

LEMMA SameTree ==
  ASSUME tidy, tidy', TreeInv, TreeInv', fs' = fs
  PROVE  UNCHANGED Tree!vars
<1>1. tidy = TRUE /\ tidy' = TRUE
  BY DEF TreeInv, AgedInv
<1> QED BY <1>1, ViewOfTree DEF Tree!vars

LEMMA StepOfTree ==
  ASSUME TreeInv, TreeInv', [Next]_vars
  PROVE  [Tree!Next]_(Tree!vars)
<1>1. CASE UNCHANGED vars
  <2>1. UNCHANGED Tree!vars
    BY <1>1 DEF Tree!vars, vars, Nodes, Used
  <2> QED BY <2>1
<1>2. CASE Next /\ tidy'
  <2>1. tidy /\ Change(fs, fs')
    BY <1>2, StepChanges
  <2> QED BY <1>2, <2>1, GrownMakes, FilledFills, RenamedRenames, RemovedRemoves, EnteredEnters, SameTree
          DEF Change
<1>3. CASE ~tidy'
  <2>1. tidy \in BOOLEAN /\ tidy' = FALSE
    BY <1>3 DEF TreeInv, AgedInv
  <2>2. CASE tidy
    <3>1. Tree!Collapse
      BY <2>1, <2>2 DEF Tree!Collapse, Root
    <3> QED BY <2>1, <2>2, <3>1 DEF Tree!Next
  <2>3. CASE ~tidy
    <3>1. UNCHANGED Tree!vars
      BY <2>1, <2>3 DEF Tree!vars, Root
    <3> QED BY <3>1
  <2> QED BY <2>2, <2>3
<1> QED BY <1>1, <1>2, <1>3

LEMMA InitOfTree == Init => Tree!Init
<1> SUFFICES ASSUME Init PROVE Tree!Init
  OBVIOUS
<1> DEFINE dir == [in_use |-> TRUE, name |-> <<0, Bin>>, type |-> "dir", id |-> 1, parent_id |-> Root,
                   content |-> Empty]
           file == [dir EXCEPT !.name = <<0, HelloTxt>>, !.type = "file", !.id = 2, !.content = Hello]
<1>1. /\ fs = [table |-> [i \in Slot |-> IF i = 0 THEN dir ELSE IF i = 1 THEN file ELSE Unused],
               current_dir_id |-> Root, next_file_id |-> 3]
      /\ tidy = TRUE
  BY DEF Init
<1>2. dir.in_use /\ file.in_use /\ FirstNodes = {NodeOf(dir), NodeOf(file)}
  BY DEF FirstNodes, NodeOf
<1> HIDE DEF dir, file
<1>3. /\ fs.current_dir_id = Root /\ fs.table[0] = dir /\ fs.table[1] = file
      /\ \A i \in Slot \ {0, 1} : fs.table[i] = Unused
  BY <1>1, SlotFacts
<1>4. Used(fs) = {0, 1}
  <2>1. \A i \in Slot : fs.table[i].in_use <=> i \in {0, 1}
    BY <1>2, <1>3 DEF Unused
  <2> QED BY <2>1, SlotFacts DEF Used
<1>5. Nodes = FirstNodes
  BY <1>2, <1>3, <1>4, NodesAreNodesOf DEF NodesOf
<1> QED BY <1>1, <1>3, <1>5 DEF Tree!Init, Root

(* The table of entries is a tree of directories until a command leaves    *)
(* the tree: what each command of the shell does to one slot is one        *)
(* operation of DirectoryTree, or none.                                    *)
THEOREM TableIsATree == Spec => ImplementsDirectoryTree
<1>1. TreeInv /\ TreeInv' /\ [Next]_vars => [Tree!Next]_(Tree!vars)
  BY StepOfTree
<1> QED BY <1>1, InitOfTree, TreeIsInvariant, PTL DEF Spec, ImplementsDirectoryTree, Tree!Spec
=============================================================================
