---------------------------- MODULE SimpleFsDisk ----------------------------
(***************************************************************************)
(* SimpleFS with its copy on an ATA drive: fs_save_to_disk writes the      *)
(* superblock, the FAT, the directory and the allocated data blocks one    *)
(* after the other, and fs_init_disk, called when the kernel boots, reads  *)
(* them in the same order into memory that fs_init has formatted.          *)
(*                                                                         *)
(* A block is 8 sectors, each transferred by itself, and a transfer stops  *)
(* at any of them, by an error of the drive or because the power fails: in *)
(* the FAT between two entries, in the directory between two entries or in *)
(* the name of one, and in a data block anywhere.  The fields of the       *)
(* superblock are in its first sector.                                     *)
(***************************************************************************)
EXTENDS SimpleFs, TLC

CONSTANTS MaxSaves,    (* bound of the model: saves and boots              *)
          MaxUnnamed,  (* bound of the model: files without a name         *)
          Positions, DrivePositions (* bound of the model: positions of    *)
                       (* descriptors, without and with a drive            *)

ASSUME DiskAssumption ==
  {MaxSaves, MaxUnnamed} \cup Positions \cup DrivePositions \subseteq Nat

VARIABLES drive,     (* whether ata_detect_drives finds one                *)
          disk,      (* the blocks on it                                   *)
          fs_disk_enabled,
          saves,     (* saves and boots so far                             *)
          history,   (* whether the blocks in memory are a later state of  *)
                     (* those on the drive ("one"), or not ("two"), or the *)
                     (* drive has a mixture of two file systems ("mixed")  *)
          torn,      (* where the FAT or an entry of the directory is half *)
                     (* of one state and half of another                   *)
          saved      (* the files of the last save, if it was complete     *)

diskVars == <<drive, disk, fs_disk_enabled, saves, history, torn, saved>>
vars == <<mem, fd_table, overrun, unnamed, exact, diskVars>>

BlankDisk == [Formatted EXCEPT !.magic = FALSE, !.free_blocks = 0]

\* Blocks 0, 1 and 2 are the superblock, the FAT and the directory.  Of the
\* blocks the model does not have, those are copied whose entry in the FAT
\* holds, at the place of allocated, a byte of the directory that is not 0.
Allocated(m) == DataBlock \ FreeBlocks(m)
Copied(m) ==
  0 .. 2 \cup Allocated(m) \cup IF m.root_dir = <<>> THEN {} ELSE FatEntries .. MaxBlocks - 1

\* Where copying from over to stops: in a block, after so much of it, and in
\* the directory maybe after a piece of the next entry, its name.
Piece == [name : Names, first_block : {0}, size : {0}, type : {"file"}]
Stops(from, to) ==
  [block : Copied(from) \cup {MaxBlocks}, part : {0}, piece : {<<>>}]
    \cup [block : {1}, part : DataBlock, piece : {<<>>}]
    \cup [block : {2}, part : Entries(from), piece : {<<>>}]
    \cup [block : {2}, part : { k \in 0 .. Len(from.root_dir) - 1 : k >= Len(to.root_dir) },
          piece : { <<e>> : e \in Piece }]
    \cup [block : Allocated(from), part : Offset, piece : {<<>>}]

\* A block is copied.
Passed_DirFirst(stop, b) == stop.block > (CASE b = 1 -> 2 [] b = 2 -> 1 [] OTHER -> b)
Passed_NotTheLast(stop, b) == stop.block > b /\ b < FatEntries - 1
Passed(stop, b) == stop.block > b

\* The part of a block before element i, when the transfer stops there.
PartPassed(stop, b, i) == Passed(stop, b) \/ (stop.block = b /\ i < stop.part)

\* fs_write_block_to_disk and fs_read_block_from_disk, up to a stop.
CopyBlocks(from, to, stop) ==
  LET newer == IF Passed(stop, 2) THEN Len(from.root_dir)
               ELSE IF stop.block = 2 THEN stop.part ELSE 0
      older == IF Passed(stop, 2) THEN <<>> ELSE SubSeq(to.root_dir, newer + 1, Len(to.root_dir))
  IN [magic |-> IF Passed(stop, 0) THEN from.magic ELSE to.magic,
      free_blocks |-> IF Passed(stop, 0) THEN from.free_blocks ELSE to.free_blocks,
      fat |-> [b \in DataBlock |-> IF PartPassed(stop, 1, b) THEN from.fat[b] ELSE to.fat[b]],
      root_dir |-> SubSeq(from.root_dir, 1, newer) \o older \o stop.piece,
      data |-> [b \in DataBlock |-> [o \in Offset |->
                  IF b \in Allocated(from) /\ PartPassed(stop, b, o) THEN from.data[b][o] ELSE to.data[b][o]]]]

Complete(stop) == stop.block = MaxBlocks

\* The files of m with the bytes of all their blocks.
BytesOf(m, first) ==
  LET way == Walk(m, first)
  IN [k \in 0 .. MaxBlocks |-> IF way[k] \in DataBlock THEN m.data[way[k]] ELSE <<>>]
FilesOf(m) == { [name |-> m.root_dir[i].name, size |-> m.root_dir[i].size, type |-> m.root_dir[i].type,
                 bytes |-> BytesOf(m, m.root_dir[i].first_block)] : i \in Entries(m) }

-----------------------------------------------------------------------------
Init ==
  /\ FsInit
  /\ drive \in BOOLEAN
  /\ disk = BlankDisk
  /\ fs_disk_enabled = FALSE
  /\ saves = 0
  /\ history = "one"
  /\ torn = {}
  /\ saved = [complete |-> FALSE, files |-> {}]

\* fs_set_disk_mode(1); a boot sets it to 0 again.
SetDiskMode == /\ drive /\ ~fs_disk_enabled
               /\ fs_disk_enabled' = TRUE
               /\ UNCHANGED <<mem, fd_table, overrun, unnamed, exact, drive, disk, saves, history, torn, saved>>

\* fs_save_to_disk, which stops there.
Save(stop) ==
  LET tears == disk'.fat \notin {disk.fat, mem.fat} \/ stop.piece # <<>>
  IN /\ drive /\ fs_disk_enabled
     /\ disk' = CopyBlocks(mem, disk, stop)
     /\ saved' = [complete |-> Complete(stop), files |-> IF Complete(stop) THEN FilesOf(mem) ELSE {}]
     /\ history' = IF Complete(stop) THEN "one"
                   ELSE IF history = "two" /\ (stop.block > 0 \/ stop.part > 0) THEN "mixed" ELSE history
     /\ torn' = IF Passed(stop, 2) THEN torn \ {"drive"}
                ELSE IF tears THEN torn \cup {"drive"} ELSE torn
     /\ saves' = saves + 1
     /\ UNCHANGED <<mem, fd_table, overrun, unnamed, exact, drive, fs_disk_enabled>>

\* fs_load_from_disk, which stops there, at the latest at a magic number that
\* is wrong.
Loaded(stop) == CopyBlocks(disk, Formatted, stop)
MayLoad(stop) == disk.magic \/ stop.block = 0 \/ (stop.block = 1 /\ stop.part = 0)
LoadSucceeds(stop) == disk.magic /\ Complete(stop)

\* The power fails and the kernel boots: fs_init, then fs_init_disk.  When
\* nothing can be loaded, fs_format_disk finds a file system in memory and
\* calls fs_save_to_disk, which refuses: nobody has enabled the drive yet.
Boot(stop) ==
  LET tears == stop.piece # <<>> \/ ("drive" \in torn /\ mem'.root_dir # <<>>)
  IN /\ drive /\ MayLoad(stop)
     /\ mem' = Loaded(stop)
     /\ fd_table' = [d \in Fd |-> Closed]
     /\ overrun' = FALSE
     /\ unnamed' = {}
     /\ exact' = FALSE
     /\ fs_disk_enabled' = LoadSucceeds(stop)
     /\ history' = IF LoadSucceeds(stop) \/ disk = BlankDisk THEN "one" ELSE "two"
     /\ torn' = IF tears THEN torn \cup {"memory"} ELSE torn \ {"memory"}
     /\ saves' = saves + 1
     /\ UNCHANGED <<drive, disk, saved>>

\* Bounds of the model: with a drive there are no directories, all files have
\* a name, one file is open at a time, to be written, and the blocks of the
\* model last; next to a file without a name one other is open.
FewFiles ==
  IF drive
  THEN /\ unnamed = {} /\ ~overrun
       /\ Cardinality(OpenFds) <= 1
       /\ \A d \in OpenFds : "write" \in fd_table[d].mode /\ fd_table[d].position \in DrivePositions
       /\ \A i \in Entries(mem) : mem.root_dir[i].type = "file"
  ELSE /\ Cardinality(unnamed) <= MaxUnnamed
       /\ unnamed # {} => Cardinality(OpenFds) <= 1
       /\ \A d \in OpenFds : fd_table[d].position \in Positions

\* What is done to half an entry or a torn FAT, or when the blocks of the model
\* were not enough, is not modelled, but for a boot.
Usable == ~overrun /\ "memory" \notin torn

Next ==
  /\ history # "mixed"
  /\ \/ /\ Usable
        /\ FileOperation
        /\ UNCHANGED diskVars
        /\ FewFiles'
     \/ SetDiskMode
     \/ /\ saves < MaxSaves
        /\ \/ Usable /\ \E stop \in Stops(mem, disk) : Save(stop)
           \/ \E stop \in Stops(disk, Formatted) : Boot(stop)

Spec == Init /\ [][Next]_vars

-----------------------------------------------------------------------------
TypeOK ==
  /\ {mem, disk} \subseteq Blocks
  /\ fd_table \in [Fd -> Descriptor \cup {Closed}]
  /\ unnamed \subseteq DataBlock
  /\ {overrun, exact, drive, fs_disk_enabled} \subseteq BOOLEAN
  /\ saves \in Nat /\ history \in {"one", "two", "mixed"}
  /\ torn \subseteq {"memory", "drive"}
  /\ saved.complete \in BOOLEAN

(* In memory no two chains meet, whatever was loaded and wherever loading  *)
(* stopped, in the FAT, the directory or an entry; and all of them end,    *)
(* unless the last entry is half a one or the drive was torn.              *)
(* (fs_load_from_disk, fs_read_block_from_disk, fs_alloc_block)            *)
MemorySound ==
  /\ TypeOK
  /\ ~overrun => ChainsApartIn(mem) /\ ("memory" \notin torn => ChainsEndIn(mem))

(* On the drive no two chains meet after any saves, complete or stopped in *)
(* any sector, of a later state of the file system that is there: chains   *)
(* only grow.  All of them end unless a save stopped between two entries   *)
(* of the FAT or in an entry, since the FAT is saved before the directory. *)
(* A save that replaces another file system must not stop.                 *)
(* (fs_save_to_disk, fs_write_block_to_disk)                               *)
DriveSound ==
  history # "mixed" /\ disk.magic =>
    ChainsApartIn(disk) /\ ("drive" \notin torn => ChainsEndIn(disk))

(* Until something is loaded, every allocated block is in the chain of a   *)
(* file or was given to a file without a name, and the counter of free     *)
(* blocks has gone down by as many: no failed call of create, open or      *)
(* write loses another one.  (The counter has blocks from FatEntries on as *)
(* free, even when bytes of the directory make them look taken.)           *)
(* (fs_create, fs_open, fs_alloc_block, fs_free_block)                     *)
NoBlockLost ==
  saves = 0 /\ ~overrun =>
    /\ mem.free_blocks + Cardinality(Allocated(mem)) = MaxBlocks - 3
    /\ \A b \in Allocated(mem) \ unnamed :
         \E i \in Entries(mem) : b \in Chain(mem, mem.root_dir[i].first_block)

(* What a boot loads is what the last save wrote, if that was complete:    *)
(* every file with its size and the bytes of all its blocks.               *)
LoadBringsBackTheSave ==
  [][saved.complete =>
       \A stop \in Stops(disk, Formatted) :
         LoadSucceeds(stop) /\ Boot(stop) => FilesOf(mem') = saved.files]_vars
=============================================================================
