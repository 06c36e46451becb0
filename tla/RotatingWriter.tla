--------------------------- MODULE RotatingWriter ---------------------------
(***************************************************************************)
(* The log writer (pkg/logger/rotating_writer.go) over a file system.      *)
(* File 0 is the one being written, files 1, 2, ... are older and older.   *)
(* The mutex makes a Write one piece for the other goroutines, but not for *)
(* the process, which may end between any two system calls, and not for    *)
(* the file system, any call of which may fail.  A failed call is answered *)
(* with an error, after which the log entry is gone: the logger does not   *)
(* try again.                                                              *)
(*                                                                         *)
(*   idle -> remove -> shift (from MaxFiles-1 down to 1) -> current         *)
(*     ^                                                       |           *)
(*     +------------------- put <- create <--------------------+           *)
(***************************************************************************)
EXTENDS Integers, Sequences, FiniteSetsExt

CONSTANTS MaxSize,      \* size at which the file is rotated, 0 for never
          Configs,      \* the configurations: [maxFiles, clearOnStart], with the
                        \* failures, system calls and "exit", each is checked under
          Lengths,      \* the lengths of log entries
          MaxEntries    \* bound on the entries

AllFailures == {"remove", "shift", "current", "create", "write", "exit"}

ASSUME RotatingWriterAssumption ==
    /\ MaxSize \in Nat /\ MaxEntries \in Nat
    /\ Configs \subseteq [maxFiles : Nat, clearOnStart : BOOLEAN,
                         failures : SUBSET AllFailures]
    /\ Lengths \subseteq Nat \ {0}

VARIABLES config,       \* the configuration, the same for every process
          disk,         \* file -> what is in it, or Absent
          handle,       \* "open", "closed", or "down" while no process runs
          size,         \* currentSize
          step,         \* where Write or RotateNow is
          index,        \* the i of rotate's loop
          entry,        \* the entry being written, or None (RotateNow)
          count,        \* entries so far
          written       \* history: the entries whose Write has succeeded

vars == <<config, disk, handle, size, step, index, entry, count, written>>

MaxFiles == config.maxFiles
ClearOnStart == config.clearOnStart
Slots == 0..Max({1, MaxFiles})
Entries == [id : 1..MaxEntries, len : Nat]
None == [id |-> 0, len |-> 0]

(* A file is the sequence of the entries in it, each with the position at  *)
(* which it ends.                                                          *)
Lines == [id : 1..MaxEntries, end : Nat]
Absent == << [id |-> 0, end |-> 0] >>

Fails(call) == call \in config.failures
SizeOf(file) == IF file = << >> THEN 0 ELSE file[Len(file)].end
Grown(file, n) == Append(file, [id |-> entry.id, end |-> SizeOf(file) + n])

TypeOK ==
    /\ config \in Configs
    /\ disk \in [Slots -> Seq(Lines) \union {Absent}]
    /\ handle \in {"open", "closed", "down"}
    /\ size \in Nat
    /\ step \in {"idle", "remove", "shift", "current", "create", "put"}
    /\ index \in 0..MaxFiles
    /\ entry \in Entries \union {None}
    /\ count \in 0..MaxEntries
    /\ written \subseteq 1..MaxEntries

Init ==
    /\ config \in Configs
    /\ disk = [f \in Slots |-> Absent]
    /\ handle = "down"
    /\ size = 0 /\ step = "idle" /\ index = 0 /\ entry = None /\ count = 0
    /\ written = {}

-----------------------------------------------------------------------------
(* Mutant: the size of the file that is there is not looked up. *)
StartAtZero ==
    /\ handle = "down"
    /\ LET old == IF disk[0] = Absent \/ ClearOnStart THEN << >> ELSE disk[0]
       IN disk' = [disk EXCEPT ![0] = old]
    /\ size' = 0
    /\ handle' = "open"
    /\ UNCHANGED <<config, step, index, entry, count, written>>

(* NewRotatingWriter. *)
Start ==
    /\ handle = "down"
    /\ LET old == IF disk[0] = Absent \/ ClearOnStart THEN << >> ELSE disk[0]
       IN /\ disk' = [disk EXCEPT ![0] = old]
          /\ size' = SizeOf(old)
    /\ handle' = "open"
    /\ UNCHANGED <<config, step, index, entry, count, written>>

(* The process dies, or closes the writer and exits. *)
Exit ==
    /\ Fails("exit") /\ handle # "down"
    /\ handle' = "down"
    /\ step' = "idle" /\ entry' = None
    /\ UNCHANGED <<config, disk, size, index, count, written>>

(* rotate up to its loop: closing the file fails if it is closed already,  *)
(* that is, after a rotation that failed.                                  *)
BeginRotation ==
    IF handle = "open"
    THEN /\ handle' = "closed"
         /\ step' = IF MaxFiles > 1 THEN "remove" ELSE "current"
         /\ index' = IF MaxFiles > 1 THEN MaxFiles - 1 ELSE 0
    ELSE UNCHANGED <<handle, step, index>>

Write(n) ==
    /\ handle # "down" /\ step = "idle" /\ count < MaxEntries
    /\ count' = count + 1
    /\ entry' = [id |-> count + 1, len |-> n]
    /\ IF MaxSize > 0 /\ size + n > MaxSize
       THEN BeginRotation
       ELSE step' = "put" /\ UNCHANGED <<handle, index>>
    /\ UNCHANGED <<config, disk, size, written>>

RotateNow ==
    /\ handle # "down" /\ step = "idle"
    /\ entry' = None
    /\ BeginRotation
    /\ UNCHANGED <<config, disk, size, count, written>>

Rename(old, new) ==
    disk' = IF disk[old] = Absent
            THEN disk
            ELSE [disk EXCEPT ![new] = disk[old], ![old] = Absent]

(* The error of a system call ends rotate, and with it Write. *)
GiveUp == step' = "idle" /\ UNCHANGED disk

RemoveOldest ==
    /\ step = "remove"
    /\ \/ disk' = [disk EXCEPT ![MaxFiles] = Absent] /\ step' = "shift"
       \/ Fails("remove") /\ disk[MaxFiles] # Absent /\ GiveUp
    /\ UNCHANGED <<config, handle, size, index, entry, count, written>>

(* Mutant: the loop goes on to the current file. *)
ShiftToZero ==
    /\ step = "shift"
    /\ Rename(index, index + 1) \/ (Fails("shift") /\ UNCHANGED disk)
    /\ index' = index - 1
    /\ step' = IF index = 0 THEN "current" ELSE "shift"
    /\ UNCHANGED <<config, handle, size, entry, count, written>>

(* One turn of the loop; an error is passed over. *)
Shift ==
    /\ step = "shift"
    /\ Rename(index, index + 1) \/ (Fails("shift") /\ UNCHANGED disk)
    /\ index' = index - 1
    /\ step' = IF index = 1 THEN "current" ELSE "shift"
    /\ UNCHANGED <<config, handle, size, entry, count, written>>

(* Mutants: an error is passed over, too; a file that could not be shifted *)
(* is spared.                                                              *)
ShiftCurrentAnyway ==
    /\ step = "current"
    /\ Rename(0, 1) \/ (Fails("current") /\ UNCHANGED disk)
    /\ step' = "create"
    /\ UNCHANGED <<config, handle, size, index, entry, count, written>>

ShiftCurrentToFree ==
    /\ step = "current"
    /\ \/ Rename(0, Min({Max(Slots)} \union {f \in Slots \ {0} : disk[f] = Absent}))
          /\ step' = "create"
       \/ Fails("current") /\ disk[0] # Absent /\ GiveUp
    /\ UNCHANGED <<config, handle, size, index, entry, count, written>>

ShiftCurrent ==
    /\ step = "current"
    /\ \/ Rename(0, 1) /\ step' = "create"
       \/ Fails("current") /\ disk[0] # Absent /\ GiveUp
    /\ UNCHANGED <<config, handle, size, index, entry, count, written>>

CreateNew ==
    /\ step = "create"
    /\ \/ /\ disk' = [disk EXCEPT ![0] = << >>]
          /\ handle' = "open" /\ size' = 0
          /\ step' = IF entry = None THEN "idle" ELSE "put"
       \/ Fails("create") /\ GiveUp /\ UNCHANGED <<handle, size>>
    /\ UNCHANGED <<config, index, entry, count, written>>

(* file.Write: all, or an error, possibly after a part that is not counted. *)
Put ==
    /\ step = "put"
    /\ step' = "idle"
    /\ \/ /\ handle = "open"
          /\ disk' = [disk EXCEPT ![0] = Grown(@, entry.len)]
          /\ size' = size + entry.len
          /\ written' = written \union {entry.id}
       \/ /\ Fails("write") /\ handle = "open"
          /\ \E n \in 1..(entry.len - 1) : disk' = [disk EXCEPT ![0] = Grown(@, n)]
          /\ UNCHANGED <<size, written>>
       \/ /\ Fails("write") \/ handle = "closed"
          /\ UNCHANGED <<disk, size, written>>
    /\ UNCHANGED <<config, handle, index, entry, count>>

Next ==
    \/ Start \/ Exit
    \/ \E n \in Lengths : Write(n)
    \/ RotateNow
    \/ RemoveOldest \/ Shift \/ ShiftCurrent \/ CreateNew \/ Put

Spec == Init /\ [][Next]_vars

-----------------------------------------------------------------------------
Present == {f \in Slots : disk[f] # Absent}
IdsIn(f) == {disk[f][i].id : i \in DOMAIN disk[f]}
Kept == UNION {IdsIn(f) : f \in Present}

(* Whoever reads the files from the oldest to the newest reads the log in  *)
(* its order, whatever call failed and wherever the process ended.         *)
FilesAreInOrder ==
    \A f, g \in Present :
        f > g => \A i \in IdsIn(f), j \in IdsIn(g) : i < j

(* Only the oldest entries are ever given up: nothing is missing in the    *)
(* middle or at the end of the log, wherever the process ended in a        *)
(* rotation (unless a rename of an old file failed, which rotate passes    *)
(* over, or the file is cleared on start).                                 *)
OnlyOldestAreLost ==
    ~Fails("shift") /\ ~ClearOnStart =>
        \A i \in Kept, j \in written : i < j => j \in Kept

(* No file grows beyond the limit, across restarts, unless a single entry  *)
(* is larger than it (or a failed write left a part that is not counted).  *)
FilesWithinLimit ==
    MaxSize > 0 /\ ~Fails("write") =>
        \A f \in Present : SizeOf(disk[f]) <= MaxSize \/ Len(disk[f]) = 1
==============================================================================
