------------------------ MODULE RotatingWriter_proofs -----------------------
(***************************************************************************)
(* Proofs about RotatingWriter, for every configuration, every length of   *)
(* the log and every choice of the calls that fail: the files hold the log *)
(* in its order, and where neither a shift fails nor the file is cleared   *)
(* on start only the oldest entries are ever given up.                     *)
(***************************************************************************)
EXTENDS RotatingWriter, TLAPS

Ids(file) == {file[i].id : i \in DOMAIN file}
Rotating == {"remove", "shift", "current", "create"}

(* The variables that the order of the log depends on.  The size does not  *)
(* matter for it: whenever the file is rotated, nothing gets out of order. *)
WriterTypeOK ==
    /\ config \in Configs
    /\ disk \in [Slots -> Seq(Lines) \union {Absent}]
    /\ handle \in {"open", "closed", "down"}
    /\ step \in {"idle", "put"} \union Rotating
    /\ index \in 0..MaxFiles
    /\ entry \in Entries \union {None}
    /\ count \in 0..MaxEntries
    /\ written \subseteq 1..count

(* Where Write or RotateNow is, the file is: while the files are rotated   *)
(* none is open, and the place to rename the next one to is free, unless   *)
(* a shift has failed.                                                     *)
StepInv ==
    /\ handle = "down" => step = "idle"
    /\ handle = "open" => disk[0] # Absent
    /\ step \in Rotating => handle = "closed"
    /\ step = "remove" => MaxFiles > 1 /\ index = MaxFiles - 1
    /\ step = "shift" => MaxFiles > 1 /\ index \in 1..(MaxFiles - 1)
    /\ step = "create" => disk[0] = Absent
    /\ step = "put" => entry # None
    /\ ~Fails("shift") =>
          /\ step = "shift" => disk[index + 1] = Absent
          /\ step = "current" /\ MaxFiles > 1 => disk[1] = Absent

(* The entry in hand is the newest: it is in no file before it is put. *)
EntryInv ==
    /\ entry # None => entry.id = count
    /\ \A i \in Kept : i <= count
    /\ step # "idle" /\ entry # None => count \notin Kept

WriterInv ==
    /\ WriterTypeOK
    /\ StepInv
    /\ EntryInv
    /\ FilesAreInOrder
    /\ OnlyOldestAreLost

-----------------------------------------------------------------------------
(* Entry i is in file f of the disk d. *)
Holds(d, f, i) == d[f] # Absent /\ i \in Ids(d[f])

Top == IF MaxFiles > 1 THEN MaxFiles ELSE 1

LEMMA SlotsAre ==
  ASSUME WriterTypeOK
  PROVE  MaxFiles \in Nat /\ Slots = 0..Top
  <1>1. MaxFiles \in Nat
    BY RotatingWriterAssumption DEF WriterTypeOK, MaxFiles
  <1>2. /\ Top \in {1, MaxFiles} /\ \A y \in {1, MaxFiles} : Top >= y
        /\ \A x \in {1, MaxFiles} : (\A y \in {1, MaxFiles} : x >= y) => x = Top
    BY <1>1 DEF Top
  <1>3. Max({1, MaxFiles}) = Top
    BY <1>2 DEF Max
  <1> QED BY <1>1, <1>3 DEF Slots

LEMMA ConfigStays ==
  ASSUME config' = config
  PROVE  Slots' = Slots /\ MaxFiles' = MaxFiles /\ ClearOnStart' = ClearOnStart
  BY DEF Slots, MaxFiles, ClearOnStart

(* What is kept, and its order, in terms of Holds. *)
LEMMA KeptIs == \A i : i \in Kept <=> \E f \in Slots : Holds(disk, f, i)
  BY DEF Kept, Present, IdsIn, Holds, Ids

LEMMA KeptIsNext ==
  ASSUME Slots' = Slots
  PROVE  \A i : i \in Kept' <=> \E f \in Slots : Holds(disk', f, i)
  BY DEF Kept, Present, IdsIn, Holds, Ids

LEMMA OrderIs ==
  FilesAreInOrder <=>
      \A f, g \in Slots : f > g =>
          \A i, j : Holds(disk, f, i) /\ Holds(disk, g, j) => i < j
  BY DEF FilesAreInOrder, Present, IdsIn, Holds, Ids

LEMMA OrderIsNext ==
  ASSUME Slots' = Slots
  PROVE  FilesAreInOrder' <=>
             \A f, g \in Slots : f > g =>
                 \A i, j : Holds(disk', f, i) /\ Holds(disk', g, j) => i < j
  BY DEF FilesAreInOrder, Present, IdsIn, Holds, Ids

LEMMA IdsAreNumbers ==
  ASSUME WriterTypeOK
  PROVE  Kept \subseteq Nat
  <1> SUFFICES ASSUME NEW f \in Slots, NEW i, Holds(disk, f, i) PROVE i \in Nat
    BY KeptIs
  <1>1. disk[f] \in Seq(Lines)
    BY DEF WriterTypeOK, Holds
  <1>2. PICK k \in DOMAIN disk[f] : i = disk[f][k].id
    BY DEF Holds, Ids
  <1>3. disk[f][k] \in Lines
    BY <1>1
  <1> QED BY <1>2, <1>3 DEF Lines

(* A new file, one that is empty, and an entry at the end of a file. *)
LEMMA EmptyFile == << >> \in Seq(Lines) /\ << >> # Absent /\ Ids(<< >>) = {}
  BY DEF Absent, Ids

LEMMA AppendToFile ==
  ASSUME NEW file \in Seq(Lines), NEW e \in Lines
  PROVE  /\ Append(file, e) \in Seq(Lines) /\ Append(file, e) # Absent
         /\ Ids(Append(file, e)) = Ids(file) \union {e.id}
         /\ Append(file, e) # << >> /\ SizeOf(Append(file, e)) = e.end
         /\ Len(Append(file, e)) = Len(file) + 1
  <1>1. /\ Append(file, e) \in Seq(Lines)
        /\ Len(file) \in Nat /\ DOMAIN file = 1..Len(file)
        /\ Len(Append(file, e)) = Len(file) + 1
        /\ DOMAIN Append(file, e) = 1..(Len(file) + 1)
        /\ \A i \in 1..Len(file) : Append(file, e)[i] = file[i]
        /\ Append(file, e)[Len(file) + 1] = e
    OBVIOUS
  <1>2. Append(file, e) # Absent
    <2>1. e.id # 0
      BY DEF Lines
    <2>2. Absent[1].id = 0 /\ Len(Absent) = 1
      BY DEF Absent
    <2> QED BY <1>1, <2>1, <2>2
  <1>3. Append(file, e) # << >>
    BY <1>1
  <1> QED BY <1>1, <1>2, <1>3 DEF Ids, SizeOf

LEMMA SizeIsNumber ==
  ASSUME NEW file \in Seq(Lines)
  PROVE  SizeOf(file) \in Nat
  <1>1. CASE file = << >>
    BY <1>1 DEF SizeOf
  <1>2. CASE file # << >>
    <2>1. file[Len(file)] \in Lines
      BY <1>2
    <2> QED BY <1>2, <2>1 DEF SizeOf, Lines
  <1> QED BY <1>1, <1>2

(* What Put appends. *)
LEMMA GrownFile ==
  ASSUME NEW file \in Seq(Lines), entry \in Entries, NEW n \in Nat
  PROVE  \E e \in Lines : /\ e.id = entry.id /\ e.end = SizeOf(file) + n
                          /\ Grown(file, n) = Append(file, e)
  <1>1. PICK e : e = [id |-> entry.id, end |-> SizeOf(file) + n]
    OBVIOUS
  <1>2. e \in Lines /\ e.id = entry.id /\ e.end = SizeOf(file) + n
    <2>1. SizeOf(file) + n \in Nat
      BY SizeIsNumber
    <2>2. entry.id \in 1..MaxEntries
      BY DEF Entries
    <2> QED BY <1>1, <2>1, <2>2 DEF Lines
  <1> QED BY <1>1, <1>2 DEF Grown

(* A renamed file takes the place of the next one. *)
LEMMA RenameMoves ==
  ASSUME WriterTypeOK, NEW f \in Slots, f + 1 \in Slots, Rename(f, f + 1)
  PROVE  /\ disk' \in [Slots -> Seq(Lines) \union {Absent}]
         /\ disk'[f] = Absent
         /\ \A g \in Slots \ {f, f + 1} : disk'[g] = disk[g]
         /\ disk'[f + 1] = IF disk[f] = Absent THEN disk[f + 1] ELSE disk[f]
  <1>1. f \in Int /\ f # f + 1
    BY SlotsAre
  <1> QED BY <1>1 DEF Rename, WriterTypeOK

(* The order stays and what is lost is older than what is kept. *)
LEMMA RenameKeepsOrder ==
  ASSUME WriterTypeOK, FilesAreInOrder, config' = config,
         NEW f \in Slots, f + 1 \in Slots, Rename(f, f + 1)
  PROVE  /\ FilesAreInOrder'
         /\ Kept' \subseteq Kept
         /\ disk[f + 1] = Absent => Kept' = Kept
         /\ f + 1 = Top => \A i \in Kept', j \in Kept \ Kept' : j < i
  <1>1. Slots' = Slots /\ Slots = 0..Top /\ Top \in Nat
    BY ConfigStays, SlotsAre DEF Top
  <1>2. \A g \in Slots : \A i : Holds(disk', g, i) <=>
            \/ g \notin {f, f + 1} /\ Holds(disk, g, i)
            \/ g = f + 1 /\ disk[f] # Absent /\ Holds(disk, f, i)
            \/ g = f + 1 /\ disk[f] = Absent /\ Holds(disk, f + 1, i)
    BY <1>1, RenameMoves DEF Holds
  <1>3. FilesAreInOrder'
    <2> SUFFICES ASSUME NEW g \in Slots, NEW h \in Slots, g > h, NEW i, NEW j,
                        Holds(disk', g, i), Holds(disk', h, j)
                 PROVE  i < j
      BY <1>1, OrderIsNext
    <2>1. PICK g1 \in Slots : Holds(disk, g1, i) /\ (g1 = g \/ (g1 = f /\ g = f + 1))
      BY <1>2
    <2>2. PICK h1 \in Slots : Holds(disk, h1, j) /\ (h1 = h \/ (h1 = f /\ h = f + 1))
      BY <1>2
    <2>3. h # f
      BY <1>1, <1>2
    <2>4. g1 > h1
      BY <1>1, <2>1, <2>2, <2>3
    <2> QED BY <2>1, <2>2, <2>4, OrderIs
  <1>4. Kept' \subseteq Kept
    BY <1>1, <1>2, KeptIs, KeptIsNext
  <1>5. \A j \in Kept \ Kept' : disk[f] # Absent /\ Holds(disk, f + 1, j)
    <2> SUFFICES ASSUME NEW j \in Kept \ Kept'
                 PROVE  disk[f] # Absent /\ Holds(disk, f + 1, j)
      OBVIOUS
    <2>1. PICK g \in Slots : Holds(disk, g, j)
      BY KeptIs
    <2>2. /\ ~Holds(disk', g, j) /\ ~Holds(disk', f + 1, j)
      BY <1>1, KeptIsNext
    <2> QED BY <1>2, <2>1, <2>2 DEF Holds
  <1>6. ASSUME f + 1 = Top, NEW i \in Kept', NEW j \in Kept \ Kept' PROVE j < i
    <2>1. Holds(disk, f + 1, j) /\ disk[f] # Absent
      BY <1>5
    <2>2. PICK g \in Slots : Holds(disk, g, i) /\ g # f + 1
      <3>1. PICK h \in Slots : Holds(disk', h, i)
        BY <1>1, KeptIsNext
      <3>2. CASE h = f + 1
        <4>1. Holds(disk, f, i)
          BY <1>1, <1>2, <2>1, <3>1, <3>2
        <4> QED BY <1>1, <4>1
      <3>3. CASE h # f + 1
        BY <1>2, <3>1, <3>3
      <3> QED BY <3>2, <3>3
    <2>3. f + 1 > g
      BY <1>1, <1>6, <2>2
    <2> QED BY <2>1, <2>2, <2>3, OrderIs
  <1> QED BY <1>3, <1>4, <1>5, <1>6 DEF Holds

-----------------------------------------------------------------------------
LEMMA DiskStays ==
  ASSUME config' = config, disk' = disk, FilesAreInOrder
  PROVE  Kept' = Kept /\ FilesAreInOrder'
  BY ConfigStays DEF FilesAreInOrder, Kept, Present, IdsIn

(* Where everything that is lost is older than everything that is kept,    *)
(* nothing is missing in the middle.                                       *)
LEMMA DropOldest ==
  ASSUME WriterInv, config' = config, written' = written,
         Kept' \subseteq Kept,
         ~Fails("shift") /\ ~ClearOnStart => \A i \in Kept', j \in Kept \ Kept' : j < i
  PROVE  OnlyOldestAreLost'
  <1>1. Kept \subseteq Nat /\ written \subseteq Nat
    BY IdsAreNumbers DEF WriterInv, WriterTypeOK
  <1> QED BY <1>1, ConfigStays DEF WriterInv, OnlyOldestAreLost, Fails

LEMMA InitWriterInv == Init => WriterInv
  <1> SUFFICES ASSUME Init PROVE WriterInv
    OBVIOUS
  <1>1. WriterTypeOK
    <2>1. MaxFiles \in Nat
      BY RotatingWriterAssumption DEF Init, MaxFiles
    <2> QED BY <2>1, RotatingWriterAssumption DEF Init, WriterTypeOK, Rotating
  <1>2. Kept = {}
    BY KeptIs DEF Init, Holds
  <1>3. StepInv /\ EntryInv
    BY <1>2 DEF Init, StepInv, EntryInv, Rotating
  <1>4. FilesAreInOrder /\ OnlyOldestAreLost
    BY <1>2, OrderIs DEF Init, Holds, OnlyOldestAreLost
  <1> QED BY <1>1, <1>3, <1>4 DEF WriterInv

(* The process starts and ends. *)
LEMMA StartKeeps ==
  ASSUME WriterInv, Start
  PROVE  WriterInv'
  <1> USE DEF WriterInv
  <1>1. PICK old : /\ old = IF disk[0] = Absent \/ ClearOnStart THEN << >> ELSE disk[0]
                   /\ disk' = [disk EXCEPT ![0] = old]
    BY DEF Start
  <1>2. 0 \in Slots /\ Slots' = Slots /\ config' = config
    BY SlotsAre, ConfigStays DEF Start, Top
  <1>3. /\ old \in Seq(Lines) /\ old # Absent /\ Ids(old) \subseteq Ids(disk[0])
        /\ (disk[0] # Absent /\ ~ClearOnStart => old = disk[0])
        /\ (disk[0] = Absent => Ids(old) = {})
    BY <1>1, <1>2, EmptyFile DEF WriterTypeOK
  <1>4. \A g \in Slots : \A i : Holds(disk', g, i) => Holds(disk, g, i)
    BY <1>1, <1>2, <1>3 DEF Holds, WriterTypeOK
  <1>5. ~ClearOnStart => \A g \in Slots : \A i : Holds(disk, g, i) => Holds(disk', g, i)
    BY <1>1, <1>2, <1>3 DEF Holds, WriterTypeOK
  <1>6. Kept' \subseteq Kept /\ (~ClearOnStart => Kept' = Kept)
    BY <1>2, <1>4, <1>5, KeptIs, KeptIsNext
  <1>7. WriterTypeOK'
    BY <1>1, <1>2, <1>3, ConfigStays DEF Start, WriterTypeOK
  <1>8. StepInv' /\ EntryInv'
    BY <1>1, <1>2, <1>3, <1>6, ConfigStays DEF Start, StepInv, EntryInv, WriterTypeOK, Rotating
  <1>9. FilesAreInOrder'
    BY <1>2, <1>4, OrderIs, OrderIsNext
  <1>10. OnlyOldestAreLost'
    BY <1>2, <1>6, DropOldest DEF Start
  <1> QED BY <1>7, <1>8, <1>9, <1>10

LEMMA ExitKeeps ==
  ASSUME WriterInv, Exit
  PROVE  WriterInv'
  <1> USE DEF WriterInv
  <1>1. config' = config /\ Kept' = Kept /\ FilesAreInOrder'
    BY DiskStays DEF Exit
  <1>2. WriterTypeOK'
    BY <1>1, ConfigStays DEF Exit, WriterTypeOK
  <1>3. StepInv' /\ EntryInv'
    BY <1>1 DEF Exit, StepInv, EntryInv, Rotating, Fails
  <1> QED BY <1>1, <1>2, <1>3, DropOldest DEF Exit

(* Write, RotateNow: nothing moves yet. *)
LEMMA BeginKeeps ==
  ASSUME WriterInv, RotateNow \/ \E n \in Lengths : Write(n)
  PROVE  WriterInv'
  <1> USE DEF WriterInv
  <1>1. /\ config' = config /\ disk' = disk /\ written' = written
        /\ handle # "down" /\ step = "idle"
        /\ \/ BeginRotation
           \/ step' = "put" /\ UNCHANGED <<handle, index>> /\ entry' # None
        /\ \/ entry' = None /\ count' = count
           \/ /\ count' = count + 1 /\ count' \in 1..MaxEntries
              /\ entry' \in Entries /\ entry'.id = count'
    <2>1. CASE RotateNow
      BY <2>1 DEF RotateNow
    <2>2. ASSUME NEW n \in Lengths, Write(n)
          PROVE  /\ count' = count + 1 /\ count' \in 1..MaxEntries
                 /\ entry' \in Entries /\ entry'.id = count' /\ entry' # None
      <3>1. count' = count + 1 /\ count' \in 1..MaxEntries /\ entry' = [id |-> count', len |-> n]
        BY <2>2, RotatingWriterAssumption DEF Write, WriterTypeOK
      <3>2. entry' \in Entries /\ entry'.id = count'
        BY <3>1, RotatingWriterAssumption DEF Entries
      <3> QED BY <3>1, <3>2 DEF Entries, None
    <2> QED BY <2>1, <2>2 DEF Write
  <1>2. Slots' = Slots /\ MaxFiles' = MaxFiles /\ MaxFiles \in Nat
    BY <1>1, ConfigStays, SlotsAre
  <1>3. Kept' = Kept /\ FilesAreInOrder'
    BY <1>1, DiskStays
  <1>4. WriterTypeOK'
    <2>1. count' \in 0..MaxEntries /\ written' \subseteq 1..count'
      BY <1>1 DEF WriterTypeOK
    <2>2. index' \in 0..MaxFiles
      BY <1>1, <1>2 DEF WriterTypeOK, BeginRotation
    <2> QED BY <1>1, <1>2, <2>1, <2>2 DEF WriterTypeOK, BeginRotation, Rotating
  <1>5. StepInv'
    BY <1>1, <1>2 DEF StepInv, BeginRotation, Rotating, Fails, WriterTypeOK
  <1>6. EntryInv'
    <2>1. Kept \subseteq Nat /\ count \in Nat
      BY IdsAreNumbers DEF WriterTypeOK
    <2> QED BY <1>1, <1>3, <2>1 DEF EntryInv
  <1> QED BY <1>1, <1>3, <1>4, <1>5, <1>6, DropOldest

(* A rename, or a call that failed and left the files as they are. *)
LEMMA RenameKeepsEntry ==
  ASSUME EntryInv, Kept' \subseteq Kept, UNCHANGED <<entry, count>>,
         step # "idle" \/ step' = "idle"
  PROVE  EntryInv'
  BY DEF EntryInv

LEMMA RemoveKeeps ==
  ASSUME WriterInv, RemoveOldest
  PROVE  WriterInv'
  <1> USE DEF WriterInv
  <1>1. /\ config' = config /\ written' = written /\ Slots' = Slots /\ MaxFiles' = MaxFiles
        /\ Slots = 0..Top /\ MaxFiles \in Nat /\ MaxFiles > 1 /\ Top = MaxFiles
        /\ index = MaxFiles - 1 /\ handle = "closed"
    BY ConfigStays, SlotsAre DEF RemoveOldest, StepInv, Top, Rotating
  <1>2. CASE GiveUp
    <2>1. Kept' = Kept /\ FilesAreInOrder'
      BY <1>1, <1>2, DiskStays DEF GiveUp
    <2>2. WriterTypeOK' /\ StepInv'
      BY <1>1, <1>2 DEF RemoveOldest, GiveUp, WriterTypeOK, StepInv, Rotating
    <2> QED BY <1>1, <1>2, <2>1, <2>2, DropOldest, RenameKeepsEntry DEF RemoveOldest, GiveUp
  <1>3. CASE disk' = [disk EXCEPT ![MaxFiles] = Absent] /\ step' = "shift"
    <2>1. \A g \in Slots : \A i : Holds(disk', g, i) <=> g # MaxFiles /\ Holds(disk, g, i)
      BY <1>1, <1>3 DEF Holds, WriterTypeOK
    <2>2. FilesAreInOrder'
      BY <1>1, <2>1, OrderIs, OrderIsNext
    <2>3. Kept' \subseteq Kept
      BY <1>1, <2>1, KeptIs, KeptIsNext
    <2>4. ASSUME NEW i \in Kept', NEW j \in Kept \ Kept' PROVE j < i
      <3>1. PICK g \in Slots : g # MaxFiles /\ Holds(disk, g, i)
        BY <1>1, <2>1, KeptIsNext
      <3>2. PICK h \in Slots : Holds(disk, h, j)
        BY KeptIs
      <3>3. h = MaxFiles
        BY <1>1, <2>1, <3>2, KeptIsNext
      <3> QED BY <1>1, <3>1, <3>2, <3>3, OrderIs
    <2>5. WriterTypeOK'
      BY <1>1, <1>3 DEF RemoveOldest, WriterTypeOK, Rotating
    <2>6. StepInv'
      BY <1>1, <1>3 DEF RemoveOldest, StepInv, WriterTypeOK, Rotating
    <2> QED BY <1>1, <1>3, <2>2, <2>3, <2>4, <2>5, <2>6, DropOldest, RenameKeepsEntry
            DEF RemoveOldest
  <1> QED BY <1>2, <1>3 DEF RemoveOldest

LEMMA ShiftKeeps ==
  ASSUME WriterInv, Shift
  PROVE  WriterInv'
  <1> USE DEF WriterInv
  <1>1. /\ config' = config /\ written' = written /\ Slots' = Slots /\ MaxFiles' = MaxFiles
        /\ Slots = 0..Top /\ MaxFiles \in Nat /\ MaxFiles > 1 /\ Top = MaxFiles
        /\ index \in 1..(MaxFiles - 1) /\ index' = index - 1 /\ handle = "closed"
    BY ConfigStays, SlotsAre DEF Shift, StepInv, Top, Rotating
  <1>2. index \in Slots /\ index + 1 \in Slots
    BY <1>1
  <1>3. /\ FilesAreInOrder' /\ Kept' \subseteq Kept
        /\ disk' \in [Slots -> Seq(Lines) \union {Absent}]
        /\ (~Fails("shift") => Kept' = Kept /\ disk'[index] = Absent)
    <2>1. CASE Rename(index, index + 1)
      BY <1>1, <1>2, <2>1, RenameKeepsOrder, RenameMoves DEF Shift, StepInv
    <2>2. CASE Fails("shift") /\ UNCHANGED disk
      BY <1>1, <2>2, DiskStays DEF WriterTypeOK
    <2> QED BY <2>1, <2>2 DEF Shift
  <1>4. WriterTypeOK'
    BY <1>1, <1>3 DEF Shift, WriterTypeOK, Rotating
  <1>5. index' + 1 = index /\ (index = 1 => step' = "current") /\ (index # 1 => step' = "shift")
    BY <1>1 DEF Shift
  <1>6. StepInv'
    BY <1>1, <1>3, <1>5 DEF Shift, StepInv, Rotating, Fails
  <1> QED BY <1>1, <1>3, <1>4, <1>6, DropOldest, RenameKeepsEntry DEF Shift

LEMMA ShiftCurrentKeeps ==
  ASSUME WriterInv, ShiftCurrent
  PROVE  WriterInv'
  <1> USE DEF WriterInv
  <1>1. /\ config' = config /\ written' = written /\ Slots' = Slots /\ MaxFiles' = MaxFiles
        /\ 0 \in Slots /\ 1 \in Slots /\ MaxFiles \in Nat /\ handle = "closed"
        /\ (~(MaxFiles > 1) => Top = 1)
    BY ConfigStays, SlotsAre DEF ShiftCurrent, StepInv, Top, Rotating
  <1>2. CASE GiveUp
    <2>1. Kept' = Kept /\ FilesAreInOrder'
      BY <1>1, <1>2, DiskStays DEF GiveUp
    <2>2. WriterTypeOK' /\ StepInv'
      BY <1>1, <1>2 DEF ShiftCurrent, GiveUp, WriterTypeOK, StepInv, Rotating
    <2> QED BY <1>1, <1>2, <2>1, <2>2, DropOldest, RenameKeepsEntry DEF ShiftCurrent, GiveUp
  <1>3. CASE Rename(0, 1) /\ step' = "create"
    <2>1. 0 + 1 = 1
      OBVIOUS
    <2>2. /\ FilesAreInOrder' /\ Kept' \subseteq Kept
          /\ disk' \in [Slots -> Seq(Lines) \union {Absent}] /\ disk'[0] = Absent
          /\ (disk[1] = Absent => Kept' = Kept)
          /\ (Top = 1 => \A i \in Kept', j \in Kept \ Kept' : j < i)
      BY <1>1, <1>3, <2>1, RenameKeepsOrder, RenameMoves
    <2>3. ~Fails("shift") => \A i \in Kept', j \in Kept \ Kept' : j < i
      BY <1>1, <2>2 DEF ShiftCurrent, StepInv
    <2>4. WriterTypeOK'
      BY <1>1, <1>3, <2>2 DEF ShiftCurrent, WriterTypeOK, Rotating
    <2>5. StepInv'
      BY <1>1, <1>3, <2>2 DEF ShiftCurrent, StepInv, Rotating
    <2> QED BY <1>1, <1>3, <2>2, <2>3, <2>4, <2>5, DropOldest, RenameKeepsEntry DEF ShiftCurrent
  <1> QED BY <1>2, <1>3 DEF ShiftCurrent

LEMMA CreateKeeps ==
  ASSUME WriterInv, CreateNew
  PROVE  WriterInv'
  <1> USE DEF WriterInv
  <1>1. /\ config' = config /\ written' = written /\ Slots' = Slots /\ MaxFiles' = MaxFiles
        /\ 0 \in Slots /\ MaxFiles \in Nat /\ handle = "closed" /\ disk[0] = Absent
    BY ConfigStays, SlotsAre DEF CreateNew, StepInv, Top, Rotating
  <1>2. CASE GiveUp /\ UNCHANGED <<handle, size>>
    <2>1. Kept' = Kept /\ FilesAreInOrder'
      BY <1>1, <1>2, DiskStays DEF GiveUp
    <2>2. WriterTypeOK' /\ StepInv'
      BY <1>1, <1>2 DEF CreateNew, GiveUp, WriterTypeOK, StepInv, Rotating
    <2> QED BY <1>1, <1>2, <2>1, <2>2, DropOldest, RenameKeepsEntry DEF CreateNew, GiveUp
  <1>3. CASE /\ disk' = [disk EXCEPT ![0] = << >>] /\ handle' = "open"
             /\ step' = IF entry = None THEN "idle" ELSE "put"
    <2>1. \A g \in Slots : \A i : Holds(disk', g, i) <=> Holds(disk, g, i)
      BY <1>1, <1>3, EmptyFile DEF Holds, WriterTypeOK
    <2>2. Kept' = Kept /\ FilesAreInOrder'
      BY <1>1, <2>1, KeptIs, KeptIsNext, OrderIs, OrderIsNext
    <2>3. WriterTypeOK'
      BY <1>1, <1>3, EmptyFile DEF CreateNew, WriterTypeOK
    <2>4. StepInv'
      BY <1>1, <1>3, EmptyFile DEF CreateNew, StepInv, Rotating, WriterTypeOK
    <2>5. EntryInv'
      BY <2>2 DEF CreateNew, EntryInv
    <2> QED BY <1>1, <2>2, <2>3, <2>4, <2>5, DropOldest
  <1> QED BY <1>2, <1>3 DEF CreateNew

LEMMA PutKeeps ==
  ASSUME WriterInv, Put
  PROVE  WriterInv'
  <1> USE DEF WriterInv
  <1>1. /\ config' = config /\ handle' = handle /\ Slots' = Slots /\ MaxFiles' = MaxFiles
        /\ 0 \in Slots /\ Slots = 0..Top /\ Top \in Nat /\ MaxFiles \in Nat
        /\ entry \in Entries /\ entry.id = count /\ count \in Nat /\ Kept \subseteq Nat
        /\ count \notin Kept /\ \A i \in Kept : i < count
    BY ConfigStays, SlotsAre, IdsAreNumbers
       DEF Put, WriterTypeOK, StepInv, EntryInv, Top
  <1>2. CASE disk' = disk /\ written' = written
    <2>1. Kept' = Kept /\ FilesAreInOrder'
      BY <1>1, <1>2, DiskStays
    <2>2. WriterTypeOK' /\ StepInv' /\ EntryInv'
      BY <1>1, <1>2, <2>1 DEF Put, WriterTypeOK, StepInv, EntryInv, Rotating
    <2> QED BY <1>1, <1>2, <2>1, <2>2, DropOldest
  <1>3. ASSUME NEW n \in Nat, handle = "open", disk' = [disk EXCEPT ![0] = Grown(@, n)],
               written' = written \/ written' = written \union {count}
        PROVE  WriterInv'
    <2>1. disk[0] \in Seq(Lines) /\ disk[0] # Absent
      BY <1>1, <1>3 DEF WriterTypeOK, StepInv
    <2>2. PICK e \in Lines : e.id = count /\ Grown(disk[0], n) = Append(disk[0], e)
      BY <1>1, <2>1, GrownFile
    <2>3. /\ disk' \in [Slots -> Seq(Lines) \union {Absent}] /\ disk'[0] # Absent
          /\ Ids(disk'[0]) = Ids(disk[0]) \union {count}
          /\ \A g \in Slots \ {0} : disk'[g] = disk[g]
      BY <1>1, <1>3, <2>1, <2>2, AppendToFile DEF WriterTypeOK
    <2>4. \A g \in Slots : \A i : Holds(disk', g, i) <=> Holds(disk, g, i) \/ (g = 0 /\ i = count)
      BY <1>1, <2>1, <2>3 DEF Holds
    <2>5. Kept' = Kept \union {count}
      BY <1>1, <2>4, KeptIs, KeptIsNext
    <2>6. FilesAreInOrder'
      <3> SUFFICES ASSUME NEW f \in Slots, NEW g \in Slots, f > g, NEW i, NEW j,
                          Holds(disk', f, i), Holds(disk', g, j)
                   PROVE  i < j
        BY <1>1, OrderIsNext
      <3>1. Holds(disk, f, i) /\ i \in Kept
        BY <1>1, <2>4, KeptIs
      <3> QED BY <1>1, <2>4, <3>1, OrderIs
    <2>7. OnlyOldestAreLost'
      <3>1. written \subseteq 1..count
        BY DEF WriterTypeOK
      <3> SUFFICES ASSUME ~Fails("shift"), ~ClearOnStart, NEW i \in Kept', NEW j \in written', i < j
                   PROVE  j \in Kept'
        BY <1>1 DEF OnlyOldestAreLost, Fails, ClearOnStart
      <3>2. CASE j = count
        BY <2>5, <3>2
      <3>3. CASE j # count
        <4>1. j \in written /\ j \in 1..count
          BY <1>3, <3>1, <3>3
        <4>2. i \in Kept
          BY <1>1, <2>5, <4>1
        <4> QED BY <2>5, <4>1, <4>2 DEF OnlyOldestAreLost
      <3> QED BY <3>2, <3>3
    <2>8. WriterTypeOK'
      <3>0. count \in 1..count /\ written \subseteq 1..count
        BY <1>1 DEF WriterTypeOK, Entries
      <3>1. written' \subseteq 1..count
        BY <1>3, <3>0
      <3> QED BY <1>1, <2>3, <3>1 DEF Put, WriterTypeOK
    <2>9. StepInv' /\ EntryInv'
      BY <1>1, <1>3, <2>3, <2>5 DEF Put, StepInv, EntryInv, Rotating
    <2> QED BY <2>6, <2>7, <2>8, <2>9
  <1>4. entry.len \in Nat /\ \A n \in 1..(entry.len - 1) : n \in Nat
    BY <1>1 DEF Entries
  <1> QED BY <1>1, <1>2, <1>3, <1>4 DEF Put

LEMMA NextWriterInv == WriterInv /\ [Next]_vars => WriterInv'
  <1> SUFFICES ASSUME WriterInv, [Next]_vars PROVE WriterInv'
    OBVIOUS
  <1>1. CASE UNCHANGED vars
    <2>1. Kept' = Kept /\ FilesAreInOrder'
      BY <1>1, DiskStays DEF WriterInv, vars
    <2>2. WriterTypeOK' /\ StepInv' /\ EntryInv' /\ OnlyOldestAreLost'
      BY <1>1, <2>1, ConfigStays
         DEF WriterInv, vars, WriterTypeOK, StepInv, EntryInv, OnlyOldestAreLost, Fails
    <2> QED BY <2>1, <2>2 DEF WriterInv
  <1> QED BY <1>1, StartKeeps, ExitKeeps, BeginKeeps, RemoveKeeps, ShiftKeeps, ShiftCurrentKeeps,
             CreateKeeps, PutKeeps DEF Next

(* The invariant of the log writer, whatever fails and wherever the        *)
(* process ends.                                                           *)
THEOREM WriterInvariant == Spec => []WriterInv
  BY InitWriterInv, NextWriterInv, PTL DEF Spec

(* Read from the oldest file to the newest, the log is in its order.       *)
THEOREM LogIsInOrder == Spec => []FilesAreInOrder
  <1>1. WriterInv => FilesAreInOrder
    BY DEF WriterInv
  <1> QED BY <1>1, WriterInvariant, PTL

(* Nothing is missing in the middle of the log or at its end: what was     *)
(* written and is not there any more is older than all that is.  Excepted   *)
(* are a failing rename in the loop of rotate, and clear_on_start.          *)
THEOREM NoGapsInTheLog == Spec => []OnlyOldestAreLost
  <1>1. WriterInv => OnlyOldestAreLost
    BY DEF WriterInv
  <1> QED BY <1>1, WriterInvariant, PTL
-----------------------------------------------------------------------------
(* The size.  currentSize is the size of the file that is open: it is read  *)
(* from the file on start, counts what is put, and begins at 0 with a new   *)
(* file.  An entry is put where it does not exceed the limit, or into an    *)
(* empty file.                                                              *)
Within(file) == SizeOf(file) <= MaxSize \/ Len(file) = 1

LimitInv ==
    /\ size \in Nat
    /\ MaxSize > 0 /\ ~Fails("write") =>
          /\ \A f \in Slots : disk[f] # Absent => Within(disk[f])
          /\ handle = "open" => size = SizeOf(disk[0])
          /\ step = "put" /\ handle = "open" =>
                disk[0] = << >> \/ size + entry.len <= MaxSize

LEMMA EmptyIsWithin == SizeOf(<< >>) = 0 /\ (MaxSize > 0 => Within(<< >>))
  <1>1. SizeOf(<< >>) = 0
    BY DEF SizeOf
  <1> QED BY <1>1, RotatingWriterAssumption DEF Within

LEMMA StartKeepsLimit ==
  ASSUME WriterInv, LimitInv, Start
  PROVE  LimitInv'
  <1>1. PICK old : /\ old = IF disk[0] = Absent \/ ClearOnStart THEN << >> ELSE disk[0]
                   /\ disk' = [disk EXCEPT ![0] = old] /\ size' = SizeOf(old)
    BY DEF Start
  <1>2. 0 \in Slots /\ Slots' = Slots /\ config' = config
    BY SlotsAre, ConfigStays DEF Start, Top, WriterInv
  <1>3. old \in Seq(Lines) /\ (old = << >> \/ (old = disk[0] /\ disk[0] # Absent))
    BY <1>1, <1>2, EmptyFile DEF WriterInv, WriterTypeOK
  <1>4. size' \in Nat
    BY <1>1, <1>3, SizeIsNumber
  <1>5. disk'[0] = old /\ \A f \in Slots \ {0} : disk'[f] = disk[f]
    BY <1>1, <1>2 DEF WriterInv, WriterTypeOK
  <1>6. step' = "idle"
    BY DEF Start, WriterInv, StepInv
  <1> QED BY <1>1, <1>2, <1>3, <1>4, <1>5, <1>6, EmptyIsWithin DEF LimitInv, Fails, Within

LEMMA WriteKeepsLimit ==
  ASSUME WriterInv, LimitInv, RotateNow \/ \E n \in Lengths : Write(n)
  PROVE  LimitInv'
  <1>1. /\ config' = config /\ disk' = disk /\ size' = size
        /\ Slots' = Slots /\ step = "idle"
    BY ConfigStays DEF RotateNow, Write
  <1>2. handle' = "open" => handle = "open"
    BY DEF RotateNow, Write, BeginRotation
  <1>3. step' = "put" /\ handle' = "open" /\ MaxSize > 0 => size + entry'.len <= MaxSize
    <2>1. CASE RotateNow
      BY <1>1, <2>1 DEF RotateNow, BeginRotation
    <2>2. ASSUME NEW n \in Lengths, Write(n), handle' = "open", step' = "put", MaxSize > 0
          PROVE  size + entry'.len <= MaxSize
      <3>1. entry'.len = n /\ n \in Nat
        BY <2>2, RotatingWriterAssumption DEF Write
      <3>2. ~(size + n > MaxSize)
        BY <1>1, <2>2 DEF Write, BeginRotation
      <3> QED BY <3>1, <3>2, RotatingWriterAssumption DEF LimitInv
    <2> QED BY <2>1, <2>2
  <1> QED BY <1>1, <1>2, <1>3 DEF LimitInv, Fails, Within

(* Files are moved while none is open; what is moved is within the limit.   *)
LEMMA MoveKeepsLimit ==
  ASSUME LimitInv, config' = config, size' = size, handle' # "open",
         \A f \in Slots : disk'[f] = Absent \/ \E g \in Slots : disk'[f] = disk[g]
  PROVE  LimitInv'
  BY ConfigStays DEF LimitInv, Fails, Within

LEMMA RotationKeepsLimit ==
  ASSUME WriterInv, LimitInv, RemoveOldest \/ Shift \/ ShiftCurrent
  PROVE  LimitInv'
  <1> USE DEF WriterInv
  <1>1. /\ config' = config /\ size' = size /\ handle' # "open"
    BY DEF RemoveOldest, Shift, ShiftCurrent, StepInv, Rotating
  <1>2. ASSUME NEW f, f \in Slots, f + 1 \in Slots, Rename(f, f + 1)
        PROVE  \A g \in Slots : disk'[g] = Absent \/ \E h \in Slots : disk'[g] = disk[h]
    BY <1>2, RenameMoves
  <1>3. CASE RemoveOldest
    <2>1. \A f \in Slots : disk'[f] = Absent \/ disk'[f] = disk[f]
      BY <1>3 DEF RemoveOldest, GiveUp, WriterTypeOK
    <2> QED BY <1>1, <2>1, MoveKeepsLimit
  <1>4. CASE Shift
    <2>1. index \in Slots /\ index + 1 \in Slots
      BY <1>4, SlotsAre DEF Shift, StepInv, Top
    <2>2. \A g \in Slots : disk'[g] = Absent \/ \E h \in Slots : disk'[g] = disk[h]
      BY <1>2, <1>4, <2>1 DEF Shift
    <2> QED BY <1>1, <2>2, MoveKeepsLimit
  <1>5. CASE ShiftCurrent
    <2>1. 0 \in Slots /\ 0 + 1 \in Slots /\ 0 + 1 = 1
      BY SlotsAre DEF Top
    <2>2. Rename(0, 0 + 1) \/ UNCHANGED disk
      BY <1>5, <2>1 DEF ShiftCurrent, GiveUp
    <2>3. \A g \in Slots : disk'[g] = Absent \/ \E h \in Slots : disk'[g] = disk[h]
      BY <1>2, <2>1, <2>2
    <2> QED BY <1>1, <2>3, MoveKeepsLimit
  <1> QED BY <1>3, <1>4, <1>5

LEMMA CreateKeepsLimit ==
  ASSUME WriterInv, LimitInv, CreateNew
  PROVE  LimitInv'
  <1>1. config' = config /\ Slots' = Slots /\ 0 \in Slots /\ handle = "closed"
    BY ConfigStays, SlotsAre DEF CreateNew, WriterInv, StepInv, Top, Rotating
  <1>2. CASE disk' = disk /\ size' = size /\ handle' = handle
    BY <1>1, <1>2 DEF LimitInv, Fails, Within
  <1>3. CASE disk' = [disk EXCEPT ![0] = << >>] /\ size' = 0
    <2>1. disk'[0] = << >> /\ \A f \in Slots \ {0} : disk'[f] = disk[f]
      BY <1>1, <1>3 DEF WriterInv, WriterTypeOK
    <2> QED BY <1>1, <1>3, <2>1, EmptyIsWithin DEF LimitInv, Fails, Within
  <1> QED BY <1>2, <1>3 DEF CreateNew, GiveUp

LEMMA PutKeepsLimit ==
  ASSUME WriterInv, LimitInv, Put
  PROVE  LimitInv'
  <1>1. /\ config' = config /\ handle' = handle /\ Slots' = Slots /\ 0 \in Slots
        /\ entry \in Entries /\ step' = "idle"
    BY ConfigStays, SlotsAre DEF Put, WriterInv, WriterTypeOK, StepInv, Top
  <1>2. entry.len \in Nat
    BY <1>1 DEF Entries
  <1>3. CASE disk' = disk /\ size' = size
    BY <1>1, <1>3 DEF LimitInv, Fails, Within
  <1>4. CASE Fails("write") /\ size' = size
    BY <1>1, <1>4 DEF LimitInv, Fails
  <1>5. CASE /\ handle = "open" /\ size' = size + entry.len
             /\ disk' = [disk EXCEPT ![0] = Grown(@, entry.len)]
    <2>1. size' \in Nat
      BY <1>2, <1>5 DEF LimitInv
    <2> SUFFICES ASSUME MaxSize > 0, ~Fails("write")
                 PROVE  /\ \A f \in Slots : disk'[f] # Absent => Within(disk'[f])
                        /\ size' = SizeOf(disk'[0])
      BY <1>1, <2>1 DEF LimitInv, Fails, Within
    <2>2. disk[0] \in Seq(Lines) /\ disk[0] # Absent
      BY <1>1, <1>5 DEF WriterInv, WriterTypeOK, StepInv
    <2>3. PICK e \in Lines : /\ e.end = SizeOf(disk[0]) + entry.len
                             /\ Grown(disk[0], entry.len) = Append(disk[0], e)
      BY <1>1, <1>2, <2>2, GrownFile
    <2>4. disk'[0] = Append(disk[0], e) /\ \A f \in Slots \ {0} : disk'[f] = disk[f]
      BY <1>1, <1>5, <2>3 DEF WriterInv, WriterTypeOK
    <2>5. SizeOf(disk'[0]) = size' /\ Len(disk'[0]) = Len(disk[0]) + 1
      BY <1>5, <2>2, <2>3, <2>4, AppendToFile DEF LimitInv
    <2>6. disk[0] = << >> \/ size + entry.len <= MaxSize
      BY <1>5 DEF LimitInv, Put
    <2>7. Within(disk'[0])
      <3>1. CASE disk[0] = << >>
        BY <2>5, <3>1 DEF Within
      <3>2. CASE size + entry.len <= MaxSize
        BY <1>5, <2>5, <3>2 DEF Within
      <3> QED BY <2>6, <3>1, <3>2
    <2> QED BY <2>4, <2>5, <2>7 DEF LimitInv
  <1> QED BY <1>3, <1>4, <1>5 DEF Put

LEMMA NextLimitInv == WriterInv /\ LimitInv /\ [Next]_vars => LimitInv'
  <1> SUFFICES ASSUME WriterInv, LimitInv, [Next]_vars PROVE LimitInv'
    OBVIOUS
  <1>1. CASE Exit
    BY <1>1, ConfigStays DEF Exit, LimitInv, Fails, Within
  <1>2. CASE UNCHANGED vars
    BY <1>2, ConfigStays DEF vars, LimitInv, Fails, Within
  <1> QED BY <1>1, <1>2, StartKeepsLimit, WriteKeepsLimit, RotationKeepsLimit, CreateKeepsLimit,
             PutKeepsLimit DEF Next

(* Where no write fails half way, every file keeps to the limit and the size *)
(* that the writer counts is that of the file it writes to.                 *)
THEOREM LimitInvariant == Spec => []LimitInv
  <1>1. Init => LimitInv
    BY DEF Init, LimitInv
  <1> QED BY <1>1, WriterInvariant, NextLimitInv, PTL DEF Spec

(* No file exceeds the limit by more than a single entry that is larger     *)
(* than it, across rotations that fail half-way and restarts.               *)
THEOREM FilesStayWithinLimit == Spec => []FilesWithinLimit
  <1>1. LimitInv => FilesWithinLimit
    BY DEF LimitInv, FilesWithinLimit, Present, Within
  <1> QED BY <1>1, LimitInvariant, PTL

(* The state of the log writer is well typed at all times.                  *)
THEOREM WriterTypeCorrect == Spec => []TypeOK
  <1>1. WriterInv /\ LimitInv => TypeOK
    <2> SUFFICES ASSUME WriterInv, LimitInv PROVE TypeOK
      OBVIOUS
    <2>1. written \subseteq 1..MaxEntries
      BY RotatingWriterAssumption DEF WriterInv, WriterTypeOK
    <2> QED BY <2>1 DEF WriterInv, WriterTypeOK, LimitInv, TypeOK, Rotating
  <1> QED BY <1>1, WriterInvariant, LimitInvariant, PTL

=============================================================================
