--------------------------- MODULE TaskTable_proofs -------------------------
(***************************************************************************)
(* Proofs about TaskTable: for every set of tasks and sessions and every   *)
(* difference of the clocks, the statements of the gateway are never       *)
(* refused and keep the times of a row in order.                           *)
(***************************************************************************)
EXTENDS TaskTable, TLAPS

TimesInOrder(row) ==
    ~row.worker /\ row.started # Null /\ row.completed # Null => row.started <= row.completed

(* What a row keeps to under the statements of the gateway.  A PENDING row *)
(* has no times yet: this is what makes it safe for a late UPDATE to       *)
(* PROCESSING to set started_at, which it does on a PENDING row only.      *)
RowInv(row) ==
    /\ row \in Rows
    /\ DateCheck(row)
    /\ row.status = "PENDING" => row.started = Null /\ row.completed = Null
    /\ row.status \in FinalStatuses => row.completed # Null
    /\ row.status = "PROCESSING" /\ row.started = Null => row.completed # Null
    /\ row.status # "CANCELLED"
    /\ TimesInOrder(row)

(* No statement makes a row PENDING again, and each finds its row. *)
StmtInv(q) ==
    /\ q \in InFlight
    /\ rows[q.task] # NoRow
    /\ q.status \in {"PROCESSING"} \union FinalStatuses
    /\ q.op = "result" => q.status = "COMPLETED"
    /\ q.op = "error" => q.status = "FAILED"
    /\ q.op = "worker" => q.status = "PROCESSING" /\ rows[q.task].created <= q.now + Skew

TableInv ==
    /\ TableTypeOK
    /\ \A t \in Tasks : rows[t] # NoRow => RowInv(rows[t]) /\ rows[t].created <= clock + Skew
    /\ \A s \in Sessions : stmt[s] # Idle => StmtInv(stmt[s])

-----------------------------------------------------------------------------
(* A row is never the absent one. *)
LEMMA RowsAreRows == NoRow \notin Rows
  BY DEF NoRow, Rows, Statuses, NoStatus

LEMMA NewRowInv ==
  ASSUME NEW c \in Nat
  PROVE  RowInv(NewRow(c)) /\ NewRow(c).created = c
  BY DEF NewRow, RowInv, TimesInOrder, Rows, Times, Null, Statuses, FinalStatuses, DateCheck

(* completed_at is a time, not before the creation nor before the start. *)
LEMMA CompletedAtIsLate ==
  ASSUME NEW row \in Rows, NEW now \in Nat
  PROVE  /\ CompletedAt(row, now) \in Nat
         /\ CompletedAt(row, now) >= row.created
         /\ row.started # Null => CompletedAt(row, now) >= row.started
  BY DEF CompletedAt, Greatest, Coalesce, Rows, Times, Null

LEMMA StartedAtIsLate ==
  ASSUME NEW row \in Rows, NEW now \in Nat, NEW s \in Statuses
  PROVE  /\ StartedAt(row, s, now) \in Times
         /\ DateCheck(row) =>
              StartedAt(row, s, now) = Null \/ StartedAt(row, s, now) >= row.created
         /\ s \in FinalStatuses /\ row.started = Null =>
              StartedAt(row, s, now) <= CompletedAt(row, now)
         /\ s \in FinalStatuses /\ row.started # Null => StartedAt(row, s, now) = row.started
         /\ s = "PROCESSING" /\ row.status # "PENDING" => StartedAt(row, s, now) = row.started
  BY DEF StartedAt, CompletedAt, Greatest, Coalesce, Rows, Times, Null, Statuses,
         FinalStatuses, DateCheck

(* Each statement keeps the invariant of its row, and created_at. *)
LEMMA StatusKeepsRowInv ==
  ASSUME NEW row, RowInv(row), NEW now \in Nat,
         NEW s \in {"PROCESSING"} \union FinalStatuses
  PROVE  /\ RowInv(UpdateWithStatus(row, s, now))
         /\ UpdateWithStatus(row, s, now).created = row.created
  <1> DEFINE new == UpdateWithStatus(row, s, now)
             start == StartedAt(row, s, now)
             end == IF s \in FinalStatuses THEN CompletedAt(row, now) ELSE row.completed
  <1>1. row \in Rows /\ s \in Statuses /\ s # "PENDING"
    BY DEF RowInv, FinalStatuses, Statuses
  <1>2. new = [row EXCEPT !.status = s, !.started = start, !.completed = end]
    BY <1>1 DEF UpdateWithStatus, Rows
  <1>3. start \in Times /\ end \in Times
    BY <1>1, CompletedAtIsLate, StartedAtIsLate DEF Rows, Times
  <1> HIDE DEF new, start, end
  <1>4. /\ new \in Rows
        /\ new.status = s /\ new.created = row.created /\ new.worker = row.worker
        /\ new.started = start /\ new.completed = end
    BY <1>1, <1>2, <1>3 DEF Rows
  <1> USE DEF start, end
  <1>5. DateCheck(new) /\ (s \in FinalStatuses => new.completed # Null)
    BY <1>1, <1>4, CompletedAtIsLate, StartedAtIsLate DEF RowInv, DateCheck, Null, Rows, Times
  <1>6. TimesInOrder(new)
    <2>1. CASE s \in FinalStatuses
      BY <1>1, <1>4, <2>1, CompletedAtIsLate, StartedAtIsLate DEF TimesInOrder, Rows, Times
    <2>2. CASE s = "PROCESSING" /\ row.status # "PENDING"
      BY <1>1, <1>4, <2>2, StartedAtIsLate DEF RowInv, TimesInOrder, FinalStatuses
    <2>3. CASE s = "PROCESSING" /\ row.status = "PENDING"
      BY <1>4, <2>3 DEF TimesInOrder, RowInv, FinalStatuses
    <2> QED BY <2>1, <2>2, <2>3
  <1>7. s = "PROCESSING" /\ new.started = Null => new.completed # Null
    <2>1. CASE row.status = "PENDING" /\ s = "PROCESSING"
      <3>1. start = Greatest(now, row.created)
        BY <2>1 DEF StartedAt
      <3> QED BY <1>1, <1>4, <3>1 DEF Greatest, Rows, Null
    <2>2. CASE row.status # "PENDING" /\ s = "PROCESSING"
      BY <1>1, <1>4, <2>2, StartedAtIsLate DEF RowInv, Rows, Statuses, FinalStatuses
    <2> QED BY <2>1, <2>2
  <1> QED BY <1>1, <1>4, <1>5, <1>6, <1>7 DEF new, RowInv, FinalStatuses

LEMMA EndKeepsRowInv ==
  ASSUME NEW row, RowInv(row), NEW now \in Nat, NEW s \in FinalStatuses,
         NEW payload \in Payloads
  PROVE  /\ RowInv(UpdateWithResult(row, s, payload, now))
         /\ UpdateWithResult(row, s, payload, now).created = row.created
         /\ RowInv(UpdateWithError(row, s, payload, now))
         /\ UpdateWithError(row, s, payload, now).created = row.created
  <1>1. row \in Rows /\ s \in Statuses /\ s \notin {"PENDING", "PROCESSING", "CANCELLED"}
    BY DEF RowInv, FinalStatuses, Statuses
  <1>2. ASSUME NEW new \in Rows, new.created = row.created, new.status = s,
               new.completed = CompletedAt(row, now), new.started = row.started,
               new.worker = row.worker
        PROVE  RowInv(new)
    BY <1>1, <1>2, CompletedAtIsLate DEF RowInv, TimesInOrder, DateCheck, Rows, Times, Null
  <1>3. /\ UpdateWithResult(row, s, payload, now) \in Rows
        /\ UpdateWithError(row, s, payload, now) \in Rows
    BY <1>1, CompletedAtIsLate DEF UpdateWithResult, UpdateWithError, Rows, Times
  <1>4. RowInv(UpdateWithResult(row, s, payload, now))
    BY <1>1, <1>2, <1>3 DEF UpdateWithResult, Rows
  <1>5. RowInv(UpdateWithError(row, s, payload, now))
    BY <1>1, <1>2, <1>3 DEF UpdateWithError, Rows
  <1> QED
    BY <1>1, <1>4, <1>5 DEF UpdateWithResult, UpdateWithError, Rows

LEMMA WorkerKeepsRowInv ==
  ASSUME NEW row, RowInv(row), NEW now \in Nat
  PROVE  /\ UpdateWithWorker(row, "PROCESSING", now) \in Rows
         /\ UpdateWithWorker(row, "PROCESSING", now).created = row.created
         /\ DateCheck(UpdateWithWorker(row, "PROCESSING", now)) =>
               RowInv(UpdateWithWorker(row, "PROCESSING", now))
         /\ now >= row.created => DateCheck(UpdateWithWorker(row, "PROCESSING", now))
  <1> DEFINE new == UpdateWithWorker(row, "PROCESSING", now)
  <1>1. row \in Rows
    BY DEF RowInv
  <1>2. /\ new \in Rows
        /\ new.status = "PROCESSING" /\ new.created = row.created /\ new.worker
        /\ new.started = now /\ new.completed = row.completed
    BY <1>1 DEF UpdateWithWorker, Rows, Times, Statuses
  <1> HIDE DEF new
  <1>3. DateCheck(new) => RowInv(new)
    BY <1>2 DEF RowInv, TimesInOrder, Null, FinalStatuses
  <1>4. now >= row.created => DateCheck(new)
    BY <1>2 DEF RowInv, DateCheck, Null
  <1> QED BY <1>2, <1>3, <1>4 DEF new

(* What a statement in flight would write. *)
LEMMA OutcomeKeepsRowInv ==
  ASSUME TableInv, NEW s \in Sessions, stmt[s] # Idle
  PROVE  /\ Admissible(Outcome(stmt[s])) => RowInv(Outcome(stmt[s]))
         /\ Outcome(stmt[s]).created = rows[stmt[s].task].created
         /\ (stmt[s].op = "worker" => Skew = 0) => RowInv(Outcome(stmt[s]))
  <1> DEFINE q == stmt[s]
             row == rows[q.task]
  <1>1. StmtInv(q) /\ q.task \in Tasks /\ q.now \in Nat /\ q.payload \in Payloads /\ RowInv(row)
    BY DEF TableInv, StmtInv, InFlight
  <1>2. CASE q.op = "status"
    <2>1. Outcome(q) = UpdateWithStatus(row, q.status, q.now)
      BY <1>2 DEF Outcome
    <2>2. q.status \in {"PROCESSING"} \union FinalStatuses
      BY <1>1 DEF StmtInv
    <2>3. /\ RowInv(UpdateWithStatus(row, q.status, q.now))
          /\ UpdateWithStatus(row, q.status, q.now).created = row.created
      <3> HIDE DEF q, row
      <3> QED BY <1>1, <2>2, StatusKeepsRowInv
    <2> QED BY <1>2, <2>1, <2>3
  <1>3. CASE q.op = "result"
    <2>1. Outcome(q) = UpdateWithResult(row, q.status, q.payload, q.now)
      BY <1>3 DEF Outcome
    <2>2. q.status \in FinalStatuses
      BY <1>1, <1>3 DEF StmtInv, FinalStatuses
    <2>3. /\ RowInv(UpdateWithResult(row, q.status, q.payload, q.now))
          /\ UpdateWithResult(row, q.status, q.payload, q.now).created = row.created
      <3> HIDE DEF q, row
      <3> QED BY <1>1, <2>2, EndKeepsRowInv, Zenon
    <2> QED BY <1>3, <2>1, <2>3
  <1>4. CASE q.op = "error"
    <2>1. Outcome(q) = UpdateWithError(row, q.status, q.payload, q.now)
      BY <1>4 DEF Outcome
    <2>2. q.status \in FinalStatuses
      BY <1>1, <1>4 DEF StmtInv, FinalStatuses
    <2>3. /\ RowInv(UpdateWithError(row, q.status, q.payload, q.now))
          /\ UpdateWithError(row, q.status, q.payload, q.now).created = row.created
      <3> HIDE DEF q, row
      <3> QED BY <1>1, <2>2, EndKeepsRowInv, Zenon
    <2> QED BY <1>4, <2>1, <2>3
  <1>5. CASE q.op = "worker"
    <2>1. Outcome(q) = UpdateWithWorker(row, "PROCESSING", q.now)
      BY <1>1, <1>5 DEF Outcome, StmtInv
    <2>2. Skew = 0 => q.now >= row.created
      BY <1>1, <1>5 DEF StmtInv, RowInv, Rows
    <2> QED BY <1>1, <1>5, <2>1, <2>2, WorkerKeepsRowInv DEF Admissible
  <1> QED BY <1>1, <1>2, <1>3, <1>4, <1>5 DEF StmtInv, InFlight

-----------------------------------------------------------------------------
LEMMA InitTableInv == TableInit => TableInv
  BY RowsAreRows, TaskTableAssumption
     DEF TableInit, TableInv, TableTypeOK

LEMMA NextTableInv == TableInv /\ [TableNext]_tableVars => TableInv'
  <1> SUFFICES ASSUME TableInv, [TableNext]_tableVars
               PROVE  TableInv'
    OBVIOUS
  <1> USE RowsAreRows, TaskTableAssumption
  <1>1. CASE Tick
    <2>1. \A t \in Tasks : rows[t] # NoRow => rows[t].created <= clock' + Skew
      BY <1>1 DEF Tick, TableInv, TableTypeOK, RowInv, Rows
    <2> QED BY <1>1, <2>1 DEF Tick, TableInv, TableTypeOK, StmtInv, InFlight
  <1>2. ASSUME NEW t \in Tasks, NEW d \in (-Skew)..Skew, clock + d \in Nat,
               Create(t, clock + d)
        PROVE  TableInv'
    <2> DEFINE c == clock + d
    <2>1. rows' = [rows EXCEPT ![t] = NewRow(c)] /\ UNCHANGED <<clock, stmt>> /\ rows[t] = NoRow
      BY <1>2 DEF Create
    <2>2. c \in Nat /\ c <= clock + Skew
      BY <1>2 DEF TableInv, TableTypeOK
    <2> HIDE DEF c
    <2>3. RowInv(NewRow(c)) /\ NewRow(c).created = c /\ NewRow(c) \in Rows /\ NewRow(c) # NoRow
      BY <2>2, NewRowInv DEF RowInv
    <2>4. TableTypeOK'
      BY <2>1, <2>3 DEF TableInv, TableTypeOK
    <2>5. \A x \in Tasks : rows'[x] # NoRow => RowInv(rows'[x]) /\ rows'[x].created <= clock + Skew
      BY <2>1, <2>2, <2>3 DEF TableInv, TableTypeOK
    <2>6. \A s \in Sessions : stmt'[s] # Idle => StmtInv(stmt[s])'
      BY <2>1, <2>3 DEF TableInv, TableTypeOK, StmtInv, InFlight
    <2> QED BY <2>1, <2>4, <2>5, <2>6 DEF TableInv
  <1>3. ASSUME NEW s \in Sessions, NEW u \in Updates, NEW t \in Tasks, Begin(s, u, t)
        PROVE  TableInv'
    <2> DEFINE q == [op |-> u.op, status |-> u.status, payload |-> u.payload,
                     task |-> t, now |-> clock]
    <2>1. stmt' = [stmt EXCEPT ![s] = q] /\ UNCHANGED <<rows, clock>> /\ rows[t] # NoRow
      BY <1>3 DEF Begin
    <2>2. StmtInv(q)
      <3>1. /\ u.op \in {"status", "result", "error", "worker"}
            /\ u.status \in {"PROCESSING"} \union FinalStatuses
            /\ u.op = "result" => u.status = "COMPLETED"
            /\ u.op = "error" => u.status = "FAILED"
            /\ u.op = "worker" => u.status = "PROCESSING"
        BY DEF Updates, FinalStatuses
      <3>2. u.payload \in Payloads
        BY DEF Updates, Payloads
      <3>3. q \in InFlight
        BY <3>1, <3>2 DEF InFlight, TableInv, TableTypeOK, Statuses, FinalStatuses
      <3> QED BY <2>1, <3>1, <3>3 DEF StmtInv, TableInv
    <2> HIDE DEF q
    <2>3. TableTypeOK'
      BY <2>1, <2>2 DEF TableInv, TableTypeOK, StmtInv
    <2>4. \A x \in Sessions : stmt'[x] # Idle => StmtInv(stmt[x])'
      BY <2>1, <2>2 DEF TableInv, TableTypeOK, StmtInv
    <2> QED BY <2>1, <2>3, <2>4 DEF TableInv
  <1>4. ASSUME NEW s \in Sessions, Apply(s)
        PROVE  TableInv'
    <2> DEFINE q == stmt[s]
               row == Outcome(q)
    <2>1. /\ q # Idle /\ StmtInv(q) /\ q.task \in Tasks
          /\ rows' = IF Admissible(row) THEN [rows EXCEPT ![q.task] = row] ELSE rows
          /\ stmt' = [stmt EXCEPT ![s] = Idle] /\ UNCHANGED clock
      BY <1>4 DEF Apply, TableInv, StmtInv, InFlight
    <2>2. /\ Admissible(row) => RowInv(row) /\ row # NoRow
          /\ row.created = rows[q.task].created
      BY <2>1, OutcomeKeepsRowInv DEF RowInv
    <2> HIDE DEF row
    <2>3. TableTypeOK'
      BY <2>1, <2>2 DEF TableInv, TableTypeOK, RowInv
    <2>4. \A x \in Tasks :
            /\ rows'[x] # NoRow <=> rows[x] # NoRow
            /\ rows[x] # NoRow => rows'[x].created = rows[x].created
      BY <2>1, <2>2 DEF TableInv, TableTypeOK, StmtInv
    <2>5. \A x \in Tasks : rows'[x] # NoRow => RowInv(rows'[x])
      BY <2>1, <2>2 DEF TableInv, TableTypeOK
    <2>6. \A x \in Sessions : stmt'[x] # Idle => StmtInv(stmt[x])'
      <3>1. TAKE x \in Sessions
      <3>2. HAVE stmt'[x] # Idle
      <3>3. x # s /\ stmt'[x] = stmt[x] /\ StmtInv(stmt[x]) /\ stmt[x].task \in Tasks
        BY <2>1, <3>2 DEF TableInv, TableTypeOK, StmtInv, InFlight
      <3> QED BY <2>1, <2>4, <3>3 DEF StmtInv
    <2>7. \A x \in Tasks : rows'[x] # NoRow =>
            RowInv(rows'[x]) /\ rows'[x].created <= clock' + Skew
      BY <2>1, <2>4, <2>5 DEF TableInv
    <2> QED BY <2>3, <2>6, <2>7 DEF TableInv
  <1>5. CASE UNCHANGED tableVars
    BY <1>5 DEF tableVars, TableInv, TableTypeOK, StmtInv, InFlight
  <1> QED
    BY <1>1, <1>2, <1>3, <1>4, <1>5 DEF TableNext

(* Rows and statements in flight keep the invariant of the table, in       *)
(* whatever order the statements are applied.                              *)
THEOREM TableInvariant == TableSpec => []TableInv
  BY InitTableInv, NextTableInv, PTL DEF TableSpec

-----------------------------------------------------------------------------
(* The state of the table is well typed at all times. *)
THEOREM TableTypeCorrect == TableSpec => []TableTypeOK
  <1>1. TableInv => TableTypeOK
    BY DEF TableInv
  <1> QED BY <1>1, TableInvariant, PTL

(* A finished task carries its completion time, whoever updates it. *)
THEOREM FinishedRowsAreDated == TableSpec => []FinishedHasCompletion
  <1>1. TableInv => FinishedHasCompletion
    BY DEF TableInv, RowInv, FinishedHasCompletion
  <1> QED BY <1>1, TableInvariant, PTL

(* A task that is PROCESSING without a start has ended before. *)
THEOREM UnstartedTasksHadEnded == TableSpec => []UnstartedHadEnded
  <1>1. TableInv => UnstartedHadEnded
    BY DEF TableInv, RowInv, UnstartedHadEnded
  <1> QED BY <1>1, TableInvariant, PTL

(* No status change of the gateway is refused by the database, whatever the *)
(* difference of the clocks, and UpdateWithWorker is not while there is     *)
(* none.                                                                    *)
THEOREM UpdatesAreNeverRefused == TableSpec => []NoUpdateRefused
  <1>1. TableInv => NoUpdateRefused
    BY OutcomeKeepsRowInv DEF NoUpdateRefused, Admissible, StatusCheck, RowInv, Rows
  <1> QED BY <1>1, TableInvariant, PTL

(* No task completes before its start, however the statements overtake each *)
(* other, unless UpdateWithWorker has started it anew.                      *)
THEOREM StartsPrecedeCompletions == TableSpec => []StartPrecedesCompletion
  <1>1. TableInv => StartPrecedesCompletion
    BY DEF TableInv, RowInv, TimesInOrder, StartPrecedesCompletion
  <1> QED BY <1>1, TableInvariant, PTL
=============================================================================
