------------------------ MODULE TaskLifecycle_proofs ------------------------
(***************************************************************************)
(* Proofs about TaskLifecycle, for every set of tasks and of replicas and  *)
(* every choice of the faults: no event is about a task without a row, what *)
(* a row shows was caused, and, while no partition moves away from under a *)
(* handler, the replicas together are one consumer and a task that is at   *)
(* rest shows its last event.                                              *)
(*                                                                         *)
(* What TaskIntake_proofs shows of a request still holds here: an event is *)
(* not a command, and the statements of UpdateTaskStatus make no row       *)
(* disappear.  Only a failure that comes without a message takes the error *)
(* of a refused request away.                                              *)
(***************************************************************************)
EXTENDS TaskLifecycle, TaskIntake_proofs

(* The statuses that an event can have written. *)
Written == {"PROCESSING", "COMPLETED", "FAILED"}

(* A status survives its way through the code and back; an event without a *)
(* status asks for FAILED.                                                 *)
LEMMA CodesDiffer ==
  ASSUME NEW s \in Statuses, NEW s2 \in Statuses, ToKafkaCode(s) = ToKafkaCode(s2)
  PROVE  s = s2
  BY DEF Statuses, ToKafkaCode

LEMMA TargetIs ==
  ASSUME NEW m, m.status \in Statuses \union {NoStatus}
  PROVE  Target(m) = IF m.status = NoStatus THEN "FAILED" ELSE m.status
  <1>1. ASSUME NEW s \in Statuses PROVE FromKafkaCode(ToKafkaCode(s)) = s
    <2>1. IsKafkaCode(ToKafkaCode(s))
      BY DEF IsKafkaCode, ToKafkaCode, Statuses
    <2> DEFINE back == CHOOSE s2 \in Statuses : ToKafkaCode(s2) = ToKafkaCode(s)
    <2>2. back \in Statuses /\ ToKafkaCode(back) = ToKafkaCode(s)
      OBVIOUS
    <2>3. back = s
      BY <2>2, CodesDiffer
    <2> QED BY <2>1, <2>3 DEF FromKafkaCode
  <1>2. ToKafkaCode(NoStatus) = ToKafkaCode("FAILED") /\ "FAILED" \in Statuses
    BY DEF ToKafkaCode, NoStatus, Statuses
  <1>3. FromKafkaCode(ToKafkaCode(NoStatus)) = "FAILED"
    BY <1>1, <1>2
  <1>4. NoStatus \notin Statuses
    BY DEF NoStatus, Statuses
  <1> QED BY <1>1, <1>3, <1>4 DEF Target

LEMMA RowIsNotNoRow ==
  ASSUME NEW row \in Rows
  PROVE  row # NoRow
  <1>1. row.status # NoStatus
    BY DEF Rows, Statuses, NoStatus
  <1>2. NoRow.status = NoStatus
    BY DEF NoRow
  <1> QED BY <1>1, <1>2

(* What the UPDATE of an event makes of a row. *)
LEMMA UpdatedRow ==
  ASSUME NEW row \in Rows, NEW s \in Written, NEW p \in Payloads
  PROVE  /\ Updated(row, s, p) \in Rows /\ Updated(row, s, p) # NoRow
         /\ Updated(row, s, p).status = s
         /\ IF s = "COMPLETED" THEN Updated(row, s, p).result <=> p = Given
                               ELSE Updated(row, s, p).result = row.result
         /\ IF s = "FAILED" THEN Updated(row, s, p).error <=> p = Given
                            ELSE Updated(row, s, p).error = row.error
  <1>1. CompletedAt(row, Now) \in Nat
    BY DEF CompletedAt, Greatest, Coalesce, Rows, Times, Null, Now
  <1>2. StartedAt(row, s, Now) \in Times
    BY DEF StartedAt, Greatest, Rows, Times, Null, Now
  <1>3. s \in Statuses /\ s # NoStatus
    BY DEF Written, Statuses, NoStatus
  <1>4. CASE s = "PROCESSING"
    <2>1. Updated(row, s, p) = UpdateWithStatus(row, s, Now)
      BY <1>4 DEF Updated
    <2>2. /\ UpdateWithStatus(row, s, Now) \in Rows
          /\ UpdateWithStatus(row, s, Now).status = s
          /\ UpdateWithStatus(row, s, Now).error = row.error
          /\ UpdateWithStatus(row, s, Now).result = row.result
      BY <1>1, <1>2, <1>3 DEF UpdateWithStatus, Rows, Times
    <2> QED BY <1>3, <1>4, <2>1, <2>2 DEF NoRow
  <1>5. CASE s = "COMPLETED"
    <2>1. Updated(row, s, p) = UpdateWithResult(row, s, p, Now)
      BY <1>5 DEF Updated
    <2>2. /\ UpdateWithResult(row, s, p, Now) \in Rows
          /\ UpdateWithResult(row, s, p, Now).status = s
          /\ UpdateWithResult(row, s, p, Now).error = row.error
          /\ UpdateWithResult(row, s, p, Now).result <=> p = Given
      BY <1>1, <1>3 DEF UpdateWithResult, Rows, Times
    <2> QED BY <1>3, <1>5, <2>1, <2>2 DEF NoRow
  <1>6. CASE s = "FAILED"
    <2>1. Updated(row, s, p) = UpdateWithError(row, s, p, Now)
      BY <1>6 DEF Updated
    <2>2. /\ UpdateWithError(row, s, p, Now) \in Rows
          /\ UpdateWithError(row, s, p, Now).status = s
          /\ UpdateWithError(row, s, p, Now).error <=> p = Given
          /\ UpdateWithError(row, s, p, Now).result = row.result
      BY <1>1, <1>3 DEF UpdateWithError, Rows, Times
    <2> QED BY <1>3, <1>6, <2>1, <2>2 DEF NoRow
  <1> QED BY <1>4, <1>5, <1>6 DEF Written

-----------------------------------------------------------------------------
(* The topic only grows, and what its events ask for stays asked for: a     *)
(* status, and with it a payload or none.                                   *)
AskedFor(t, s) == \E i \in Events(t) : log[i].status = s
Said(t, S, p) == \E i \in Events(t) : log[i].status \in S /\ log[i].payload = p

Failing == {"FAILED", NoStatus}

TopicGrows == log' = log \/ \E m \in Messages : log' = Append(log, m)

LEMMA GrowthKeeps ==
  ASSUME log \in Seq(Messages), TopicGrows
  PROVE  /\ log' \in Seq(Messages)
         /\ Len(log) \in Nat /\ Len(log') \in Nat /\ Len(log) <= Len(log')
         /\ DOMAIN log = 1..Len(log) /\ DOMAIN log' = 1..Len(log')
         /\ \A i \in DOMAIN log : i \in DOMAIN log' /\ log'[i] = log[i]
         /\ \A t : (Published(t) => Published(t)')
         /\ \A t, s : AskedFor(t, s) => AskedFor(t, s)'
         /\ \A t, S, p : Said(t, S, p) => Said(t, S, p)'
  <1>1. /\ log' \in Seq(Messages)
        /\ Len(log) \in Nat /\ Len(log') \in Nat /\ Len(log) <= Len(log')
        /\ DOMAIN log = 1..Len(log) /\ DOMAIN log' = 1..Len(log')
        /\ \A i \in DOMAIN log : i \in DOMAIN log' /\ log'[i] = log[i]
    <2>1. CASE log' = log
      BY <2>1
    <2>2. ASSUME NEW m \in Messages, log' = Append(log, m) PROVE <1>1
      BY <2>2
    <2> QED BY <2>1, <2>2 DEF TopicGrows
  <1>2. \A t : (Published(t) => Published(t)')
    BY <1>1 DEF Published, IsIn, Command
  <1>3. \A t, s : AskedFor(t, s) => AskedFor(t, s)'
    BY <1>1 DEF AskedFor, Events
  <1>4. \A t, S, p : Said(t, S, p) => Said(t, S, p)'
    BY <1>1 DEF Said, Events
  <1> QED BY <1>1, <1>2, <1>3, <1>4

-----------------------------------------------------------------------------
(* The intake under the steps of the worker and of the consumers.          *)
Overwritten(t) == Said(t, Failing, NotGiven)

IntakeHolds ==
    /\ IntakeInv
    /\ \A t \in Tasks : LeftBehind(t) /\ (Recorded(t) \/ Overwritten(t))

(* A step of the intake, or one that it does not notice. *)
LEMMA IntakeStepKeepsIntake ==
  ASSUME IntakeHolds, [IntakeNext]_intakeVars, TopicGrows
  PROVE  IntakeHolds'
  <1>1. log \in Seq(Messages)
    BY DEF IntakeHolds, IntakeInv, IntakeTypeOK
  <1>2. IntakeInv' /\ (\A t \in Tasks : LeftBehind(t))'
    BY NextIntakeInv, NextLeftBehind DEF IntakeHolds
  <1>3. \A t \in Tasks : (Recorded(t) => Recorded(t)') /\ (Overwritten(t) => Overwritten(t)')
    BY <1>1, NextRecorded, GrowthKeeps DEF IntakeHolds, Overwritten
  <1> QED BY <1>2, <1>3 DEF IntakeHolds

LEMMA EventKeepsIntake ==
  ASSUME IntakeHolds, NEW m \in Messages, m.status # "PENDING",
         log' = Append(log, m), UNCHANGED <<pc, expired, stored, rows, outbox, report>>
  PROVE  IntakeHolds' /\ \A t \in Tasks : Published(t)' <=> Published(t)
  <1>1. log \in Seq(Messages)
    BY DEF IntakeHolds, IntakeInv, IntakeTypeOK
  <1>2. \A t \in Tasks : Command(t) # m
    BY DEF Command
  <1>3. \A t \in Tasks : Published(t)' <=> Published(t)
    BY <1>1, <1>2, AppendAdds DEF Published, Command
  <1>4. IntakeTypeOK'
    BY <1>1, AppendAdds DEF IntakeHolds, IntakeInv, IntakeTypeOK
  <1>5. \A t \in Tasks : RequestInv(t)' /\ LeftBehind(t)'
    BY <1>3 DEF IntakeHolds, IntakeInv, RequestInv, LeftBehind, Live, Happens
  <1>6. \A t \in Tasks : Recorded(t)' \/ Overwritten(t)'
    BY <1>1, GrowthKeeps DEF IntakeHolds, Recorded, Live, Happens, Overwritten, TopicGrows
  <1>7. OneCommand'
    <2> SUFFICES ASSUME NEW t \in Tasks, NEW i \in DOMAIN log', NEW j \in DOMAIN log',
                        log'[i] = Command(t), log'[j] = Command(t)
                 PROVE  i = j
      BY DEF OneCommand, Command
    <2>1. i \in DOMAIN log /\ log[i] = Command(t) /\ j \in DOMAIN log /\ log[j] = Command(t)
      BY <1>1, <1>2, AppendAdds
    <2> QED BY <2>1 DEF IntakeHolds, IntakeInv, OneCommand
  <1> QED BY <1>3, <1>4, <1>5, <1>6, <1>7 DEF IntakeHolds, IntakeInv

LEMMA StatementKeepsIntake ==
  ASSUME IntakeHolds, NEW t \in Tasks, NEW row \in Rows, row # NoRow,
         rows[t] # NoRow, rows[t].error => row.error \/ Overwritten(t),
         rows' = [rows EXCEPT ![t] = row],
         UNCHANGED <<pc, expired, stored, outbox, report, log>>
  PROVE  IntakeHolds'
  <1>1. rows \in [Tasks -> Rows \union {NoRow}]
    BY DEF IntakeHolds, IntakeInv, IntakeTypeOK
  <1>2. IntakeTypeOK'
    BY <1>1 DEF IntakeHolds, IntakeInv, IntakeTypeOK
  <1>3. \A u \in Tasks : RequestInv(u)'
    <2>1. \A u \in Tasks : (rows[u] # NoRow <=> rows'[u] # NoRow)
      BY <1>1
    <2> QED
      BY <2>1 DEF IntakeHolds, IntakeInv, RequestInv, Published, IsIn, Command
  <1>4. \A u \in Tasks : LeftBehind(u)' /\ (Recorded(u)' \/ Overwritten(u)')
    <2>1. \A u \in Tasks : rows[u].error => rows'[u].error \/ Overwritten(u)
      BY <1>1
    <2>2. \A u \in Tasks : LeftBehind(u)'
      BY DEF IntakeHolds, LeftBehind, Live, Happens, Published, IsIn, Command
    <2>3. \A u \in Tasks : Overwritten(u)' <=> Overwritten(u)
      BY DEF Overwritten, Said, Events
    <2> QED BY <2>1, <2>2, <2>3 DEF IntakeHolds, Recorded, Live, Happens
  <1>5. OneCommand'
    BY DEF IntakeHolds, IntakeInv, OneCommand, Command
  <1> QED BY <1>2, <1>3, <1>4, <1>5 DEF IntakeHolds, IntakeInv

(* What a step of the intake does to the table, the topic and the stage of *)
(* its request u.                                                          *)
AfterRecord == {"undo_kafka", "kafka_error", "crashed"}

RowEffect(u) ==
    \/ rows'[u] = rows[u] /\ (pc[u] \in AfterRecord => pc'[u] \in AfterRecord)
    \/ rows[u] = NoRow /\ rows'[u] = NewRow(Now)
    \/ /\ pc[u] = "record" /\ Live(u) /\ pc'[u] = "undo_kafka"
       /\ rows[u] \in Rows /\ rows'[u] = UpdateWithError(rows[u], "FAILED", Given, Now)

TopicEffect(u) ==
    \/ log' = log
    \/ log' = Append(log, Command(u)) /\ rows[u] # NoRow /\ ~Published(u) /\ UNCHANGED <<pc, rows>>

IntakeEffect(u) ==
    /\ \A t \in Tasks \ {u} : pc'[t] = pc[t] /\ rows'[t] = rows[t]
    /\ RowEffect(u)
    /\ TopicEffect(u)

LEMMA IntakeEffects ==
  ASSUME IntakeInv, IntakeNext
  PROVE  \E u \in Tasks : IntakeEffect(u)
  <1> USE DEF IntakeInv, IntakeTypeOK, Goto, IntakeEffect, RowEffect, TopicEffect, AfterRecord
  <1> PICK u \in Tasks : IntakeStep(u)
    BY DEF IntakeNext
  <1> SUFFICES IntakeEffect(u)
    OBVIOUS
  <1>1. CASE BadRequest(u)
    BY <1>1 DEF BadRequest
  <1>2. CASE Begin(u)
    BY <1>2 DEF Begin
  <1>3. CASE Upload(u)
    BY <1>3 DEF Upload
  <1>4. CASE Insert(u)
    <2>1. rows[u] = NoRow
      BY <1>4 DEF Insert, RequestInv, NoRowYet
    <2> QED BY <1>4, <2>1 DEF Insert
  <1>5. CASE Produce(u)
    BY <1>5 DEF Produce
  <1>6. CASE AwaitDelivery(u)
    BY <1>6 DEF AwaitDelivery
  <1>7. CASE RecordFailure(u)
    <2>1. rows[u] \in Rows
      BY <1>7 DEF RecordFailure, RequestInv, WithRow
    <2> QED BY <1>7, <2>1 DEF RecordFailure
  <1>8. CASE Undo(u)
    BY <1>8 DEF Undo
  <1>9. CASE Deliver(u)
    <2>1. rows[u] # NoRow /\ ~Published(u)
      BY <1>9 DEF Deliver, RequestInv
    <2> QED BY <1>9, <2>1 DEF Deliver
  <1>10. CASE Expire(u)
    BY <1>10 DEF Expire
  <1>11. CASE Crash(u)
    BY <1>11 DEF Crash
  <1> QED
    BY <1>1, <1>2, <1>3, <1>4, <1>5, <1>6, <1>7, <1>8, <1>9, <1>10, <1>11
       DEF IntakeStep, Serve

-----------------------------------------------------------------------------
(* The invariant.  A message in the topic is about a task whose row is there *)
(* and whose command came first; the worker is at tasks that were commanded *)
(* only; and a replica that is about to write has an event in hand.         *)
WorkerTypeOK ==
    /\ attempts \in [Tasks -> Nat]
    /\ busy \subseteq Tasks

GroupTypeOK ==
    /\ owner \in Replicas
    /\ pos \in 0..Len(log) /\ read \in BOOLEAN
    /\ committed \in 0..Len(log) \union {NoOffset}
    /\ moves \in Nat

JobTypeOK ==
    /\ batch \in [Replicas -> Seq(DOMAIN log)]
    /\ job \in [Replicas -> [phase : {"idle", "got", "write"}, msg : 0..Len(log)]]
    /\ \A r \in Replicas : job[r].phase # "idle" => job[r].msg \in DOMAIN log

HistoryTypeOK ==
    /\ handled \in 0..Len(log) /\ evicted \in BOOLEAN
    /\ passed \subseteq DOMAIN log /\ dropped \subseteq DOMAIN log

MessageInv(i) ==
    /\ rows[log[i].task] # NoRow
    /\ Published(log[i].task)
    /\ log[i].status # "CANCELLED"

TopicInv == \A i \in DOMAIN log : MessageInv(i)
BusyInv == \A t \in busy : Published(t)
JobInv == \A r \in Replicas : job[r].phase = "write" => Target(log[job[r].msg]) \in Written

RowCaused(t) ==
    rows[t] # NoRow =>
        /\ rows[t].status = "PROCESSING" => AskedFor(t, "PROCESSING")
        /\ rows[t].status = "COMPLETED" \/ rows[t].result => AskedFor(t, "COMPLETED")
        /\ rows[t].status = "FAILED" =>
              \/ AskedFor(t, "FAILED") \/ AskedFor(t, NoStatus)
              \/ pc[t] \in AfterRecord
        /\ rows[t].status # "CANCELLED"

(* A result or a message came with an event, and so did their absence. *)
RowFilled(t) ==
    rows[t] # NoRow =>
        /\ rows[t].status = "COMPLETED" /\ ~rows[t].result => Said(t, {"COMPLETED"}, NotGiven)
        /\ rows[t].status = "FAILED" /\ ~rows[t].error => Said(t, Failing, NotGiven)
        /\ rows[t].result => Said(t, {"COMPLETED"}, Given)
        /\ rows[t].error => Said(t, Failing, Given) \/ pc[t] \in AfterRecord

OwnTypeOK == GroupTypeOK /\ JobTypeOK /\ HistoryTypeOK

LifeInv ==
    /\ IntakeHolds /\ WorkerTypeOK /\ OwnTypeOK
    /\ TopicInv /\ BusyInv /\ JobInv
    /\ \A t \in Tasks : RowCaused(t) /\ RowFilled(t)

LEMMA GrowthKeepsGroup ==
  ASSUME log \in Seq(Messages), TopicGrows, OwnTypeOK, JobInv,
         UNCHANGED <<groupVars, batch, job, historyVars>>
  PROVE  OwnTypeOK' /\ JobInv'
  <1>1. GroupTypeOK'
    BY GrowthKeeps DEF OwnTypeOK, GroupTypeOK, groupVars
  <1>2. JobTypeOK'
    <2>1. DOMAIN log \subseteq DOMAIN log' /\ 0..Len(log) \subseteq 0..Len(log')
      BY GrowthKeeps
    <2>2. \A r \in Replicas : batch[r] \in Seq(DOMAIN log')
      BY <2>1 DEF OwnTypeOK, JobTypeOK
    <2>3. batch' \in [Replicas -> Seq(DOMAIN log')]
      BY <2>2 DEF OwnTypeOK, JobTypeOK
    <2> QED BY <2>1, <2>3 DEF OwnTypeOK, JobTypeOK
  <1>3. HistoryTypeOK'
    BY GrowthKeeps DEF OwnTypeOK, HistoryTypeOK, historyVars
  <1>4. JobInv'
    BY GrowthKeeps DEF OwnTypeOK, JobTypeOK, JobInv, Target
  <1> QED BY <1>1, <1>2, <1>3, <1>4 DEF OwnTypeOK

(* A row that does not change keeps its cause, also while the topic grows. *)
LEMMA CauseStays ==
  ASSUME log \in Seq(Messages), TopicGrows, NEW t \in Tasks, RowCaused(t), RowFilled(t),
         rows'[t] = rows[t], pc[t] \in AfterRecord => pc'[t] \in AfterRecord
  PROVE  RowCaused(t)' /\ RowFilled(t)'
  BY GrowthKeeps DEF RowCaused, RowFilled

LEMMA InitLifeInv == LifeInit => LifeInv
  <1> SUFFICES ASSUME LifeInit PROVE LifeInv
    OBVIOUS
  <1>1. IntakeInit
    BY DEF LifeInit
  <1>2. log = << >> /\ \A t \in Tasks : rows[t] = NoRow
    BY <1>1 DEF IntakeInit
  <1>3. IntakeHolds
    BY <1>1, InitIntakeInv DEF IntakeHolds, IntakeInit, LeftBehind, Recorded, GaveUp
  <1>4. WorkerTypeOK /\ OwnTypeOK
    <2>1. Len(log) = 0
      BY <1>2
    <2>2. job \in [Replicas -> [phase : {"idle", "got", "write"}, msg : 0..Len(log)]]
      <3>1. NoJob \in [phase : {"idle", "got", "write"}, msg : 0..Len(log)]
        BY <2>1 DEF NoJob
      <3> QED BY <3>1 DEF LifeInit
    <2>3. \A r \in Replicas : job[r].phase = "idle"
      BY DEF LifeInit, NoJob
    <2>4. WorkerTypeOK
      BY DEF LifeInit, WorkerTypeOK
    <2>5. /\ pos \in 0..Len(log)
          /\ committed \in 0..Len(log) \union {NoOffset}
          /\ owner \in Replicas /\ moves \in Nat
      BY <2>1 DEF LifeInit
    <2>6. read \in BOOLEAN
      BY DEF LifeInit
    <2>7. batch \in [Replicas -> Seq(DOMAIN log)]
      BY DEF LifeInit
    <2>8. HistoryTypeOK
      <3>1. evicted \in BOOLEAN
        BY DEF LifeInit
      <3>2. handled \in 0..Len(log) /\ passed \subseteq DOMAIN log /\ dropped \subseteq DOMAIN log
        BY <2>1 DEF LifeInit
      <3> QED BY <3>1, <3>2 DEF HistoryTypeOK
    <2> QED BY <2>2, <2>3, <2>4, <2>5, <2>6, <2>7, <2>8 DEF OwnTypeOK, GroupTypeOK, JobTypeOK
  <1>5. TopicInv /\ BusyInv /\ JobInv /\ \A t \in Tasks : RowCaused(t) /\ RowFilled(t)
    BY <1>2 DEF LifeInit, TopicInv, BusyInv, JobInv, RowCaused, RowFilled, NoJob
  <1> QED BY <1>3, <1>4, <1>5 DEF LifeInv

LEMMA IntakeStepKeepsLife ==
  ASSUME LifeInv, IntakeNext, UNCHANGED <<workerVars, groupVars, batch, job, historyVars>>
  PROVE  LifeInv'
  <1>1. PICK u \in Tasks : IntakeEffect(u)
    BY IntakeEffects DEF LifeInv, IntakeHolds
  <1>2. log \in Seq(Messages) /\ rows \in [Tasks -> Rows \union {NoRow}] /\ TopicGrows
    BY <1>1, CommandIsMessage
       DEF LifeInv, IntakeHolds, IntakeInv, IntakeTypeOK, IntakeEffect, TopicEffect, TopicGrows
  <1>3. IntakeHolds'
    BY <1>2, IntakeStepKeepsIntake DEF LifeInv
  <1>4. \A t \in Tasks : rows[t] # NoRow => rows'[t] # NoRow
    BY <1>1, <1>2, ErrorKeepsRow DEF IntakeEffect, RowEffect
  <1>5. WorkerTypeOK' /\ OwnTypeOK' /\ JobInv' /\ BusyInv'
    BY <1>2, GrowthKeeps, GrowthKeepsGroup DEF LifeInv, WorkerTypeOK, workerVars, BusyInv
  <1>6. TopicInv'
    <2> SUFFICES ASSUME NEW i \in DOMAIN log' PROVE MessageInv(i)'
      BY DEF TopicInv
    <2>1. CASE i \in DOMAIN log
      <3>1. log'[i] = log[i]
        BY <1>2, <2>1, GrowthKeeps
      <3>2. log[i] \in Messages
        BY <1>2, <2>1
      <3>3. log[i].task \in Tasks
        BY <3>2 DEF Messages
      <3> QED BY <1>2, <1>4, <2>1, <3>1, <3>3, GrowthKeeps DEF LifeInv, TopicInv, MessageInv
    <2>2. CASE i \notin DOMAIN log
      <3>1. log' = Append(log, Command(u)) /\ rows[u] # NoRow /\ Command(u) \in Messages
        BY <1>1, <2>2, CommandIsMessage DEF IntakeEffect, TopicEffect
      <3>2. log'[i] = Command(u) /\ Published(u)'
        BY <1>2, <2>2, <3>1, AppendAdds DEF Published, Command
      <3> QED BY <1>4, <3>1, <3>2 DEF MessageInv, Command
    <2> QED BY <2>1, <2>2
  <1>7. ASSUME NEW t \in Tasks PROVE RowCaused(t)' /\ RowFilled(t)'
    <2>1. CASE t # u
      BY <1>1, <1>2, <2>1, CauseStays DEF LifeInv, IntakeEffect
    <2>2. CASE t = u /\ rows'[u] = rows[u] /\ (pc[u] \in AfterRecord => pc'[u] \in AfterRecord)
      BY <1>2, <2>2, CauseStays DEF LifeInv
    <2>3. CASE t = u /\ rows'[u] = NewRow(Now)
      BY <2>3 DEF RowCaused, RowFilled, NewRow
    <2>4. CASE /\ t = u /\ pc'[u] = "undo_kafka"
               /\ rows[u] \in Rows /\ rows'[u] = UpdateWithError(rows[u], "FAILED", Given, Now)
      <3>1. /\ rows'[u].status = "FAILED" /\ rows'[u].result = rows[u].result
            /\ rows'[u].error
        BY <2>4, ErrorIsRecorded DEF UpdateWithError, Rows
      <3>2. rows[u] # NoRow
        BY <2>4, RowIsNotNoRow
      <3> QED BY <1>2, <2>4, <3>1, <3>2, GrowthKeeps DEF LifeInv, RowCaused, RowFilled, AfterRecord
    <2> QED BY <1>1, <2>1, <2>2, <2>3, <2>4 DEF IntakeEffect, RowEffect
  <1> QED BY <1>3, <1>5, <1>6, <1>7 DEF LifeInv

(* The worker's steps add an event about a commanded task. *)
LEMMA EventKeepsLife ==
  ASSUME LifeInv, NEW m \in Messages, Published(m.task),
         m.status \notin {"PENDING", "CANCELLED"}, log' = Append(log, m),
         UNCHANGED <<pc, expired, stored, rows, outbox, report, groupVars, batch, job, historyVars>>,
         WorkerTypeOK', \A t \in busy' : t \in busy \/ t = m.task
  PROVE  LifeInv'
  <1>1. log \in Seq(Messages) /\ TopicGrows /\ m.task \in Tasks
    BY DEF LifeInv, IntakeHolds, IntakeInv, IntakeTypeOK, TopicGrows, Messages
  <1>2. IntakeHolds'
    BY EventKeepsIntake DEF LifeInv
  <1>3. OwnTypeOK' /\ JobInv' /\ BusyInv'
    BY <1>1, GrowthKeeps, GrowthKeepsGroup DEF LifeInv, BusyInv
  <1>4. TopicInv'
    <2> SUFFICES ASSUME NEW i \in DOMAIN log' PROVE MessageInv(i)'
      BY DEF TopicInv
    <2>1. CASE i \in DOMAIN log /\ log'[i] = log[i]
      BY <1>1, <2>1, GrowthKeeps DEF LifeInv, TopicInv, MessageInv
    <2>2. CASE log'[i] = m
      <3>1. rows[m.task] # NoRow
        BY DEF LifeInv, IntakeHolds, IntakeInv, RequestInv, Messages
      <3> QED BY <1>1, <2>2, <3>1, GrowthKeeps DEF MessageInv
    <2> QED BY <1>1, <2>1, <2>2, AppendAdds
  <1>5. ASSUME NEW t \in Tasks PROVE RowCaused(t)' /\ RowFilled(t)'
    BY <1>1, CauseStays DEF LifeInv
  <1> QED BY <1>2, <1>3, <1>4, <1>5 DEF LifeInv

LEMMA WorkerKeepsLife ==
  ASSUME LifeInv, NEW t \in Tasks, WorkerTakes(t) \/ WorkerEnds(t)
  PROVE  LifeInv'
  <1>1. CASE WorkerTakes(t)
    <2> DEFINE m == [task |-> t, status |-> "PROCESSING", payload |-> NotGiven]
    <2>1. m \in Messages /\ m.task = t /\ m.status = "PROCESSING" /\ log' = Append(log, m)
      BY <1>1 DEF WorkerTakes, Messages, Statuses, Payloads
    <2>2. WorkerTypeOK' /\ \A u \in busy' : u \in busy \/ u = t
      BY <1>1 DEF WorkerTakes, LifeInv, WorkerTypeOK
    <2> HIDE DEF m
    <2> QED BY <1>1, <2>1, <2>2, EventKeepsLife DEF WorkerTakes
  <1>2. CASE WorkerEnds(t)
    <2>1. PICK s \in {"FAILED", "COMPLETED", NoStatus}, p \in Payloads :
             log' = Append(log, [task |-> t, status |-> s, payload |-> p])
      BY <1>2 DEF WorkerEnds, Payloads
    <2> DEFINE m == [task |-> t, status |-> s, payload |-> p]
    <2>2. /\ m \in Messages /\ m.task = t /\ m.status \notin {"PENDING", "CANCELLED"}
          /\ log' = Append(log, m)
      BY <2>1 DEF Messages, Statuses, NoStatus
    <2>3. WorkerTypeOK' /\ \A u \in busy' : u \in busy \/ u = t
      BY <1>2 DEF WorkerEnds, LifeInv, WorkerTypeOK
    <2>4. Published(t)
      BY <1>2 DEF WorkerEnds, LifeInv, BusyInv
    <2> HIDE DEF m
    <2> QED BY <1>2, <2>2, <2>3, <2>4, EventKeepsLife DEF WorkerEnds
  <1> QED BY <1>1, <1>2

(* The handler of replica r returns. *)
Returned(r) ==
    /\ job' = [job EXCEPT ![r] = NoJob]
    /\ handled' = Greatest(handled, job[r].msg)
    /\ \/ batch' = batch /\ dropped' \in {dropped, dropped \union {job[r].msg}}
       \/ batch' = [batch EXCEPT ![r] = Append(@, job[r].msg)] /\ dropped' = dropped

LEMMA ReturnedTypes ==
  ASSUME log \in Seq(Messages), OwnTypeOK, JobInv, NEW r \in Replicas, job[r].msg \in DOMAIN log,
         Returned(r), UNCHANGED <<log, groupVars, evicted, passed>>
  PROVE  OwnTypeOK' /\ JobInv'
  <1>1. Len(log) \in Nat /\ DOMAIN log = 1..Len(log)
    OBVIOUS
  <1>2. NoJob \in [phase : {"idle", "got", "write"}, msg : 0..Len(log)] /\ NoJob.phase = "idle"
    BY <1>1 DEF NoJob
  <1>3. GroupTypeOK'
    BY DEF OwnTypeOK, GroupTypeOK, groupVars
  <1>4. batch' \in [Replicas -> Seq(DOMAIN log)]
    <2>1. Append(batch[r], job[r].msg) \in Seq(DOMAIN log)
      BY DEF OwnTypeOK, JobTypeOK
    <2> QED BY <2>1 DEF OwnTypeOK, JobTypeOK, Returned
  <1>5. JobTypeOK'
    BY <1>2, <1>4 DEF OwnTypeOK, JobTypeOK, Returned
  <1>6. HistoryTypeOK'
    BY <1>1 DEF OwnTypeOK, HistoryTypeOK, Returned, Greatest
  <1>7. JobInv'
    BY <1>2 DEF OwnTypeOK, JobTypeOK, JobInv, Returned, Target
  <1> QED BY <1>3, <1>5, <1>6, <1>7 DEF OwnTypeOK

(* The UPDATE: the event in hand is the cause of the status it writes, and  *)
(* of the result or the message that it writes or takes away.               *)
LEMMA WriteKeepsLife ==
  ASSUME LifeInv, NEW r \in Replicas, Write(r)
  PROVE  LifeInv'
  <1>i. PICK i : i = job[r].msg
    OBVIOUS
  <1>m. PICK m : m = log[i]
    OBVIOUS
  <1>t. PICK t : t = m.task
    OBVIOUS
  <1>s. PICK s : s = Target(m)
    OBVIOUS
  <1>1. /\ log \in Seq(Messages) /\ rows \in [Tasks -> Rows \union {NoRow}] /\ UNCHANGED log
        /\ TopicGrows
    BY DEF LifeInv, IntakeHolds, IntakeInv, IntakeTypeOK, Write, TopicGrows
  <1>2. i \in DOMAIN log /\ s \in Written
    BY <1>i, <1>m, <1>s DEF LifeInv, OwnTypeOK, JobTypeOK, JobInv, Write
  <1>3. m \in Messages
    BY <1>1, <1>2, <1>m
  <1>p. PICK p : p = m.payload
    OBVIOUS
  <1>4. t \in Tasks /\ m.status \in Statuses \union {NoStatus} /\ p \in Payloads
    BY <1>3, <1>t, <1>p DEF Messages
  <1>5. rows[t] # NoRow
    BY <1>2, <1>m, <1>t DEF LifeInv, TopicInv, MessageInv
  <1>6. rows[t] \in Rows
    BY <1>1, <1>4, <1>5
  <1>u. PICK row : row = Updated(rows[t], s, p)
    OBVIOUS
  <1>7. /\ row \in Rows /\ row # NoRow /\ row.status = s
        /\ IF s = "COMPLETED" THEN row.result <=> p = Given ELSE row.result = rows[t].result
        /\ IF s = "FAILED" THEN row.error <=> p = Given ELSE row.error = rows[t].error
    BY <1>2, <1>4, <1>6, <1>u, UpdatedRow
  <1>8. /\ AskedFor(t, m.status) /\ (s = m.status \/ (s = "FAILED" /\ m.status = NoStatus))
        /\ s = "COMPLETED" => Said(t, {"COMPLETED"}, p)
        /\ s = "FAILED" => Said(t, Failing, p)
    <2>1. s = IF m.status = NoStatus THEN "FAILED" ELSE m.status
      BY <1>4, <1>s, TargetIs
    <2>2. m.status # "PENDING"
      BY <1>2, <2>1 DEF Written, NoStatus
    <2>3. m.status = s \/ (s = "FAILED" /\ m.status \in Failing)
      BY <2>1 DEF Failing
    <2> QED BY <1>2, <1>m, <1>t, <1>p, <2>1, <2>2, <2>3 DEF AskedFor, Said, Events, Failing
  <1>9. OwnTypeOK' /\ JobInv' /\ WorkerTypeOK' /\ BusyInv'
    <2>1. Returned(r) /\ UNCHANGED <<log, workerVars, groupVars, evicted, passed>>
      BY DEF Write, Handled, Rejected, DatabaseFails, Returns, Returned
    <2>2. OwnTypeOK' /\ JobInv'
      BY <1>1, <1>2, <1>i, <2>1, ReturnedTypes DEF LifeInv
    <2>3. WorkerTypeOK' /\ BusyInv'
      BY <2>1 DEF LifeInv, WorkerTypeOK, BusyInv, workerVars, Published, IsIn, Command
    <2> QED BY <2>2, <2>3
  <1>10. CASE rows' = rows
    <2>1. UNCHANGED intakeVars
      BY <1>10 DEF Write, intakeVars
    <2>2. IntakeHolds'
      BY <1>1, <2>1, IntakeStepKeepsIntake DEF LifeInv
    <2>3. TopicInv' /\ \A t2 \in Tasks : RowCaused(t2)' /\ RowFilled(t2)'
      BY <1>1, <2>1, CauseStays, GrowthKeeps DEF LifeInv, intakeVars, TopicInv, MessageInv
    <2> QED BY <1>9, <2>2, <2>3 DEF LifeInv
  <1>11. CASE rows' = [rows EXCEPT ![t] = row]
    <2>1. UNCHANGED <<pc, expired, stored, outbox, report, log>>
      BY DEF Write
    <2>2. IntakeHolds'
      <3>1. rows[t].error => row.error \/ Overwritten(t)
        BY <1>4, <1>7, <1>8 DEF Overwritten, Payloads
      <3> QED BY <1>4, <1>5, <1>7, <1>11, <2>1, <3>1, StatementKeepsIntake DEF LifeInv
    <2>3. TopicInv'
      <3>1. \A t2 \in Tasks : rows[t2] # NoRow => rows'[t2] # NoRow
        BY <1>1, <1>7, <1>11
      <3>2. \A j \in DOMAIN log : log[j] \in Messages
        BY <1>1
      <3>3. \A j \in DOMAIN log : log[j].task \in Tasks
        BY <3>2 DEF Messages
      <3> QED BY <1>1, <3>1, <3>3, GrowthKeeps DEF LifeInv, TopicInv, MessageInv
    <2>4. ASSUME NEW t2 \in Tasks PROVE RowCaused(t2)' /\ RowFilled(t2)'
      <3>1. CASE t2 # t
        BY <1>1, <1>11, <2>1, <3>1, CauseStays DEF LifeInv
      <3>2. CASE t2 = t
        <4>1. rows'[t] = row /\ pc'[t] = pc[t]
          BY <1>1, <1>4, <1>11, <2>1
        <4>2. AskedFor(t, m.status)' /\ (rows[t].result => AskedFor(t, "COMPLETED")')
          BY <1>1, <1>4, <1>5, <1>8, GrowthKeeps DEF LifeInv, RowCaused
        <4>3. RowCaused(t)'
          BY <1>2, <1>7, <1>8, <4>1, <4>2 DEF RowCaused, Written, NoStatus
        <4>4. /\ s = "COMPLETED" => Said(t, {"COMPLETED"}, p)'
              /\ s = "FAILED" => Said(t, Failing, p)'
          BY <1>1, <1>8, GrowthKeeps
        <4>5. /\ rows[t].result => Said(t, {"COMPLETED"}, Given)'
              /\ rows[t].error => Said(t, Failing, Given)' \/ pc[t] \in AfterRecord
          BY <1>1, <1>4, <1>5, GrowthKeeps DEF LifeInv, RowFilled
        <4>6. p = Given \/ p = NotGiven
          BY <1>4 DEF Payloads
        <4>7. Given # NotGiven
          BY DEF Given, NotGiven
        <4>8. RowFilled(t)'
          BY <1>7, <4>1, <4>4, <4>5, <4>6, <4>7 DEF RowFilled
        <4> QED BY <3>2, <4>3, <4>8
      <3> QED BY <3>1, <3>2
    <2> QED BY <1>9, <2>2, <2>3, <2>4 DEF LifeInv
  <1> QED BY <1>i, <1>m, <1>t, <1>s, <1>p, <1>u, <1>10, <1>11 DEF Write

LEMMA HeadAndTail ==
  ASSUME NEW S, NEW q \in Seq(S), q # << >>
  PROVE  Head(q) \in S /\ Tail(q) \in Seq(S)
  OBVIOUS

(* Polling, deciding, committing and moving the partition change nothing   *)
(* but the group's own state.                                              *)
LEMMA QuietKeepsLife ==
  ASSUME LifeInv, UNCHANGED <<intakeVars, workerVars>>, OwnTypeOK', JobInv'
  PROVE  LifeInv'
  <1>1. log \in Seq(Messages) /\ TopicGrows /\ rows' = rows /\ log' = log /\ pc' = pc
    BY DEF LifeInv, IntakeHolds, IntakeInv, IntakeTypeOK, TopicGrows, intakeVars
  <1>2. IntakeHolds'
    BY <1>1, IntakeStepKeepsIntake DEF LifeInv
  <1>3. TopicInv' /\ \A t \in Tasks : RowCaused(t)' /\ RowFilled(t)'
    BY <1>1, CauseStays, GrowthKeeps DEF LifeInv, TopicInv, MessageInv
  <1>4. WorkerTypeOK' /\ BusyInv'
    BY <1>1, GrowthKeeps DEF LifeInv, WorkerTypeOK, BusyInv, workerVars
  <1> QED BY <1>2, <1>3, <1>4 DEF LifeInv

LEMMA AssignTypes ==
  ASSUME LifeInv, NEW n \in Replicas, AssignTo(n), UNCHANGED <<log, committed>>
  PROVE  GroupTypeOK' /\ passed' \subseteq DOMAIN log
  <1>1. Len(log) \in Nat /\ DOMAIN log = 1..Len(log)
    BY DEF LifeInv, IntakeHolds, IntakeInv, IntakeTypeOK
  <1>2. GroupTypeOK /\ JobTypeOK /\ HistoryTypeOK
    BY DEF LifeInv, OwnTypeOK
  <1>3. pos' \in 0..Len(log)
    BY <1>1, <1>2 DEF AssignTo, GroupTypeOK, NoOffset
  <1>4. owner' \in Replicas /\ moves' \in Nat
    BY <1>2 DEF AssignTo, GroupTypeOK
  <1>5. read' \in BOOLEAN
    BY DEF AssignTo
  <1>6. Covered \in Nat
    BY <1>1, <1>2 DEF Covered, GroupTypeOK, JobTypeOK
  <1>7. passed' \subseteq DOMAIN log
    BY <1>1, <1>2, <1>3, <1>6 DEF AssignTo, HistoryTypeOK
  <1> QED BY <1>2, <1>3, <1>4, <1>5, <1>7 DEF GroupTypeOK

(* A process that ends forgets what it had in hand and in its batch. *)
LEMMA ForgetTypes ==
  ASSUME LifeInv, NEW r \in Replicas, log' = log,
         job' = [job EXCEPT ![r] = NoJob], batch' = [batch EXCEPT ![r] = << >>]
  PROVE  JobTypeOK' /\ JobInv'
  <1>1. Len(log) \in Nat /\ JobTypeOK
    BY DEF LifeInv, OwnTypeOK, IntakeHolds, IntakeInv, IntakeTypeOK
  <1>2. /\ NoJob \in [phase : {"idle", "got", "write"}, msg : 0..Len(log)]
        /\ NoJob.phase = "idle"
    BY <1>1 DEF NoJob
  <1>3. JobTypeOK'
    BY <1>1, <1>2 DEF JobTypeOK
  <1>4. JobInv'
    BY <1>1, <1>2 DEF LifeInv, JobTypeOK, JobInv, Target
  <1> QED BY <1>3, <1>4

LEMMA NextLifeInv == LifeInv /\ [LifeNext]_lifeVars => LifeInv'
  <1> SUFFICES ASSUME LifeInv, [LifeNext]_lifeVars PROVE LifeInv'
    OBVIOUS
  <1>1. CASE IntakeNext /\ UNCHANGED <<workerVars, groupVars, batch, job, historyVars>>
    BY <1>1, IntakeStepKeepsLife
  <1>2. ASSUME NEW t \in Tasks, WorkerTakes(t) \/ WorkerEnds(t) PROVE LifeInv'
    BY <1>2, WorkerKeepsLife
  <1>3. /\ log \in Seq(Messages) /\ Len(log) \in Nat /\ DOMAIN log = 1..Len(log)
        /\ GroupTypeOK /\ JobTypeOK /\ HistoryTypeOK /\ JobInv
    BY DEF LifeInv, OwnTypeOK, IntakeHolds, IntakeInv, IntakeTypeOK
  <1>4. ASSUME NEW r \in Replicas, Poll(r) PROVE LifeInv'
    <2>1. log' = log /\ UNCHANGED <<batch, historyVars, owner, committed, moves>>
      BY <1>4 DEF Poll, intakeVars
    <2>2. pos + 1 \in DOMAIN log
      BY <1>3, <1>4 DEF Poll, GroupTypeOK
    <2>3. [phase |-> "got", msg |-> pos + 1] \in [phase : {"idle", "got", "write"}, msg : 0..Len(log)]
      BY <1>3, <2>2
    <2>4. GroupTypeOK'
      BY <1>3, <1>4, <2>1, <2>2 DEF Poll, GroupTypeOK
    <2>5. JobTypeOK'
      BY <1>3, <1>4, <2>1, <2>2, <2>3 DEF Poll, JobTypeOK
    <2>6. HistoryTypeOK'
      BY <1>3, <2>1 DEF HistoryTypeOK, historyVars
    <2>7. JobInv'
      BY <1>3, <1>4, <2>1 DEF Poll, JobTypeOK, JobInv, Target
    <2> QED BY <1>4, <2>4, <2>5, <2>6, <2>7, QuietKeepsLife DEF Poll, OwnTypeOK
  <1>5. ASSUME NEW r \in Replicas, Decide(r) PROVE LifeInv'
    <2>1. log' = log /\ UNCHANGED <<intakeVars, workerVars, groupVars, evicted, passed>>
      BY <1>5 DEF Decide, intakeVars
    <2>2. job[r].phase = "got" /\ job[r].msg \in DOMAIN log
      BY <1>3, <1>5 DEF Decide, JobTypeOK
    <2>3. CASE Returned(r)
      BY <1>3, <2>1, <2>2, <2>3, ReturnedTypes, QuietKeepsLife DEF LifeInv
    <2>4. CASE /\ job' = [job EXCEPT ![r].phase = "write"] /\ UNCHANGED <<batch, handled, dropped>>
               /\ Target(log[job[r].msg]) \in Written
      <3>1. GroupTypeOK'
        BY <1>3, <2>1 DEF GroupTypeOK, groupVars
      <3>2. JobTypeOK'
        BY <1>3, <2>1, <2>2, <2>4 DEF JobTypeOK
      <3>3. HistoryTypeOK'
        BY <1>3, <2>1, <2>4 DEF HistoryTypeOK
      <3>4. JobInv'
        BY <1>3, <2>1, <2>2, <2>4 DEF JobTypeOK, JobInv, Target
      <3> QED BY <2>1, <3>1, <3>2, <3>3, <3>4, QuietKeepsLife DEF OwnTypeOK
    <2> QED BY <1>5, <2>3, <2>4
            DEF Decide, Handled, Rejected, DatabaseFails, Returns, Returned, Written, FinalStatuses
  <1>6. ASSUME NEW r \in Replicas, Write(r) PROVE LifeInv'
    BY <1>6, WriteKeepsLife
  <1>7. ASSUME NEW r \in Replicas, Restart(r) PROVE LifeInv'
    <2>1. /\ log' = log /\ UNCHANGED <<intakeVars, workerVars, committed, handled, evicted, dropped>>
          /\ job' = [job EXCEPT ![r] = NoJob] /\ batch' = [batch EXCEPT ![r] = << >>]
      BY <1>7 DEF Restart, intakeVars
    <2>2. GroupTypeOK' /\ passed' \subseteq DOMAIN log
      <3>1. ASSUME NEW n \in Replicas, AssignTo(n)
            PROVE  GroupTypeOK' /\ passed' \subseteq DOMAIN log
        BY <2>1, <3>1, AssignTypes
      <3>2. CASE UNCHANGED <<owner, pos, read, moves, passed>>
        BY <1>3, <2>1, <3>2 DEF GroupTypeOK, HistoryTypeOK
      <3> QED BY <1>7, <3>1, <3>2 DEF Restart
    <2>3. HistoryTypeOK'
      BY <1>3, <2>1, <2>2 DEF HistoryTypeOK
    <2>4. JobTypeOK' /\ JobInv'
      BY <2>1, ForgetTypes
    <2> QED BY <2>1, <2>2, <2>3, <2>4, QuietKeepsLife DEF OwnTypeOK
  <1>8. ASSUME NEW r \in Replicas, Commit(r), CommitNext PROVE LifeInv'
    <2>1. /\ log' = log
          /\ UNCHANGED <<intakeVars, workerVars, owner, pos, read, moves, job, historyVars>>
      BY <1>8 DEF CommitNext, intakeVars
    <2>2. batch[r] \in Seq(DOMAIN log) /\ batch[r] # << >>
      BY <1>3, <1>8 DEF Commit, JobTypeOK
    <2>3. Head(batch[r]) \in DOMAIN log /\ Tail(batch[r]) \in Seq(DOMAIN log)
      BY <2>2, HeadAndTail
    <2>4. GroupTypeOK'
      BY <1>3, <1>8, <2>1, <2>3 DEF Commit, GroupTypeOK
    <2>5. JobTypeOK'
      BY <1>3, <1>8, <2>1, <2>3 DEF Commit, JobTypeOK
    <2>6. HistoryTypeOK' /\ JobInv'
      BY <1>3, <2>1 DEF HistoryTypeOK, historyVars, JobInv, Target
    <2> QED BY <2>1, <2>4, <2>5, <2>6, QuietKeepsLife DEF OwnTypeOK
  <1>9. CASE AutoCommits /\ CommitNext
    <2>1. /\ log' = log
          /\ UNCHANGED <<intakeVars, workerVars, owner, pos, read, moves, batch, job, historyVars>>
      BY <1>9 DEF AutoCommits, CommitNext, intakeVars
    <2>2. GroupTypeOK' /\ JobTypeOK'
      BY <1>3, <1>9, <2>1 DEF AutoCommits, GroupTypeOK, JobTypeOK
    <2>3. HistoryTypeOK' /\ JobInv'
      BY <1>3, <2>1 DEF HistoryTypeOK, historyVars, JobInv, Target
    <2> QED BY <2>1, <2>2, <2>3, QuietKeepsLife DEF OwnTypeOK
  <1>10. CASE Rebalance
    <2>1. /\ log' = log
          /\ UNCHANGED <<intakeVars, workerVars, committed, batch, job, handled, dropped>>
      BY <1>10 DEF Rebalance, intakeVars
    <2>2. GroupTypeOK' /\ passed' \subseteq DOMAIN log
      BY <1>10, <2>1, AssignTypes DEF Rebalance
    <2>3. evicted' \in BOOLEAN
      BY <1>10 DEF Rebalance
    <2>4. HistoryTypeOK'
      BY <1>3, <2>1, <2>2, <2>3 DEF HistoryTypeOK
    <2>5. JobTypeOK' /\ JobInv'
      BY <1>3, <2>1 DEF JobTypeOK, JobInv, Target
    <2> QED BY <2>1, <2>2, <2>4, <2>5, QuietKeepsLife DEF OwnTypeOK
  <1>11. CASE UNCHANGED lifeVars
    <2>1. log' = log /\ UNCHANGED <<intakeVars, workerVars, groupVars, batch, job, historyVars>>
      BY <1>11 DEF lifeVars, intakeVars
    <2>2. OwnTypeOK' /\ JobInv'
      BY <1>3, <2>1
         DEF OwnTypeOK, GroupTypeOK, JobTypeOK, HistoryTypeOK, JobInv, Target, groupVars, historyVars
    <2> QED BY <2>1, <2>2, QuietKeepsLife
  <1> QED
    BY <1>1, <1>2, <1>4, <1>5, <1>6, <1>7, <1>8, <1>9, <1>10, <1>11 DEF LifeNext, CommitNext, Consume

(* Intake, worker and consumers keep the invariant of the life of a task:   *)
(* what is in the topic, in a replica's hands or in a row has its cause.    *)
THEOREM LifeInvariant == LifeSpec => []LifeInv
  BY InitLifeInv, NextLifeInv, PTL DEF LifeSpec

(* The state of the whole life of a task is well typed at all times. *)
THEOREM LifeTypeCorrect == LifeSpec => []LifeTypeOK
  <1>1. LifeInv => LifeTypeOK
    BY DEF LifeInv, LifeTypeOK, IntakeHolds, IntakeInv, WorkerTypeOK,
           OwnTypeOK, GroupTypeOK, JobTypeOK, HistoryTypeOK
  <1> QED BY <1>1, LifeInvariant, PTL

(* Every message in the topic is about a task that has its row, whatever    *)
(* became of the request and however early the worker answered.             *)
THEOREM EventsHaveRows == LifeSpec => []MessagesHaveRows
  <1>1. LifeInv => MessagesHaveRows
    BY DEF LifeInv, TopicInv, MessageInv, MessagesHaveRows
  <1> QED BY <1>1, LifeInvariant, PTL

(* The status and the result that a row shows were asked for by an event,   *)
(* or, FAILED, written by CreateTask after a failed publication: no restart, *)
(* redelivery or overtaken handler makes up a status.                       *)
THEOREM StatusesAreCaused == LifeSpec => []StatusIsCaused
  <1>1. LifeInv => StatusIsCaused
    BY DEF LifeInv, RowCaused, AskedFor, AfterRecord, StatusIsCaused
  <1> QED BY <1>1, LifeInvariant, PTL

(* The worker and the consumers break nothing of what an answer promises:   *)
(* the properties of TaskIntake hold for the whole life of a task.  The     *)
(* recorded error of a refused request can be lost, though, and only in one *)
(* way: the command was published after all, and the worker reported a      *)
(* failure without a message, which UpdateWithError writes as it is.        *)
RefusalStaysRecorded ==
    \A t \in Tasks :
        pc[t] = "kafka_error" /\ Live(t) /\ ~Happens("update_fails") =>
            rows[t].error \/ (Published(t) /\ Said(t, Failing, NotGiven))

THEOREM IntakeSurvives ==
  LifeSpec => [](/\ AcceptedIsWhole /\ OneCommand
                 /\ RefusedLeavesNoFile /\ LateCommandNeedsTimeout /\ RefusalStaysRecorded)
  <1>1. IntakeInv => AcceptedIsWhole /\ OneCommand
    BY DEF IntakeInv, RequestInv, AcceptedIsWhole, WithFile, WithRow
  <1>2. (\A t \in Tasks : LeftBehind(t)) => RefusedLeavesNoFile /\ LateCommandNeedsTimeout
    BY DEF LeftBehind, GaveUp, Live, RefusedLeavesNoFile, LateCommandNeedsTimeout
  <1>3. LifeInv => RefusalStaysRecorded
    <2> SUFFICES ASSUME LifeInv, NEW t \in Tasks, pc[t] = "kafka_error", Live(t),
                        ~Happens("update_fails"), ~rows[t].error
                 PROVE  Published(t) /\ Said(t, Failing, NotGiven)
      BY DEF RefusalStaysRecorded
    <2>1. Said(t, Failing, NotGiven)
      BY DEF LifeInv, IntakeHolds, Recorded, GaveUp, Overwritten
    <2> QED BY <2>1 DEF LifeInv, TopicInv, MessageInv, Said, Events
  <1>4. LifeInv => /\ AcceptedIsWhole /\ OneCommand
                   /\ RefusedLeavesNoFile /\ LateCommandNeedsTimeout /\ RefusalStaysRecorded
    BY <1>1, <1>2, <1>3 DEF LifeInv, IntakeHolds
  <1> QED BY <1>4, LifeInvariant, PTL

-----------------------------------------------------------------------------
(* The worker appends events, which are no commands, and the consumers      *)
(* update rows that are there: the caller is promised what it was.          *)
LEMMA NextPromiseInLife ==
  LifeInv /\ [LifeNext]_lifeVars => [Promise!Next]_(Promise!vars)
  <1> SUFFICES ASSUME LifeInv, [LifeNext]_lifeVars
               PROVE  [Promise!Next]_(Promise!vars)
    OBVIOUS
  <1>1. IntakeInv /\ IntakeHolds /\ log \in Seq(Messages)
    BY DEF LifeInv, IntakeHolds, IntakeInv, IntakeTypeOK
  <1>2. CASE IntakeNext \/ UNCHANGED intakeVars
    BY <1>1, <1>2, NextPromise
  <1>3. ASSUME NEW t \in Tasks, WorkerTakes(t) \/ WorkerEnds(t)
        PROVE  [Promise!Next]_(Promise!vars)
    <2>1. PICK s \in (Statuses \union {NoStatus}) \ {"PENDING"}, p \in Payloads :
             log' = Append(log, [task |-> t, status |-> s, payload |-> p])
      BY <1>3 DEF WorkerTakes, WorkerEnds, Statuses, NoStatus, Payloads
    <2>2. PICK m \in Messages : m.status # "PENDING" /\ log' = Append(log, m)
      BY <2>1 DEF Messages
    <2>3. UNCHANGED <<pc, expired, stored, rows, outbox, report>>
      BY <1>3 DEF WorkerTakes, WorkerEnds
    <2>4. \A u \in Tasks : Published(u)' <=> Published(u)
      BY <1>1, <2>2, <2>3, EventKeepsIntake
    <2> QED BY <2>3, <2>4, SamePartsShow
  <1>4. ASSUME NEW r \in Replicas, Write(r) PROVE [Promise!Next]_(Promise!vars)
    <2>1. PICK m : m = log[job[r].msg]
      OBVIOUS
    <2>2. /\ UNCHANGED <<pc, stored, log>>
          /\ \/ rows' = rows
             \/ rows' = [rows EXCEPT ![m.task] = Updated(rows[m.task], Target(m), m.payload)]
      BY <1>4, <2>1 DEF Write
    <2>3. /\ job[r].msg \in DOMAIN log /\ m \in Messages /\ Target(m) \in Written
          /\ rows[m.task] # NoRow
      BY <1>1, <1>4, <2>1 DEF Write, LifeInv, OwnTypeOK, JobTypeOK, JobInv, TopicInv, MessageInv
    <2>4. m.task \in Tasks /\ m.payload \in Payloads
      BY <2>3 DEF Messages
    <2>5. rows \in [Tasks -> Rows \union {NoRow}] /\ rows[m.task] \in Rows
      BY <1>1, <2>3, <2>4 DEF IntakeInv, IntakeTypeOK
    <2>6. Updated(rows[m.task], Target(m), m.payload) # NoRow
      BY <2>3, <2>4, <2>5, UpdatedRow
    <2>7. \A u \in Tasks : rows'[u] = NoRow <=> rows[u] = NoRow
      BY <2>2, <2>3, <2>4, <2>5, <2>6
    <2>8. \A u \in Tasks : Published(u)' <=> Published(u)
      BY <2>2 DEF Published, IsIn, Command
    <2> QED BY <2>2, <2>7, <2>8, SamePartsShow
  <1>5. ASSUME NEW r \in Replicas, Poll(r) \/ Decide(r) \/ Restart(r)
        PROVE  [Promise!Next]_(Promise!vars)
    BY <1>2, <1>5 DEF Poll, Decide, Restart
  <1>6. CASE CommitNext \/ Rebalance \/ UNCHANGED lifeVars
    BY <1>2, <1>6 DEF CommitNext, Rebalance, lifeVars
  <1> QED BY <1>2, <1>3, <1>4, <1>5, <1>6 DEF LifeNext, Consume

(* The caller's promise is kept with the worker and the consumers at work  *)
(* on the same topic and the same rows.                                    *)
THEOREM PromiseSurvives == LifeSpec => KeepsPromise
  <1>1. LifeInit => Promise!Init
    BY InitPromise DEF LifeInit
  <1> QED BY <1>1, LifeInvariant, NextPromiseInLife, PTL
          DEF LifeSpec, KeepsPromise, Promise!Spec

-----------------------------------------------------------------------------
(* The replicas as one consumer, while the partition never moves away from  *)
(* under a handler: only the owner is at work, on the last message it has   *)
(* read, and whatever is in a batch was handled once.                       *)
Undisturbed == ~May("overtaken")

InWork == job[owner].phase # "idle"

GroupInv ==
    /\ \A r \in Replicas : r # owner => job[r].phase = "idle"
    /\ InWork => job[owner].msg = pos
    /\ \A r \in Replicas : \A k \in DOMAIN batch[r] : batch[r][k] <= handled

(* As long as only the owner has something to commit, its manual commits    *)
(* are in order: from the committed offset to what it has handled.          *)
Orderly ==
    /\ committed <= Covered
    /\ \A r \in Replicas : r # owner => batch[r] = << >>
    /\ \A k \in DOMAIN batch[owner] : committed <= batch[owner][k] /\ batch[owner][k] <= Covered
    /\ \A k, l \in DOMAIN batch[owner] : k <= l => batch[owner][k] <= batch[owner][l]

CommitInv ==
    ~AutoCommit =>
        /\ ~evicted => Orderly
        /\ ~NewGroup => committed # NoOffset /\ (~evicted => passed = {})

(* What a step does to the group. *)
GroupRests == TopicGrows /\ UNCHANGED <<groupVars, batch, job, historyVars>>

GroupReads ==
    /\ ~InWork /\ pos < Len(log) /\ pos' = pos + 1
    /\ job' = [job EXCEPT ![owner] = [phase |-> "got", msg |-> pos + 1]]
    /\ UNCHANGED <<log, owner, committed, batch, historyVars>>

GroupGoesOn ==
    /\ InWork /\ job' = [job EXCEPT ![owner].phase = "write"]
    /\ UNCHANGED <<log, owner, pos, committed, batch, historyVars>>

GroupFinishes ==
    /\ InWork /\ Returned(owner)
    /\ UNCHANGED <<log, owner, pos, committed, evicted, passed>>

GroupCommits(r) ==
    /\ batch[r] # << >> /\ batch' = [batch EXCEPT ![r] = Tail(@)]
    /\ committed' \in {Head(batch[r]), committed}
    /\ UNCHANGED <<log, owner, pos, job, historyVars>>

GroupAutoCommits ==
    /\ AutoCommit /\ committed' = pos
    /\ UNCHANGED <<log, owner, pos, batch, job, historyVars>>

(* A process that has not the partition ends. *)
GroupForgets(r) ==
    /\ r # owner /\ job' = [job EXCEPT ![r] = NoJob] /\ batch' = [batch EXCEPT ![r] = << >>]
    /\ UNCHANGED <<log, owner, pos, committed, historyVars>>

GroupMoves ==
    /\ owner' \in Replicas
    /\ pos' = IF committed = NoOffset THEN Len(log) ELSE committed
    /\ passed' = passed \union (Covered + 1)..pos'
    /\ \A r \in Replicas : job'[r].phase = "idle"
    /\ \A r \in Replicas : batch'[r] = batch[r] \/ batch'[r] = << >>
    /\ evicted => evicted'
    /\ evicted' \/ batch'[owner] = << >>
    /\ UNCHANGED <<log, committed, handled, dropped>>

OffsetEffect ==
    \/ GroupRests \/ GroupReads \/ GroupAutoCommits \/ GroupMoves
    \/ \E r \in Replicas : GroupCommits(r) \/ GroupForgets(r)

GroupStep == OffsetEffect \/ GroupGoesOn \/ GroupFinishes

(* The steps of the consumers that leave the table alone. *)
OffsetStep ==
    \/ \E r \in Replicas : Poll(r) \/ Restart(r)
    \/ CommitNext
    \/ Rebalance
    \/ UNCHANGED lifeVars

LEMMA RestartEffect ==
  ASSUME Undisturbed, LifeInv, GroupInv, NEW r \in Replicas, Restart(r)
  PROVE  GroupMoves \/ GroupForgets(r)
  <1>1. /\ job \in [Replicas -> [phase : {"idle", "got", "write"}, msg : 0..Len(log)]]
        /\ batch \in [Replicas -> Seq(DOMAIN log)] /\ owner \in Replicas /\ NoJob.phase = "idle"
    BY DEF LifeInv, OwnTypeOK, GroupTypeOK, JobTypeOK, NoJob
  <1>2. /\ job' = [job EXCEPT ![r] = NoJob] /\ batch' = [batch EXCEPT ![r] = << >>]
        /\ UNCHANGED <<log, committed, handled, evicted, dropped>>
    BY DEF Restart, intakeVars
  <1>3. CASE owner = r
    <2>1. PICK n \in Replicas : AssignTo(n)
      BY <1>3 DEF Restart
    <2>2. \A q \in Replicas : job'[q].phase = "idle"
      BY <1>1, <1>2, <1>3 DEF GroupInv
    <2>3. /\ \A q \in Replicas : batch'[q] = batch[q] \/ batch'[q] = << >>
          /\ batch'[owner] = << >>
      BY <1>1, <1>2, <1>3
    <2> QED BY <1>2, <2>1, <2>2, <2>3 DEF AssignTo, GroupMoves
  <1>4. CASE owner # r
    BY <1>2, <1>4 DEF Restart, GroupForgets, historyVars
  <1> QED BY <1>3, <1>4

LEMMA RebalanceEffect ==
  ASSUME Undisturbed, LifeInv, GroupInv, Rebalance
  PROVE  GroupMoves
  <1>1. PICK n \in Replicas : AssignTo(n)
    BY DEF Rebalance
  <1>2. UNCHANGED <<log, committed, batch, job, handled, dropped>>
    BY DEF Rebalance, intakeVars
  <1>3. \A r \in Replicas : job'[r].phase = "idle"
    BY <1>2 DEF Rebalance, Undisturbed, GroupInv
  <1>4. (evicted => evicted') /\ (evicted' \/ batch'[owner] = << >>)
    BY <1>2 DEF Rebalance
  <1> QED BY <1>1, <1>2, <1>3, <1>4 DEF AssignTo, GroupMoves

LEMMA OffsetEffects ==
  ASSUME Undisturbed, LifeInv, GroupInv, OffsetStep
  PROVE  UNCHANGED <<rows, log>> /\ OffsetEffect
  <1>1. ASSUME NEW r \in Replicas, Poll(r) PROVE UNCHANGED <<rows, log>> /\ GroupReads
    BY <1>1 DEF Poll, GroupReads, InWork, intakeVars
  <1>2. ASSUME NEW r \in Replicas, Commit(r), CommitNext
        PROVE  UNCHANGED <<rows, log>> /\ GroupCommits(r)
    BY <1>2 DEF Commit, CommitNext, GroupCommits, intakeVars
  <1>3. ASSUME NEW r \in Replicas, Restart(r)
        PROVE  UNCHANGED <<rows, log>> /\ (GroupMoves \/ GroupForgets(r))
    BY <1>3, RestartEffect DEF Restart, intakeVars
  <1>4. CASE AutoCommits /\ CommitNext
    BY <1>4 DEF AutoCommits, CommitNext, GroupAutoCommits, OffsetEffect, intakeVars
  <1>5. CASE Rebalance
    BY <1>5, RebalanceEffect DEF Rebalance, OffsetEffect, intakeVars
  <1>6. CASE UNCHANGED lifeVars
    BY <1>6 DEF lifeVars, intakeVars, GroupRests, TopicGrows, OffsetEffect
  <1> QED BY <1>1, <1>2, <1>3, <1>4, <1>5, <1>6 DEF OffsetStep, CommitNext, OffsetEffect

LEMMA GroupEffects ==
  ASSUME Undisturbed, LifeInv, GroupInv, [LifeNext]_lifeVars
  PROVE  GroupStep
  <1>1. CASE IntakeNext /\ UNCHANGED <<workerVars, groupVars, batch, job, historyVars>>
    <2>1. PICK u \in Tasks : IntakeEffect(u)
      BY <1>1, IntakeEffects DEF LifeInv, IntakeHolds
    <2> QED BY <1>1, <2>1, CommandIsMessage
            DEF IntakeEffect, TopicEffect, TopicGrows, GroupRests, OffsetEffect, GroupStep
  <1>2. ASSUME NEW t \in Tasks, WorkerTakes(t) \/ WorkerEnds(t) PROVE GroupStep
    <2>1. PICK s \in {"PROCESSING", "FAILED", "COMPLETED", NoStatus}, p \in Payloads :
             log' = Append(log, [task |-> t, status |-> s, payload |-> p])
      BY <1>2 DEF WorkerTakes, WorkerEnds, Payloads
    <2>2. TopicGrows
      BY <2>1 DEF TopicGrows, Messages, Statuses
    <2> QED BY <1>2, <2>2 DEF WorkerTakes, WorkerEnds, GroupRests, OffsetEffect, GroupStep
  <1>3. ASSUME NEW r \in Replicas, Decide(r) PROVE GroupStep
    <2>1. r = owner /\ InWork
      BY <1>3 DEF Decide, GroupInv, InWork
    <2>2. UNCHANGED <<log, owner, pos, committed, evicted, passed>>
      BY <1>3 DEF Decide, intakeVars, groupVars
    <2>3. \/ Returned(owner)
          \/ job' = [job EXCEPT ![owner].phase = "write"] /\ UNCHANGED <<batch, handled, dropped>>
      BY <1>3, <2>1 DEF Decide, Handled, Rejected, DatabaseFails, Returns, Returned
    <2> QED BY <2>1, <2>2, <2>3 DEF GroupGoesOn, GroupFinishes, GroupStep, historyVars
  <1>4. ASSUME NEW r \in Replicas, Write(r) PROVE GroupStep
    <2>1. r = owner /\ InWork
      BY <1>4 DEF Write, GroupInv, InWork
    <2>2. UNCHANGED <<log, owner, pos, committed, evicted, passed>>
      BY <1>4 DEF Write, groupVars
    <2>3. Returned(owner)
      BY <1>4, <2>1 DEF Write, Handled, Rejected, DatabaseFails, Returns, Returned
    <2> QED BY <2>1, <2>2, <2>3 DEF GroupFinishes, GroupStep
  <1>5. CASE OffsetStep
    BY <1>5, OffsetEffects DEF GroupStep
  <1> QED
    BY <1>1, <1>2, <1>3, <1>4, <1>5 DEF LifeNext, Consume, OffsetStep

LEMMA GroupNumbers ==
  ASSUME LifeInv
  PROVE  /\ log \in Seq(Messages) /\ Len(log) \in Nat /\ DOMAIN log = 1..Len(log)
         /\ owner \in Replicas /\ pos \in 0..Len(log) /\ handled \in 0..Len(log)
         /\ committed \in 0..Len(log) \union {-1}
         /\ job \in [Replicas -> [phase : {"idle", "got", "write"}, msg : 0..Len(log)]]
         /\ InWork => job[owner].msg \in 1..Len(log)
         /\ NoJob.phase = "idle"
         /\ batch \in [Replicas -> Seq(1..Len(log))]
         /\ Covered \in Int
  <1>1. log \in Seq(Messages)
    BY DEF LifeInv, IntakeHolds, IntakeInv, IntakeTypeOK
  <1>2. /\ log \in Seq(Messages) /\ Len(log) \in Nat /\ DOMAIN log = 1..Len(log)
        /\ owner \in Replicas /\ pos \in 0..Len(log) /\ handled \in 0..Len(log)
        /\ committed \in 0..Len(log) \union {-1}
    BY <1>1 DEF LifeInv, OwnTypeOK, GroupTypeOK, HistoryTypeOK, NoOffset
  <1>3. /\ job \in [Replicas -> [phase : {"idle", "got", "write"}, msg : 0..Len(log)]]
        /\ InWork => job[owner].msg \in 1..Len(log)
        /\ NoJob.phase = "idle"
        /\ batch \in [Replicas -> Seq(1..Len(log))]
    BY <1>2 DEF LifeInv, OwnTypeOK, JobTypeOK, InWork, NoJob
  <1>4. Covered \in Int
    BY <1>2, <1>3 DEF Covered
  <1> QED BY <1>2, <1>3, <1>4

(* What the ends of a batch are. *)
LEMMA AppendEnd ==
  ASSUME NEW S, NEW q \in Seq(S), NEW x \in S
  PROVE  /\ \A k \in DOMAIN Append(q, x) :
              \/ k \in DOMAIN q /\ Append(q, x)[k] = q[k]
              \/ k = Len(q) + 1 /\ Append(q, x)[k] = x
         /\ \A k \in DOMAIN q : k \in Nat /\ k <= Len(q) /\ q[k] \in S
         /\ Len(q) \in Nat
  OBVIOUS

LEMMA TailEnd ==
  ASSUME NEW S, NEW q \in Seq(S), q # << >>
  PROVE  /\ 1 \in DOMAIN q /\ Head(q) = q[1]
         /\ \A k \in DOMAIN Tail(q) : k \in Nat /\ k >= 1 /\ k + 1 \in DOMAIN q /\ Tail(q)[k] = q[k + 1]
         /\ \A k \in DOMAIN q : k \in Nat /\ k >= 1 /\ q[k] \in S
  OBVIOUS

LEMMA NextGroupInv ==
  ASSUME LifeInv, GroupInv, GroupStep
  PROVE  GroupInv'
  <1>1. CASE GroupRests
    BY <1>1, GroupNumbers DEF GroupRests, groupVars, historyVars, GroupInv, InWork
  <1>2. CASE GroupReads
    BY <1>2, GroupNumbers DEF GroupReads, historyVars, GroupInv, InWork
  <1>3. CASE GroupGoesOn
    BY <1>3, GroupNumbers DEF GroupGoesOn, historyVars, GroupInv, InWork
  <1>4. CASE GroupFinishes
    <2>1. PICK m : m = job[owner].msg
      OBVIOUS
    <2>2. m \in 1..Len(log) /\ handled' \in Int /\ handled <= handled' /\ m <= handled'
      BY <1>4, <2>1, GroupNumbers DEF GroupFinishes, Returned, Greatest
    <2>3. \A r \in Replicas : \A k \in DOMAIN batch'[r] : batch'[r][k] <= handled'
      <3>1. CASE batch' = batch
        <4> SUFFICES ASSUME NEW r \in Replicas, NEW k \in DOMAIN batch[r]
                     PROVE  batch[r][k] <= handled'
          BY <3>1
        <4>1. batch[r][k] \in Int /\ batch[r][k] <= handled
          BY GroupNumbers DEF GroupInv
        <4> QED BY <2>2, <4>1, GroupNumbers
      <3>2. CASE batch' = [batch EXCEPT ![owner] = Append(@, m)]
        <4> SUFFICES ASSUME NEW r \in Replicas, NEW k \in DOMAIN batch'[r]
                     PROVE  batch'[r][k] <= handled'
          OBVIOUS
        <4>1. PICK q \in Seq(1..Len(log)) : q = batch[r]
          BY GroupNumbers
        <4>2. batch'[r] = q \/ batch'[r] = Append(q, m)
          BY <3>2, <4>1, GroupNumbers
        <4>3. batch'[r][k] = m \/ (k \in DOMAIN q /\ batch'[r][k] = q[k])
          <5>1. PICK b : b = batch'[r]
            OBVIOUS
          <5>2. \A j \in DOMAIN Append(q, m) :
                   (j \in DOMAIN q /\ Append(q, m)[j] = q[j]) \/ Append(q, m)[j] = m
            BY <2>2, AppendEnd
          <5>3. b[k] = m \/ (k \in DOMAIN q /\ b[k] = q[k])
            BY <4>2, <5>1, <5>2
          <5> QED BY <5>1, <5>3
        <4>4. ASSUME k \in DOMAIN q PROVE q[k] \in Int /\ q[k] <= handled
          BY <4>1, <4>4, GroupNumbers DEF GroupInv
        <4> QED BY <2>2, <4>3, <4>4, GroupNumbers
      <3> QED BY <1>4, <2>1, <3>1, <3>2 DEF GroupFinishes, Returned
    <2> QED BY <1>4, <2>3, GroupNumbers DEF GroupFinishes, Returned, GroupInv, InWork
  <1>5. CASE GroupAutoCommits
    BY <1>5, GroupNumbers DEF GroupAutoCommits, historyVars, GroupInv, InWork
  <1>6. CASE GroupMoves
    <2>1. \A r \in Replicas : \A k \in DOMAIN batch'[r] : batch'[r][k] <= handled
      <3> SUFFICES ASSUME NEW r \in Replicas, NEW k \in DOMAIN batch'[r]
                   PROVE  batch'[r][k] <= handled
        OBVIOUS
      <3>1. batch'[r] = batch[r] \/ batch'[r] = << >>
        BY <1>6 DEF GroupMoves
      <3>2. batch'[r] # << >>
        OBVIOUS
      <3> QED BY <3>1, <3>2 DEF GroupInv
    <2> QED BY <1>6, <2>1, GroupNumbers DEF GroupMoves, GroupInv, InWork
  <1>7. ASSUME NEW r \in Replicas, GroupCommits(r) PROVE GroupInv'
    <2>1. \A n \in Replicas : \A k \in DOMAIN batch'[n] : batch'[n][k] <= handled
      <3> SUFFICES ASSUME NEW n \in Replicas, NEW k \in DOMAIN batch'[n]
                   PROVE  batch'[n][k] <= handled
        OBVIOUS
      <3>1. PICK q \in Seq(1..Len(log)) : q = batch[n]
        BY GroupNumbers
      <3>2. batch'[n] = q \/ (q # << >> /\ batch'[n] = Tail(q))
        BY <1>7, <3>1, GroupNumbers DEF GroupCommits
      <3>3. \E l \in DOMAIN q : batch'[n][k] = q[l]
        <4>1. PICK b : b = batch'[n]
          OBVIOUS
        <4>2. q # << >> => \A j \in DOMAIN Tail(q) : j + 1 \in DOMAIN q /\ Tail(q)[j] = q[j + 1]
          BY TailEnd
        <4>3. \E l \in DOMAIN q : b[k] = q[l]
          BY <3>2, <4>1, <4>2
        <4> QED BY <4>1, <4>3
      <3> QED BY <3>1, <3>3 DEF GroupInv
    <2> QED BY <1>7, <2>1, GroupNumbers DEF GroupCommits, historyVars, GroupInv, InWork
  <1>8. ASSUME NEW r \in Replicas, GroupForgets(r) PROVE GroupInv'
    BY <1>8, GroupNumbers DEF GroupForgets, historyVars, GroupInv, InWork
  <1> QED BY <1>1, <1>2, <1>3, <1>4, <1>5, <1>6, <1>7, <1>8 DEF GroupStep, OffsetEffect

LEMMA NextCommitInv ==
  ASSUME LifeInv, GroupInv, CommitInv, GroupStep
  PROVE  CommitInv'
  <1> SUFFICES ASSUME ~AutoCommit PROVE CommitInv'
    BY DEF CommitInv
  <1> USE DEF InWork
  <1>1. CASE GroupRests
    BY <1>1, GroupNumbers DEF GroupRests, groupVars, historyVars, CommitInv, Orderly, Covered
  <1>2. CASE GroupReads
    BY <1>2, GroupNumbers DEF GroupReads, historyVars, CommitInv, Orderly, Covered
  <1>3. CASE GroupGoesOn
    BY <1>3, GroupNumbers DEF GroupGoesOn, historyVars, CommitInv, Orderly, Covered
  <1>4. CASE GroupFinishes
    <2>1. /\ pos \in 1..Len(log) /\ job[owner].msg = pos /\ Covered = pos - 1 /\ Covered' = pos
          /\ UNCHANGED <<owner, committed, evicted, passed>>
      BY <1>4, GroupNumbers DEF GroupFinishes, GroupInv, Returned, Covered
    <2>2. PICK q \in Seq(1..Len(log)) : q = batch[owner]
      BY GroupNumbers
    <2>3. /\ batch'[owner] = q \/ batch'[owner] = Append(q, pos)
          /\ \A r \in Replicas : r # owner => batch'[r] = batch[r]
      BY <1>4, <2>1, <2>2, GroupNumbers DEF GroupFinishes, Returned
    <2>4. ASSUME ~evicted PROVE Orderly'
      <3>1. /\ committed <= pos - 1 /\ \A r \in Replicas : r # owner => batch[r] = << >>
            /\ \A k \in DOMAIN q : committed <= q[k] /\ q[k] <= pos - 1
            /\ \A k, l \in DOMAIN q : k <= l => q[k] <= q[l]
        BY <2>1, <2>2, <2>4 DEF CommitInv, Orderly
      <3>2. /\ \A k \in DOMAIN batch'[owner] : committed <= batch'[owner][k] /\ batch'[owner][k] <= pos
            /\ \A k, l \in DOMAIN batch'[owner] : k <= l => batch'[owner][k] <= batch'[owner][l]
        <4>1. CASE batch'[owner] = q
          BY <2>1, <3>1, <4>1, GroupNumbers
        <4>2. CASE batch'[owner] = Append(q, pos)
          <5>1. PICK b : b = Append(q, pos)
            OBVIOUS
          <5>2. /\ \A k \in DOMAIN b : (k \in DOMAIN q /\ b[k] = q[k]) \/ (k = Len(q) + 1 /\ b[k] = pos)
                /\ \A k \in DOMAIN q : k \in Nat /\ k <= Len(q) /\ q[k] \in 1..Len(log)
                /\ Len(q) \in Nat
            BY <2>1, <5>1, AppendEnd
          <5>3. \A k \in DOMAIN b : committed <= b[k] /\ b[k] <= pos
            BY <2>1, <3>1, <5>2, GroupNumbers
          <5>4. \A k, l \in DOMAIN b : k <= l => b[k] <= b[l]
            <6> SUFFICES ASSUME NEW k \in DOMAIN b, NEW l \in DOMAIN b, k <= l
                         PROVE  b[k] <= b[l]
              OBVIOUS
            <6>1. CASE l \in DOMAIN q /\ b[l] = q[l]
              <7>1. k \in DOMAIN q /\ b[k] = q[k]
                BY <5>2, <6>1
              <7> QED BY <3>1, <6>1, <7>1
            <6>2. CASE b[l] = pos
              BY <2>1, <5>3, <6>2
            <6> QED BY <5>2, <6>1, <6>2
          <5> QED BY <4>2, <5>1, <5>3, <5>4
        <4> QED BY <2>3, <4>1, <4>2
      <3> QED BY <2>1, <2>3, <3>1, <3>2, GroupNumbers DEF Orderly
    <2> QED BY <2>1, <2>4 DEF CommitInv
  <1>5. CASE GroupMoves
    <2>1. /\ owner' \in Replicas /\ Covered' = pos' /\ committed <= pos'
          /\ committed' = committed
      BY <1>5, GroupNumbers DEF GroupMoves, Covered, NoOffset
    <2>2. ASSUME ~evicted'
          PROVE  ~evicted /\ Orderly /\ Orderly'
      <3>1. ~evicted /\ Orderly
        BY <1>5, <2>2 DEF GroupMoves, CommitInv
      <3>2. \A r \in Replicas : batch'[r] = << >>
        BY <1>5, <2>2, <3>1 DEF GroupMoves, Orderly
      <3> QED BY <2>1, <3>1, <3>2 DEF Orderly
    <2>3. ASSUME ~NewGroup, ~evicted' PROVE passed' = {}
      <3>1. /\ passed = {} /\ committed <= Covered /\ pos' = committed
            /\ passed' = passed \union (Covered + 1)..pos'
        BY <1>5, <2>2, <2>3 DEF GroupMoves, CommitInv, Orderly
      <3> QED BY <3>1, GroupNumbers
    <2> QED BY <2>1, <2>2, <2>3 DEF CommitInv
  <1>6. ASSUME NEW r \in Replicas, GroupCommits(r) PROVE CommitInv'
    <2>1. PICK q \in Seq(1..Len(log)) : q = batch[r] /\ q # << >>
      BY <1>6, GroupNumbers DEF GroupCommits
    <2>2. /\ Head(q) = q[1] /\ 1 \in DOMAIN q
          /\ \A k \in DOMAIN q : k \in Nat /\ k >= 1 /\ q[k] \in 1..Len(log)
          /\ \A k \in DOMAIN Tail(q) :
               k \in Nat /\ k >= 1 /\ k + 1 \in DOMAIN q /\ Tail(q)[k] = q[k + 1]
      BY <2>1, TailEnd
    <2>3. /\ batch' = [batch EXCEPT ![r] = Tail(q)] /\ committed' \in {q[1], committed}
          /\ UNCHANGED <<owner, pos, job, evicted, passed>> /\ Covered' = Covered
      BY <1>6, <2>1, <2>2 DEF GroupCommits, historyVars, Covered
    <2>4. ASSUME ~evicted PROVE Orderly'
      <3>1. r = owner
        BY <2>1, <2>4 DEF CommitInv, Orderly
      <3>2. /\ committed <= Covered /\ \A n \in Replicas : n # owner => batch[n] = << >>
            /\ \A k \in DOMAIN q : committed <= q[k] /\ q[k] <= Covered
            /\ \A k, l \in DOMAIN q : k <= l => q[k] <= q[l]
        BY <2>1, <2>4, <3>1 DEF CommitInv, Orderly
      <3>3. batch'[owner] = Tail(q) /\ \A n \in Replicas : n # owner => batch'[n] = << >>
        BY <2>3, <3>1, <3>2, GroupNumbers
      <3>4. committed' <= Covered /\ committed' <= q[1]
        BY <2>2, <2>3, <3>2, GroupNumbers
      <3>5. PICK b : b = Tail(q)
        OBVIOUS
      <3>6. \A k \in DOMAIN b : committed' <= b[k] /\ b[k] <= Covered
        <4> SUFFICES ASSUME NEW k \in DOMAIN b PROVE committed' <= b[k] /\ b[k] <= Covered
          OBVIOUS
        <4>1. k \in Nat /\ k >= 1 /\ k + 1 \in DOMAIN q /\ b[k] = q[k + 1]
          BY <2>2, <3>5
        <4>2. q[1] <= q[k + 1] /\ q[k + 1] <= Covered
          BY <2>2, <3>2, <4>1
        <4>3. q[1] \in Int /\ q[k + 1] \in Int /\ committed' \in Int
          BY <2>2, <2>3, <4>1, GroupNumbers
        <4> QED BY <3>4, <4>1, <4>2, <4>3
      <3>7. \A k, l \in DOMAIN b : k <= l => b[k] <= b[l]
        BY <2>2, <3>2, <3>5
      <3> QED BY <2>3, <3>3, <3>4, <3>5, <3>6, <3>7 DEF Orderly
    <2>5. committed # NoOffset => committed' # NoOffset
      BY <2>2, <2>3 DEF NoOffset
    <2> QED BY <2>3, <2>4, <2>5 DEF CommitInv
  <1>7. ASSUME NEW r \in Replicas, GroupForgets(r) PROVE CommitInv'
    <2>1. /\ UNCHANGED <<owner, committed, evicted, passed>> /\ Covered' = Covered
          /\ batch'[owner] = batch[owner]
          /\ \A n \in Replicas : batch'[n] = batch[n] \/ batch'[n] = << >>
      BY <1>7, GroupNumbers DEF GroupForgets, historyVars, Covered
    <2> QED BY <2>1 DEF CommitInv, Orderly
  <1> QED BY <1>1, <1>2, <1>3, <1>4, <1>5, <1>6, <1>7
          DEF GroupStep, OffsetEffect, GroupAutoCommits

LEMMA GroupInvariant ==
  ASSUME Undisturbed
  PROVE  LifeSpec => [](GroupInv /\ CommitInv)
  <1>1. LifeInit => GroupInv /\ CommitInv
    BY DEF LifeInit, GroupInv, CommitInv, Orderly, Covered, InWork, NoJob, NoOffset
  <1>2. LifeInv /\ GroupInv /\ CommitInv /\ [LifeNext]_lifeVars => GroupInv' /\ CommitInv'
    BY GroupEffects, NextGroupInv, NextCommitInv
  <1> QED BY <1>1, <1>2, LifeInvariant, PTL DEF LifeSpec

(* Where every offset is committed by hand, in a group that has committed   *)
(* before, an assignment passes over an event only after a process has lost *)
(* the partition with commits still to come: no restart does it, whatever   *)
(* was in the batch and whichever commits failed.                           *)
THEOREM NothingIsPassedOver ==
  ASSUME Undisturbed, ~AutoCommit, ~NewGroup
  PROVE  LifeSpec => [](~evicted => passed = {})
  <1>1. CommitInv => (~evicted => passed = {})
    BY DEF CommitInv
  <1> QED BY <1>1, GroupInvariant, PTL

(* The replicas are one consumer, as ConsumerLoop shows of one process:     *)
(* each step of the group is one of the promise.                            *)
LEMMA NextGroupPromise ==
  ASSUME LifeInv, GroupInv, CommitInv, GroupStep
  PROVE  [Promised!GroupNext]_(Promised!groupVars)
  <1>0. GroupRests => Len(log') = Len(log) \/ Len(log') > Len(log)
    <2>1. GroupRests => Len(log) \in Nat /\ Len(log') \in Nat /\ Len(log) <= Len(log')
      BY GroupNumbers, GrowthKeeps DEF GroupRests
    <2> QED BY <2>1
  <1> USE DEF InWork, InHand, Promised!groupVars, Promised!vars, Promised!GroupNext
  <1> USE DEF Promised!NoMessage, Promised!NoOffset
  <1>1. CASE GroupRests
    BY <1>0, <1>1 DEF GroupRests, groupVars, historyVars, Promised!Publish
  <1>2. CASE GroupReads
    BY <1>2, GroupNumbers DEF GroupReads, historyVars, Promised!Read
  <1>3. CASE GroupGoesOn
    BY <1>3, GroupNumbers DEF GroupGoesOn, historyVars
  <1>4. CASE GroupFinishes
    BY <1>4, GroupNumbers
       DEF GroupFinishes, Returned, Greatest, Promised!Return, Promised!Finish
  <1>5. CASE GroupAutoCommits
    <2>1. AutoCommit /\ committed' = pos /\ UNCHANGED <<log, owner, pos, job, historyVars>>
      BY <1>5 DEF GroupAutoCommits
    <2>2. pos \in 0..Promised!CommitLimit
      <3>1. pos \in Nat /\ handled \in Nat
        BY GroupNumbers
      <3>2. CASE pos > handled
        <4>1. Promised!CommitLimit = pos
          BY <2>1, <3>2 DEF Promised!CommitLimit
        <4> QED BY <3>1, <4>1
      <3>3. CASE pos <= handled
        <4>1. ~(pos > handled)
          BY <3>1, <3>3
        <4>2. Promised!CommitLimit = handled
          BY <2>1, <3>3, <4>1 DEF Promised!CommitLimit
        <4> QED BY <3>1, <3>3, <4>2
      <3> QED BY <3>1, <3>2, <3>3
    <2> QED BY <2>1, <2>2 DEF historyVars, Promised!GroupCommit
  <1>6. CASE GroupMoves
    BY <1>6, GroupNumbers DEF GroupMoves, Covered, NoOffset, Promised!Rejoin, Promised!Past
  <1>7. ASSUME NEW r \in Replicas, GroupCommits(r)
        PROVE  [Promised!GroupNext]_(Promised!groupVars)
    <2>1. PICK q \in Seq(1..Len(log)) : q = batch[r] /\ q # << >>
      BY <1>7, GroupNumbers DEF GroupCommits
    <2>2. /\ Head(q) = q[1] /\ 1 \in DOMAIN q /\ q[1] \in 1..Len(log) /\ q[1] <= handled
      BY <2>1, TailEnd DEF GroupInv
    <2>3. committed' \in {q[1], committed} /\ UNCHANGED <<log, owner, pos, job, historyVars>>
      BY <1>7, <2>1, <2>2 DEF GroupCommits
    <2>4. Promised!Past = Covered
      BY GroupNumbers DEF Promised!Past, Covered
    <2>5. ~AutoCommit /\ ~evicted => committed <= q[1] /\ q[1] <= Covered
      BY <2>1, <2>2 DEF CommitInv, Orderly
    <2>6. CASE committed' = q[1]
      <3>1. q[1] \in 0..Promised!CommitLimit
        BY <2>2, <2>4, <2>5, GroupNumbers DEF Promised!CommitLimit
      <3> QED BY <2>3, <2>5, <2>6, <3>1 DEF historyVars, Promised!GroupCommit
    <2>7. CASE committed' = committed
      BY <2>3, <2>7 DEF historyVars
    <2> QED BY <2>3, <2>6, <2>7
  <1>8. ASSUME NEW r \in Replicas, GroupForgets(r)
        PROVE  UNCHANGED Promised!groupVars
    BY <1>8, GroupNumbers DEF GroupForgets, historyVars
  <1> QED BY <1>1, <1>2, <1>3, <1>4, <1>5, <1>6, <1>7, <1>8 DEF GroupStep, OffsetEffect

(* A group of replicas consumes as one consumer that is restarted now and   *)
(* then, although every process keeps its batch over a rebalance and        *)
(* commits from it later, or fails to: GroupPromise says how far such a     *)
(* commit can reach and what it makes the next assignment pass over.  The   *)
(* hypothesis leaves out partitions that move under a running handler.      *)
THEOREM GroupIsOneConsumer ==
  ASSUME Undisturbed
  PROVE  LifeSpec => GroupKeepsPromise
  <1>1. LifeInit => Promised!GroupInit
    <2> SUFFICES ASSUME LifeInit PROVE Promised!GroupInit
      OBVIOUS
    <2>1. Len(log) = 0
      BY DEF LifeInit, IntakeInit
    <2>2. InHand = -1
      BY DEF LifeInit, InHand, NoJob
    <2>3. AutoCommit \in BOOLEAN
      BY LifecycleAssumption
    <2>4. Promised!Init
      BY <2>1, <2>2, <2>3
         DEF LifeInit, Promised!Init, Promised!NoMessage, Promised!NoOffset, NoOffset
    <2> QED BY <2>4 DEF LifeInit, Promised!GroupInit
  <1>2. LifeInv /\ GroupInv /\ CommitInv /\ [LifeNext]_lifeVars
          => [Promised!GroupNext]_(Promised!groupVars)
    BY GroupEffects, NextGroupPromise
  <1> QED BY <1>1, <1>2, LifeInvariant, GroupInvariant, PTL
          DEF LifeSpec, GroupKeepsPromise, Promised!Group

-----------------------------------------------------------------------------
(* The task that is at rest.  The last event of a task that the owner has   *)
(* handled since the assignment shows in its row, unless it is lost; all    *)
(* others are still to come, or are lost.                                   *)
Truthful == Undisturbed /\ ~Happens("delivery_lost")

IsLast(i, t) == i \in Events(t) /\ \A j \in Events(t) : j <= i
Counts(i) == i <= Covered /\ ~Lost(i)

ShowsLast(t) ==
    \A i \in Events(t) : IsLast(i, t) /\ Counts(i) => rows[t].status = Target(log[i])

TableInv == \A t \in Tasks : ShowsLast(t)

(* A step that leaves the row and the events of a task alone keeps what it  *)
(* shows, if none of its events comes to count.                             *)
LEMMA ShowsLastStays ==
  ASSUME NEW t \in Tasks, ShowsLast(t), Events(t)' = Events(t),
         \A i \in Events(t) : log'[i] = log[i],
         rows'[t] = rows[t] \/ Events(t) = {},
         \A i \in Events(t) : Counts(i)' => Counts(i)
  PROVE  ShowsLast(t)'
  BY DEF ShowsLast, IsLast, Target

(* Messages that are no events of t change nothing about its events. *)
LEMMA EventsStay ==
  ASSUME log \in Seq(Messages), NEW t \in Tasks,
         \/ log' = log
         \/ \E m \in Messages : /\ log' = Append(log, m)
                                /\ m.task # t \/ m.status = "PENDING"
  PROVE  Events(t)' = Events(t) /\ \A i \in Events(t) : log'[i] = log[i]
  <1>1. CASE log' = log
    BY <1>1 DEF Events
  <1>2. ASSUME NEW m \in Messages, log' = Append(log, m), m.task # t \/ m.status = "PENDING"
        PROVE  Events(t)' = Events(t) /\ \A i \in Events(t) : log'[i] = log[i]
    <2>1. /\ \A i \in DOMAIN log : i \in DOMAIN log' /\ log'[i] = log[i]
          /\ \A i \in DOMAIN log' : i \in DOMAIN log \/ log'[i] = m
      BY <1>2
    <2> QED BY <1>2, <2>1 DEF Events
  <1> QED BY <1>1, <1>2

LEMMA IntakeShowsLast ==
  ASSUME Truthful, LifeInv, TableInv,
         IntakeNext, UNCHANGED <<workerVars, groupVars, batch, job, historyVars>>
  PROVE  TableInv'
  <1>1. PICK u \in Tasks : IntakeEffect(u)
    BY IntakeEffects DEF LifeInv, IntakeHolds
  <1>2. Command(u) \in Messages /\ Command(u).status = "PENDING"
    BY CommandIsMessage DEF Command
  <1>3. \A t \in Tasks : Events(t)' = Events(t) /\ \A i \in Events(t) : log'[i] = log[i]
    BY <1>1, <1>2, EventsStay, GroupNumbers DEF IntakeEffect, TopicEffect
  <1>4. rows'[u] = rows[u] \/ Events(u) = {}
    <2>1. CASE rows[u] = NoRow
      BY <2>1 DEF Events, LifeInv, TopicInv, MessageInv
    <2>2. CASE pc[u] = "record" /\ Live(u)
      <3>1. report[u] = "err"
        BY <2>2 DEF LifeInv, IntakeHolds, LeftBehind, GaveUp
      <3>2. ~Published(u)
        BY <3>1 DEF LifeInv, IntakeHolds, LeftBehind, Truthful
      <3> QED BY <3>2 DEF Events, LifeInv, TopicInv, MessageInv
    <2> QED BY <1>1, <2>1, <2>2 DEF IntakeEffect, RowEffect
  <1>5. \A i : Counts(i)' <=> Counts(i)
    BY DEF Counts, Lost, Covered, groupVars, historyVars
  <1>6. ASSUME NEW t \in Tasks PROVE ShowsLast(t)'
    <2>1. rows'[t] = rows[t] \/ Events(t) = {}
      BY <1>1, <1>4 DEF IntakeEffect
    <2> QED BY <1>3, <1>5, <2>1, ShowsLastStays DEF TableInv
  <1> QED BY <1>6 DEF TableInv

(* A new event of t is still to be handled. *)
LEMMA WorkerShowsLast ==
  ASSUME LifeInv, GroupInv, TableInv, NEW t \in Tasks, WorkerTakes(t) \/ WorkerEnds(t)
  PROVE  TableInv'
  <1>1. PICK s \in {"PROCESSING", "FAILED", "COMPLETED", NoStatus}, p \in Payloads :
           log' = Append(log, [task |-> t, status |-> s, payload |-> p])
    BY DEF WorkerTakes, WorkerEnds, Payloads
  <1>2. PICK m : m = [task |-> t, status |-> s, payload |-> p]
    OBVIOUS
  <1>3. /\ m \in Messages /\ m.task = t /\ m.status # "PENDING"
        /\ log' = Append(log, m)
    BY <1>1, <1>2 DEF Messages, Statuses, NoStatus
  <1>4. rows' = rows /\ UNCHANGED <<groupVars, job, historyVars>>
    BY DEF WorkerTakes, WorkerEnds
  <1>5. (\A i : Counts(i)' <=> Counts(i)) /\ Covered' = Covered
    BY <1>4 DEF Counts, Lost, Covered, groupVars, historyVars
  <1>6. ShowsLast(t)'
    <2>1. Len(log) + 1 \in Events(t)'
      BY <1>3, GroupNumbers DEF Events
    <2>2. Covered \in Int /\ Covered <= Len(log)
      BY GroupNumbers DEF Covered, InWork
    <2> SUFFICES ASSUME NEW i \in Events(t)', IsLast(i, t)', Counts(i)' PROVE FALSE
      BY DEF ShowsLast
    <2>3. i \in Int /\ i >= Len(log) + 1 /\ i <= Covered
      <3>1. i \in DOMAIN log' /\ DOMAIN log' \subseteq Int
        BY <1>3, GroupNumbers DEF Events
      <3> QED BY <1>5, <2>1, <3>1, GroupNumbers DEF IsLast, Counts
    <2> QED BY <2>2, <2>3, GroupNumbers
  <1>7. ASSUME NEW u \in Tasks \ {t} PROVE ShowsLast(u)'
    <2>1. Events(u)' = Events(u) /\ \A i \in Events(u) : log'[i] = log[i]
      BY <1>3, EventsStay, GroupNumbers
    <2> QED BY <1>4, <1>5, <2>1, ShowsLastStays DEF TableInv
  <1> QED BY <1>6, <1>7 DEF TableInv

(* The message in hand has been handled: if it is an event, the row of its  *)
(* task has its status, or it is lost.                                      *)
LEMMA FinishShowsLast ==
  ASSUME LifeInv, GroupInv, TableInv, GroupFinishes, NEW u, u = log[pos].task,
         \A t \in Tasks \ {u} : rows'[t] = rows[t],
         \/ (log[pos].status = "PENDING" \/ pos \in dropped') /\ rows' = rows
         \/ log[pos].status # "PENDING" /\ rows'[u].status = Target(log[pos])
  PROVE  TableInv'
  <1>1. /\ pos \in 1..Len(log) /\ DOMAIN log = 1..Len(log) /\ log' = log
        /\ Covered = pos - 1 /\ Covered' = pos
    BY GroupNumbers DEF GroupFinishes, Returned, GroupInv, InWork, Covered
  <1>2. \A i : Lost(i) => Lost(i)'
    BY DEF GroupFinishes, Returned, Lost
  <1>3. ASSUME NEW t \in Tasks, NEW i \in Events(t), IsLast(i, t), Counts(i)'
        PROVE  rows'[t].status = Target(log[i])
    <2>1. /\ i \in 1..Len(log) /\ log[i].task = t /\ log[i].status # "PENDING"
          /\ i <= pos /\ ~Lost(i)'
      BY <1>1, <1>3 DEF Events, Counts
    <2>2. CASE i = pos
      <3>1. pos \notin dropped'
        BY <2>1, <2>2 DEF Lost
      <3> QED BY <2>1, <2>2, <3>1
    <2>3. CASE i # pos
      <3>1. Counts(i)
        BY <1>1, <1>2, <2>1, <2>3 DEF Counts
      <3>2. rows[t].status = Target(log[i])
        BY <1>3, <3>1 DEF TableInv, ShowsLast
      <3>3. rows'[t] = rows[t]
        <4>1. CASE t # u \/ rows' = rows
          BY <4>1
        <4>2. CASE t = u /\ log[pos].status # "PENDING"
          <5>1. pos \in Events(t)
            BY <1>1, <4>2 DEF Events
          <5>2. pos <= i
            BY <1>3, <5>1 DEF IsLast
          <5> QED BY <1>1, <2>1, <2>3, <5>2
        <4> QED BY <4>1, <4>2
      <3> QED BY <3>2, <3>3
    <2> QED BY <2>2, <2>3
  <1> QED BY <1>1, <1>3 DEF TableInv, ShowsLast, IsLast, Events, Target

(* The handler fails only on an event whose status the row has already, or  *)
(* on one that it loses.                                                    *)
LEMMA DecideShowsLast ==
  ASSUME LifeInv, GroupInv, TableInv, NEW r \in Replicas, Decide(r)
  PROVE  TableInv'
  <1>1. /\ r = owner /\ InWork /\ job[owner].msg = pos /\ rows' = rows /\ log' = log
        /\ UNCHANGED <<owner, pos, committed, evicted, passed>>
    BY DEF Decide, GroupInv, InWork, intakeVars, groupVars
  <1>2. pos \in DOMAIN log /\ log[pos] \in Messages
    BY <1>1, GroupNumbers
  <1>3. log[pos].status \in Statuses \union {NoStatus} /\ log[pos].task \in Tasks
    BY <1>2 DEF Messages
  <1>4. /\ log[pos].status # "CANCELLED" /\ rows[log[pos].task] # NoRow
        /\ Target(log[pos]) = IF log[pos].status = NoStatus THEN "FAILED" ELSE log[pos].status
    BY <1>2, <1>3, TargetIs DEF LifeInv, TopicInv, MessageInv
  <1>5. CASE job' = [job EXCEPT ![r].phase = "write"] /\ UNCHANGED dropped
    <2>1. \A i : Counts(i)' <=> Counts(i)
      BY <1>1, <1>5, GroupNumbers DEF Counts, Lost, Covered, InWork
    <2>2. ASSUME NEW t \in Tasks PROVE ShowsLast(t)'
      <3>1. Events(t)' = Events(t) /\ \A i \in Events(t) : log'[i] = log[i]
        BY <1>1 DEF Events
      <3> QED BY <1>1, <2>1, <3>1, ShowsLastStays DEF TableInv
    <2> QED BY <2>2 DEF TableInv
  <1>6. CASE Handled(r) /\ Target(log[pos]) \in {"PENDING", "CANCELLED"}
    <2>1. GroupFinishes
      BY <1>1, <1>6 DEF Handled, Returns, Returned, GroupFinishes
    <2>2. log[pos].status = "PENDING"
      BY <1>4, <1>6 DEF NoStatus
    <2> QED BY <1>1, <2>1, <2>2, FinishShowsLast
  <1>7. CASE DatabaseFails(r)
    <2>1. GroupFinishes /\ pos \in dropped'
      BY <1>1, <1>7 DEF DatabaseFails, Rejected, Returns, Returned, GroupFinishes
    <2> QED BY <1>1, <2>1, FinishShowsLast
  <1>8. CASE /\ Rejected(r, {}) /\ rows[log[pos].task].status = Target(log[pos])
             /\ Target(log[pos]) \in Written
    <2>1. GroupFinishes
      BY <1>1, <1>8 DEF Rejected, Returns, Returned, GroupFinishes
    <2>2. log[pos].status # "PENDING"
      BY <1>4, <1>8 DEF NoStatus, Written
    <2> QED BY <1>1, <1>8, <2>1, <2>2, FinishShowsLast
  <1>9. \/ Handled(r) /\ Target(log[pos]) \in {"PENDING", "CANCELLED"}
        \/ DatabaseFails(r)
        \/ /\ Rejected(r, {}) /\ rows[log[pos].task].status = Target(log[pos])
           /\ Target(log[pos]) \in Written
        \/ job' = [job EXCEPT ![r].phase = "write"] /\ UNCHANGED dropped
    BY <1>1, <1>4 DEF Decide, Written, FinalStatuses
  <1> QED BY <1>5, <1>6, <1>7, <1>8, <1>9

LEMMA WriteShowsLast ==
  ASSUME LifeInv, GroupInv, TableInv, NEW r \in Replicas, Write(r)
  PROVE  TableInv'
  <1>1. /\ r = owner /\ InWork /\ job[owner].msg = pos /\ log' = log
        /\ UNCHANGED <<owner, pos, committed, evicted, passed>>
    BY DEF Write, GroupInv, InWork, groupVars
  <1>2. pos \in DOMAIN log /\ log[pos] \in Messages
    BY <1>1, GroupNumbers
  <1>3. log[pos].status \in Statuses \union {NoStatus} /\ log[pos].task \in Tasks
        /\ log[pos].payload \in Payloads
    BY <1>2 DEF Messages
  <1>4. PICK u : u = log[pos].task
    OBVIOUS
  <1>5. PICK s : s = Target(log[pos])
    OBVIOUS
  <1>6. s = (IF log[pos].status = NoStatus THEN "FAILED" ELSE log[pos].status) /\ s \in Written
    BY <1>1, <1>3, <1>5, TargetIs DEF Write, LifeInv, JobInv
  <1>7. log[pos].status # "PENDING"
    BY <1>6 DEF Written, NoStatus
  <1>8. rows \in [Tasks -> Rows \union {NoRow}] /\ rows[u] # NoRow
    BY <1>2, <1>4 DEF LifeInv, TopicInv, MessageInv, IntakeHolds, IntakeInv, IntakeTypeOK
  <1>9. PICK row : row = Updated(rows[u], s, log[pos].payload)
    OBVIOUS
  <1>10. row.status = s
    BY <1>3, <1>4, <1>6, <1>8, <1>9, UpdatedRow
  <1>11. GroupFinishes
    BY <1>1 DEF Write, Handled, Rejected, DatabaseFails, Returns, Returned, GroupFinishes
  <1>12. CASE rows' = [rows EXCEPT ![u] = row]
    <2>1. rows'[u].status = Target(log[pos]) /\ \A t \in Tasks \ {u} : rows'[t] = rows[t]
      BY <1>3, <1>4, <1>5, <1>8, <1>10, <1>12
    <2> QED BY <1>4, <1>7, <1>11, <2>1, FinishShowsLast
  <1>13. CASE DatabaseFails(r) /\ UNCHANGED rows
    <2>1. pos \in dropped'
      BY <1>1, <1>13 DEF DatabaseFails, Rejected
    <2> QED BY <1>4, <1>11, <1>13, <2>1, FinishShowsLast
  <1> QED BY <1>1, <1>4, <1>5, <1>9, <1>12, <1>13 DEF Write

(* Where the table stays as it is, an event comes to count only when it has *)
(* been handled: what an assignment leaves out is passed over.              *)
LEMMA OffsetsShowLast ==
  ASSUME LifeInv, GroupInv, TableInv, UNCHANGED <<rows, log>>, OffsetEffect
  PROVE  TableInv'
  <1>1. ASSUME NEW i \in Int, Counts(i)' PROVE Counts(i)
    <2>1. CASE Covered' = Covered /\ UNCHANGED historyVars
      BY <1>1, <2>1 DEF Counts, Lost, historyVars
    <2>2. CASE GroupMoves
      <3>1. Covered' = pos' /\ pos' \in Int
        BY <2>2, GroupNumbers DEF GroupMoves, Covered, NoOffset
      <3>2. i <= pos' /\ i \notin passed /\ i \notin (Covered + 1)..pos' /\ i \notin dropped
        BY <1>1, <2>2, <3>1 DEF GroupMoves, Counts, Lost
      <3>3. i <= Covered
        BY <3>1, <3>2, GroupNumbers
      <3> QED BY <3>2, <3>3 DEF Counts, Lost
    <2>3. GroupRests \/ GroupReads \/ GroupAutoCommits => Covered' = Covered /\ UNCHANGED historyVars
      BY GroupNumbers
         DEF GroupRests, GroupReads, GroupAutoCommits, groupVars, historyVars, Covered, InWork
    <2>4. ASSUME NEW r \in Replicas, GroupCommits(r) \/ GroupForgets(r)
          PROVE  Covered' = Covered /\ UNCHANGED historyVars
      BY <2>4, GroupNumbers DEF GroupCommits, GroupForgets, historyVars, Covered
    <2> QED BY <2>1, <2>2, <2>3, <2>4 DEF OffsetEffect
  <1>2. ASSUME NEW t \in Tasks PROVE ShowsLast(t)'
    <2>1. Events(t)' = Events(t) /\ Events(t) \subseteq Int
      BY GroupNumbers DEF Events
    <2> QED BY <1>1, <2>1, ShowsLastStays DEF TableInv
  <1> QED BY <1>2 DEF TableInv

LEMMA NextTableInv ==
  ASSUME Truthful
  PROVE  LifeInv /\ GroupInv /\ TableInv /\ [LifeNext]_lifeVars => TableInv'
  <1> SUFFICES ASSUME LifeInv, GroupInv, TableInv, [LifeNext]_lifeVars PROVE TableInv'
    OBVIOUS
  <1>1. CASE IntakeNext /\ UNCHANGED <<workerVars, groupVars, batch, job, historyVars>>
    BY <1>1, IntakeShowsLast
  <1>2. ASSUME NEW t \in Tasks, WorkerTakes(t) \/ WorkerEnds(t) PROVE TableInv'
    BY <1>2, WorkerShowsLast
  <1>3. ASSUME NEW r \in Replicas, Decide(r) PROVE TableInv'
    BY <1>3, DecideShowsLast
  <1>4. ASSUME NEW r \in Replicas, Write(r) PROVE TableInv'
    BY <1>4, WriteShowsLast
  <1>5. CASE OffsetStep
    BY <1>5, OffsetEffects, OffsetsShowLast DEF Truthful
  <1> QED BY <1>1, <1>2, <1>3, <1>4, <1>5 DEF LifeNext, Consume, OffsetStep

(* When the topic has been read to its end and no message is in hand, every *)
(* task shows its last event, in spite of restarts, rebalances, late and    *)
(* failed commits and redelivery, unless that event is among those that an  *)
(* assignment passed over or a failing database swallowed.  The hypothesis  *)
(* leaves out handlers that are overtaken, and delivery reports that lie.   *)
THEOREM SettledTasksShowTheirLastEvent ==
  ASSUME Truthful
  PROVE  LifeSpec => []SettledShowsLastEvent
  <1>1. LifeInit => TableInv
    BY DEF LifeInit, IntakeInit, TableInv, ShowsLast, Events
  <1>2. LifeInv /\ TableInv => SettledShowsLastEvent
    <2> SUFFICES ASSUME LifeInv, TableInv, Settled, NEW t \in Tasks, NEW i \in Events(t),
                        \A j \in Events(t) : j <= i, ~Lost(i)
                 PROVE  rows[t].status = Target(log[i])
      BY DEF SettledShowsLastEvent
    <2>1. Covered = Len(log)
      BY GroupNumbers DEF Settled, Covered
    <2>2. IsLast(i, t) /\ Counts(i)
      BY <2>1, GroupNumbers DEF IsLast, Counts, Events
    <2> QED BY <2>2 DEF TableInv, ShowsLast
  <1>3. LifeSpec => []GroupInv
    BY GroupInvariant, PTL DEF Truthful
  <1> QED BY <1>1, <1>2, <1>3, LifeInvariant, NextTableInv, PTL DEF LifeSpec
=============================================================================
