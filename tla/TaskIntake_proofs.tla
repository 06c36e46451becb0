-------------------------- MODULE TaskIntake_proofs -------------------------
(***************************************************************************)
(* Proofs about TaskIntake, for every set of requests and every choice of  *)
(* the faults: an accepted task is whole, is commanded once, and CreateTask *)
(* implements TaskPromise.                                                 *)
(***************************************************************************)
EXTENDS TaskIntake, TLAPS

(* The stages of a request at which its file, or its row, must be there,   *)
(* those at which no row, or no file, is there yet, and those that Send has *)
(* not reached.                                                            *)
WithFile == {"insert", "produce", "await", "record", "undo_db", "undo_kafka", "accepted"}
WithRow  == {"produce", "await", "record", "undo_kafka", "kafka_error", "accepted"}
NoRowYet == {"new", "upload", "insert", "bad_request", "storage_error"}
NoFileYet == {"new", "upload", "bad_request"}
Unsent   == NoRowYet \union {"produce", "undo_db", "db_error"}

(* What holds of one request.  The report ties the answer to the topic: it *)
(* is given once, when the command leaves the outbox, and says "ok" only   *)
(* of a command that is in the topic.                                      *)
RequestInv(t) ==
    /\ pc[t] \in WithFile => t \in stored
    /\ pc[t] \in NoFileYet => t \notin stored
    /\ pc[t] \in WithRow => rows[t] # NoRow
    /\ pc[t] \in NoRowYet => rows[t] = NoRow
    /\ pc[t] \in Unsent => t \notin outbox /\ report[t] = "none"
    /\ pc[t] \in {"accepted", "crashed"} => t \notin outbox
    /\ pc[t] = "accepted" => report[t] = "ok"
    /\ t \in outbox => report[t] = "none" /\ rows[t] # NoRow
    /\ Published(t) => report[t] # "none" /\ rows[t] # NoRow
    /\ report[t] = "ok" => Published(t)

IntakeInv ==
    /\ IntakeTypeOK
    /\ \A t \in Tasks : RequestInv(t)
    /\ OneCommand

-----------------------------------------------------------------------------
(* The statements on a row make no row disappear. *)
LEMMA NewRowIsRow == NewRow(Now) \in Rows /\ NewRow(Now) # NoRow
  BY DEF NewRow, Now, Rows, NoRow, Times, Null, Statuses, NoStatus

LEMMA ErrorKeepsRow ==
  ASSUME NEW row \in Rows
  PROVE  /\ UpdateWithError(row, "FAILED", Given, Now) \in Rows
         /\ UpdateWithError(row, "FAILED", Given, Now) # NoRow
  <1>1. CompletedAt(row, Now) \in Nat
    BY DEF CompletedAt, Greatest, Coalesce, Rows, Times, Null, Now
  <1>2. "FAILED" \in Statuses /\ "FAILED" # NoStatus
    BY DEF Statuses, NoStatus
  <1>3. /\ UpdateWithError(row, "FAILED", Given, Now) \in Rows
        /\ UpdateWithError(row, "FAILED", Given, Now).status = "FAILED"
    BY <1>1, <1>2 DEF UpdateWithError, Rows, Times
  <1> QED BY <1>2, <1>3 DEF NoRow

LEMMA CommandIsMessage ==
  ASSUME NEW t \in Tasks
  PROVE  Command(t) \in Messages
  BY DEF Command, Messages, Statuses, Payloads

(* What an appended message adds to the topic. *)
LEMMA AppendAdds ==
  ASSUME NEW l \in Seq(Messages), NEW m \in Messages
  PROVE  /\ Append(l, m) \in Seq(Messages)
         /\ \A x : IsIn(x, Append(l, m)) <=> IsIn(x, l) \/ x = m
         /\ \A i \in DOMAIN Append(l, m) :
              \/ i \in DOMAIN l /\ Append(l, m)[i] = l[i]
              \/ i = Len(l) + 1 /\ Append(l, m)[i] = m
  <1>1. /\ Append(l, m) \in Seq(Messages)
        /\ Len(l) \in Nat /\ DOMAIN l = 1..Len(l)
        /\ DOMAIN Append(l, m) = 1..(Len(l) + 1)
        /\ \A i \in 1..Len(l) : Append(l, m)[i] = l[i]
        /\ Append(l, m)[Len(l) + 1] = m
    OBVIOUS
  <1>2. \A i \in DOMAIN Append(l, m) :
           \/ i \in DOMAIN l /\ Append(l, m)[i] = l[i]
           \/ i = Len(l) + 1 /\ Append(l, m)[i] = m
    BY <1>1
  <1>3. \A x : IsIn(x, Append(l, m)) <=> IsIn(x, l) \/ x = m
    BY <1>1, <1>2 DEF IsIn
  <1> QED BY <1>1, <1>2, <1>3

(* A step that neither publishes nor touches another request. *)
OnlyFor(u) ==
    /\ log' = log
    /\ \A t \in Tasks \ {u} :
         /\ pc'[t] = pc[t] /\ rows'[t] = rows[t] /\ report'[t] = report[t]
         /\ t \in stored' <=> t \in stored
         /\ t \in outbox' <=> t \in outbox

LEMMA OthersKeepInv ==
  ASSUME NEW u \in Tasks, IntakeInv, OnlyFor(u), IntakeTypeOK', RequestInv(u)'
  PROVE  IntakeInv'
  <1>1. ASSUME NEW t \in Tasks PROVE RequestInv(t)'
    <2>1. CASE t = u
      BY <2>1
    <2>2. CASE t # u
      BY <2>2 DEF OnlyFor, IntakeInv, RequestInv, Published, IsIn, Command
    <2> QED BY <2>1, <2>2
  <1>2. OneCommand'
    BY DEF OnlyFor, IntakeInv, OneCommand, Command
  <1> QED BY <1>1, <1>2 DEF IntakeInv

-----------------------------------------------------------------------------
LEMMA InitIntakeInv == IntakeInit => IntakeInv
  <1> SUFFICES ASSUME IntakeInit PROVE IntakeInv
    OBVIOUS
  <1>1. IntakeTypeOK
    BY DEF IntakeInit, IntakeTypeOK
  <1>2. \A t \in Tasks : RequestInv(t)
    BY DEF IntakeInit, RequestInv, WithFile, WithRow, NoRowYet, NoFileYet, Unsent, Published, IsIn
  <1>3. OneCommand
    BY DEF IntakeInit, OneCommand
  <1> QED BY <1>1, <1>2, <1>3 DEF IntakeInv

LEMMA ServeKeepsInv ==
  ASSUME IntakeInv, NEW u \in Tasks, Serve(u)
  PROVE  IntakeInv'
  <1> USE DEF IntakeInv, IntakeTypeOK, OnlyFor, RequestInv, Published, Goto
  <1> USE DEF WithFile, WithRow, NoRowYet, NoFileYet, Unsent, Running, Ended, Refusals
  <1>1. CASE BadRequest(u)
    BY <1>1, OthersKeepInv DEF BadRequest
  <1>2. CASE Begin(u)
    BY <1>2, OthersKeepInv DEF Begin
  <1>3. CASE Upload(u)
    BY <1>3, OthersKeepInv DEF Upload, UploadStream
  <1>4. CASE Insert(u)
    BY <1>4, OthersKeepInv, NewRowIsRow DEF Insert
  <1>5. CASE Produce(u)
    BY <1>5, OthersKeepInv DEF Produce
  <1>6. CASE AwaitDelivery(u)
    BY <1>6, OthersKeepInv DEF AwaitDelivery
  <1>7. CASE RecordFailure(u)
    <2>1. rows[u] \in Rows
      BY <1>7 DEF RecordFailure
    <2> QED BY <1>7, <2>1, ErrorKeepsRow, OthersKeepInv DEF RecordFailure
  <1>8. CASE Undo(u)
    BY <1>8, OthersKeepInv DEF Undo, DeleteObject
  <1> QED
    BY <1>1, <1>2, <1>3, <1>4, <1>5, <1>6, <1>7, <1>8 DEF Serve

(* A delivery that fails, visibly and truly. *)
DeliverNothing(u) ==
    /\ u \in outbox /\ outbox' = outbox \ {u}
    /\ report' = [report EXCEPT ![u] = "err"]
    /\ UNCHANGED <<pc, expired, stored, rows, log>>

(* One that puts the command into the topic, whatever is reported of it. *)
DeliverCommand(u) ==
    /\ u \in outbox /\ outbox' = outbox \ {u}
    /\ \E said \in {"ok", "err"} : report' = [report EXCEPT ![u] = said]
    /\ log' = Append(log, Command(u))
    /\ UNCHANGED <<pc, expired, stored, rows>>

LEMMA DeliverIsEither ==
  ASSUME NEW u \in Tasks, Deliver(u)
  PROVE  DeliverNothing(u) \/ DeliverCommand(u)
  BY DEF Deliver, DeliverNothing, DeliverCommand

LEMMA DeliverNothingKeepsInv ==
  ASSUME IntakeInv, NEW u \in Tasks, DeliverNothing(u)
  PROVE  IntakeInv'
  BY OthersKeepInv
     DEF DeliverNothing, IntakeInv, IntakeTypeOK, OnlyFor, RequestInv, Published,
         WithFile, WithRow, NoRowYet, NoFileYet, Unsent

(* The command had no report yet, so it is not in the topic already. *)
LEMMA DeliverCommandKeepsInv ==
  ASSUME IntakeInv, NEW u \in Tasks, DeliverCommand(u)
  PROVE  IntakeInv'
  <1>1. /\ log \in Seq(Messages) /\ Command(u) \in Messages
        /\ log' = Append(log, Command(u))
    BY CommandIsMessage DEF DeliverCommand, IntakeInv, IntakeTypeOK
  <1>2. u \in outbox /\ report[u] = "none" /\ rows[u] # NoRow /\ ~Published(u)
    BY DEF DeliverCommand, IntakeInv, RequestInv
  <1>3. PICK said \in {"ok", "err"} : report' = [report EXCEPT ![u] = said]
    BY DEF DeliverCommand
  <1>4. Published(u)' /\ \A t \in Tasks \ {u} : Published(t)' <=> Published(t)
    BY <1>1, AppendAdds DEF Published, Command
  <1>5. IntakeTypeOK'
    BY <1>1, <1>3, AppendAdds DEF DeliverCommand, IntakeInv, IntakeTypeOK
  <1>6. ASSUME NEW t \in Tasks PROVE RequestInv(t)'
    <2>1. CASE t = u
      BY <1>2, <1>3, <1>4, <2>1
         DEF DeliverCommand, IntakeInv, IntakeTypeOK, RequestInv,
             WithFile, WithRow, NoRowYet, NoFileYet, Unsent
    <2>2. CASE t # u
      BY <1>3, <1>4, <2>2 DEF DeliverCommand, IntakeInv, IntakeTypeOK, RequestInv
    <2> QED BY <2>1, <2>2
  <1>7. OneCommand'
    <2> SUFFICES ASSUME NEW t \in Tasks, NEW i \in DOMAIN log', NEW j \in DOMAIN log',
                        log'[i] = Command(t)', log'[j] = Command(t)'
                 PROVE  i = j
      BY DEF OneCommand
    <2>1. Command(t)' = Command(t)
      BY DEF Command
    <2>2. CASE t = u
      <3>1. i \notin DOMAIN log \/ log'[i] # log[i]
        BY <1>2, <2>1, <2>2 DEF Published, IsIn
      <3>2. j \notin DOMAIN log \/ log'[j] # log[j]
        BY <1>2, <2>1, <2>2 DEF Published, IsIn
      <3> QED BY <1>1, <3>1, <3>2, AppendAdds
    <2>3. CASE t # u
      <3>1. Command(t) # Command(u)
        BY <2>3 DEF Command
      <3>2. i \in DOMAIN log /\ j \in DOMAIN log /\ log'[i] = log[i] /\ log'[j] = log[j]
        BY <1>1, <2>1, <3>1, AppendAdds
      <3> QED BY <2>1, <3>2 DEF IntakeInv, OneCommand
    <2> QED BY <2>2, <2>3
  <1> QED BY <1>5, <1>6, <1>7 DEF IntakeInv

LEMMA NextIntakeInv == IntakeInv /\ [IntakeNext]_intakeVars => IntakeInv'
  <1> SUFFICES ASSUME IntakeInv, [IntakeNext]_intakeVars PROVE IntakeInv'
    OBVIOUS
  <1>1. ASSUME NEW u \in Tasks, Serve(u) PROVE IntakeInv'
    BY <1>1, ServeKeepsInv
  <1>2. ASSUME NEW u \in Tasks, Deliver(u) PROVE IntakeInv'
    BY <1>2, DeliverIsEither, DeliverNothingKeepsInv, DeliverCommandKeepsInv
  <1>3. ASSUME NEW u \in Tasks, Expire(u) PROVE IntakeInv'
    BY <1>3, OthersKeepInv DEF Expire, IntakeInv, IntakeTypeOK, OnlyFor, RequestInv, Published
  <1>4. ASSUME NEW u \in Tasks, Crash(u) PROVE IntakeInv'
    BY <1>4, OthersKeepInv
       DEF Crash, IntakeInv, IntakeTypeOK, OnlyFor, RequestInv, Published, Running, Ended,
           WithFile, WithRow, NoRowYet, NoFileYet, Unsent
  <1>5. CASE UNCHANGED intakeVars
    BY <1>5 DEF intakeVars, IntakeInv, IntakeTypeOK, RequestInv, Published, OneCommand, Command
  <1> QED BY <1>1, <1>2, <1>3, <1>4, <1>5 DEF IntakeNext, IntakeStep

(* At every point of CreateTask it is known which of file, row and command  *)
(* of its request exist.                                                    *)
THEOREM IntakeInvariant == IntakeSpec => []IntakeInv
  BY InitIntakeInv, NextIntakeInv, PTL DEF IntakeSpec

-----------------------------------------------------------------------------
(* The state of the intake is well typed at all times. *)
THEOREM IntakeTypeCorrect == IntakeSpec => []IntakeTypeOK
  <1>1. IntakeInv => IntakeTypeOK
    BY DEF IntakeInv
  <1> QED BY <1>1, IntakeInvariant, PTL

(* An accepted task has its file, its row and its command, whatever fails. *)
THEOREM AcceptedTasksAreWhole == IntakeSpec => []AcceptedIsWhole
  <1>1. IntakeInv => AcceptedIsWhole
    BY DEF IntakeInv, RequestInv, AcceptedIsWhole, WithFile, WithRow
  <1> QED BY <1>1, IntakeInvariant, PTL

(* No task is commanded twice, whatever times out or is reported as failed. *)
THEOREM CommandsAreUnique == IntakeSpec => []OneCommand
  <1>1. IntakeInv => OneCommand
    BY DEF IntakeInv
  <1> QED BY <1>1, IntakeInvariant, PTL

-----------------------------------------------------------------------------
(* What holds of a request on its way to a refusal, and after it.  An       *)
(* expired context never becomes live again, so a request that is live when *)
(* it has been refused was live when its failure was recorded; and a report *)
(* is given once, so the one that Send saw is the one that stands.          *)
GaveUp == {"record", "undo_kafka", "kafka_error"}

(* What a refusal leaves behind: no file, a reason for it, and no command   *)
(* but one that the report lied about.                                     *)
LeftBehind(t) ==
    /\ t \in stored /\ pc[t] = "storage_error" => Happens("upload_lost")
    /\ t \in stored /\ pc[t] \in {"db_error", "kafka_error"} => Happens("delete_fails")
    /\ pc[t] \in GaveUp => report[t] = "err" \/ ~Live(t)
    /\ report[t] = "err" /\ Published(t) => Happens("delivery_lost")

(* What it leaves in the row. *)
Recorded(t) ==
    pc[t] \in GaveUp \ {"record"} /\ Live(t) /\ ~Happens("update_fails") => rows[t].error

RefusalInv(t) == LeftBehind(t) /\ Recorded(t)

IntakeRefusals == \A t \in Tasks : RefusalInv(t)

LEMMA ErrorIsRecorded ==
  ASSUME NEW row \in Rows
  PROVE  UpdateWithError(row, "FAILED", Given, Now).error
  BY DEF UpdateWithError, Rows

(* A step of another request leaves the facts about t alone. *)
LEMMA OthersKeepLeftBehind ==
  ASSUME NEW u \in Tasks, \A t \in Tasks : LeftBehind(t), OnlyFor(u), LeftBehind(u)',
         expired' \in {expired, expired \union {u}}
  PROVE  (\A t \in Tasks : LeftBehind(t))'
  <1> SUFFICES ASSUME NEW t \in Tasks, t # u PROVE LeftBehind(t)'
    OBVIOUS
  <1> QED BY DEF OnlyFor, LeftBehind, Live, Happens, Published, IsIn, Command

LEMMA ServeKeepsLeftBehind ==
  ASSUME IntakeInv, \A t \in Tasks : LeftBehind(t), NEW u \in Tasks, Serve(u)
  PROVE  (\A t \in Tasks : LeftBehind(t))'
  <1> USE DEF IntakeInv, IntakeTypeOK, OnlyFor, LeftBehind, GaveUp, Published, Goto, Live
  <1>1. CASE BadRequest(u)
    BY <1>1, OthersKeepLeftBehind DEF BadRequest
  <1>2. CASE Begin(u)
    BY <1>2, OthersKeepLeftBehind DEF Begin
  <1>3. CASE Upload(u)
    <2>1. u \notin stored
      BY <1>3 DEF Upload, RequestInv, NoFileYet
    <2> QED BY <1>3, <2>1, OthersKeepLeftBehind DEF Upload, UploadStream
  <1>4. CASE Insert(u)
    BY <1>4, OthersKeepLeftBehind DEF Insert
  <1>5. CASE Produce(u)
    BY <1>5, OthersKeepLeftBehind DEF Produce
  <1>6. CASE AwaitDelivery(u)
    BY <1>6, OthersKeepLeftBehind DEF AwaitDelivery
  <1>7. CASE RecordFailure(u)
    BY <1>7, OthersKeepLeftBehind DEF RecordFailure
  <1>8. CASE Undo(u)
    BY <1>8, OthersKeepLeftBehind DEF Undo, DeleteObject
  <1> QED
    BY <1>1, <1>2, <1>3, <1>4, <1>5, <1>6, <1>7, <1>8 DEF Serve

(* A delivery gives the only report, and only the fault "delivery_lost"     *)
(* makes it a wrong one.                                                    *)
LEMMA DeliveryShows ==
  ASSUME IntakeInv, NEW u \in Tasks, Deliver(u)
  PROVE  /\ \A t \in Tasks \ {u} : report'[t] = report[t] /\ (Published(t)' <=> Published(t))
         /\ report'[u] = "err" /\ Published(u)' => Happens("delivery_lost")
  <1>1. u \in outbox /\ report[u] = "none" /\ ~Published(u)
    BY DEF Deliver, IntakeInv, RequestInv
  <1>2. log \in Seq(Messages) /\ Command(u) \in Messages
    BY CommandIsMessage DEF IntakeInv, IntakeTypeOK
  <1>3. CASE log' = log
    BY <1>1, <1>3 DEF Deliver, IntakeInv, IntakeTypeOK, Published, IsIn, Command
  <1>4. CASE log' = Append(log, Command(u))
    <2>1. \A t \in Tasks \ {u} : Published(t)' <=> Published(t)
      BY <1>2, <1>4, AppendAdds DEF Published, Command
    <2>2. log' # log
      BY <1>2, <1>4
    <2> QED BY <2>1, <2>2 DEF Deliver, IntakeInv, IntakeTypeOK
  <1> QED BY <1>3, <1>4 DEF Deliver

LEMMA DeliverKeepsLeftBehind ==
  ASSUME IntakeInv, \A t \in Tasks : LeftBehind(t), NEW u \in Tasks, Deliver(u)
  PROVE  (\A t \in Tasks : LeftBehind(t))'
  <1>1. u \in outbox /\ report[u] = "none" /\ ~Published(u)
    BY DEF Deliver, IntakeInv, RequestInv
  <1>2. UNCHANGED <<pc, expired, stored, rows>>
    BY DEF Deliver
  <1>3. /\ \A t \in Tasks \ {u} : report'[t] = report[t] /\ (Published(t)' <=> Published(t))
        /\ report'[u] = "err" /\ Published(u)' => Happens("delivery_lost")
    BY DeliveryShows
  <1>4. pc[u] \in GaveUp => ~Live(u)
    BY <1>1 DEF LeftBehind
  <1> SUFFICES ASSUME NEW t \in Tasks PROVE LeftBehind(t)'
    OBVIOUS
  <1> QED
    BY <1>2, <1>3, <1>4 DEF LeftBehind, Live, Happens

LEMMA NextLeftBehind ==
  ASSUME IntakeInv, \A t \in Tasks : LeftBehind(t), [IntakeNext]_intakeVars
  PROVE  (\A t \in Tasks : LeftBehind(t))'
  <1>1. ASSUME NEW u \in Tasks, Serve(u) PROVE (\A t \in Tasks : LeftBehind(t))'
    BY <1>1, ServeKeepsLeftBehind
  <1>2. ASSUME NEW u \in Tasks, Deliver(u) PROVE (\A t \in Tasks : LeftBehind(t))'
    BY <1>2, DeliverKeepsLeftBehind
  <1>3. ASSUME NEW u \in Tasks, Expire(u) PROVE (\A t \in Tasks : LeftBehind(t))'
    BY <1>3, OthersKeepLeftBehind DEF Expire, OnlyFor, LeftBehind, Live, Published
  <1>4. ASSUME NEW u \in Tasks, Crash(u) PROVE (\A t \in Tasks : LeftBehind(t))'
    BY <1>4, OthersKeepLeftBehind
       DEF Crash, IntakeInv, IntakeTypeOK, OnlyFor, LeftBehind, GaveUp, Live, Published
  <1>5. CASE UNCHANGED intakeVars
    BY <1>5 DEF intakeVars, LeftBehind, Live, Happens, Published
  <1> QED BY <1>1, <1>2, <1>3, <1>4, <1>5 DEF IntakeNext, IntakeStep

(* The record is made by the step that leaves "record", and no later step  *)
(* of CreateTask takes it back.                                            *)
LEMMA NextRecorded ==
  ASSUME IntakeInv, NEW t \in Tasks, Recorded(t), [IntakeNext]_intakeVars
  PROVE  Recorded(t)'
  <1> USE DEF IntakeInv, IntakeTypeOK, Recorded, GaveUp, Goto, Live
  <1>1. ASSUME NEW u \in Tasks, Serve(u) PROVE Recorded(t)'
    <2>1. CASE BadRequest(u) \/ Begin(u) \/ Upload(u) \/ Produce(u) \/ AwaitDelivery(u)
      BY <2>1 DEF BadRequest, Begin, Upload, Produce, AwaitDelivery
    <2>2. CASE Insert(u)
      BY <2>2 DEF Insert
    <2>3. CASE RecordFailure(u)
      <3>1. rows[u] \in Rows
        BY <2>3 DEF RecordFailure, RequestInv, WithRow
      <3> QED BY <2>3, <3>1, ErrorIsRecorded DEF RecordFailure
    <2>4. CASE Undo(u)
      BY <2>4 DEF Undo
    <2> QED BY <1>1, <2>1, <2>2, <2>3, <2>4 DEF Serve
  <1>2. ASSUME NEW u \in Tasks, Deliver(u) \/ Expire(u) PROVE Recorded(t)'
    BY <1>2 DEF Deliver, Expire
  <1>3. ASSUME NEW u \in Tasks, Crash(u) PROVE Recorded(t)'
    BY <1>3 DEF Crash
  <1>4. CASE UNCHANGED intakeVars
    BY <1>4 DEF intakeVars
  <1> QED BY <1>1, <1>2, <1>3, <1>4 DEF IntakeNext, IntakeStep

LEMMA NextIntakeRefusals ==
  IntakeInv /\ IntakeRefusals /\ [IntakeNext]_intakeVars => IntakeRefusals'
  BY NextLeftBehind, NextRecorded DEF IntakeRefusals, RefusalInv

(* At every point of CreateTask it is known what a refusal from there on    *)
(* leaves behind, and what kept it from doing better.                       *)
THEOREM RefusalsInvariant == IntakeSpec => []IntakeRefusals
  <1>1. IntakeInit => IntakeRefusals
    BY DEF IntakeInit, IntakeRefusals, RefusalInv, LeftBehind, Recorded, GaveUp
  <1> QED BY <1>1, IntakeInvariant, NextIntakeRefusals, PTL DEF IntakeSpec

(* A refused request leaves no file behind, unless the storage failed to    *)
(* say what it did with the upload, or to delete.                           *)
THEOREM RefusalsLeaveNoFile == IntakeSpec => []RefusedLeavesNoFile
  <1>1. IntakeRefusals => RefusedLeavesNoFile
    BY DEF IntakeRefusals, RefusalInv, LeftBehind, RefusedLeavesNoFile
  <1> QED BY <1>1, RefusalsInvariant, PTL

(* The command of a request that was refused for its publication is in the  *)
(* topic only if its deadline had passed, or its delivery report was wrong. *)
THEOREM LateCommandsNeedATimeout == IntakeSpec => []LateCommandNeedsTimeout
  <1>1. IntakeRefusals => LateCommandNeedsTimeout
    BY DEF IntakeRefusals, RefusalInv, LeftBehind, GaveUp, Live, LateCommandNeedsTimeout
  <1> QED BY <1>1, RefusalsInvariant, PTL

(* A failed publication is in the row of its task, unless the deadline has  *)
(* passed, or the UPDATE failed.                                            *)
THEOREM RefusalsAreRecordedInTime == IntakeSpec => []RefusalRecordedInTime
  <1>1. IntakeRefusals => RefusalRecordedInTime
    BY DEF IntakeRefusals, RefusalInv, Recorded, GaveUp, RefusalRecordedInTime
  <1> QED BY <1>1, RefusalsInvariant, PTL

-----------------------------------------------------------------------------
(* The refinement.  Only what a step changes of its own request shows in   *)
(* the promise.                                                            *)
LEMMA PartsAre ==
  ASSUME NEW t \in Tasks
  PROVE  /\ PartsOf(t) \subseteq {"file", "row", "command"}
         /\ "file" \in PartsOf(t) <=> t \in stored
         /\ "row" \in PartsOf(t) <=> rows[t] # NoRow
         /\ "command" \in PartsOf(t) <=> Published(t)
  BY DEF PartsOf

LEMMA InitPromise == IntakeInit => Promise!Init
  <1> SUFFICES ASSUME IntakeInit PROVE Promise!Init
    OBVIOUS
  <1>1. \A t \in Tasks : AnswerOf(pc[t]) = "none"
    BY DEF IntakeInit, AnswerOf, Ended, Refusals
  <1>2. \A t \in Tasks : PartsOf(t) = {}
    BY DEF IntakeInit, PartsOf, Published, IsIn
  <1> QED BY <1>1, <1>2 DEF Promise!Init, Answers, PartsThere

(* What a step of u shows. *)
LEMMA ShowsOnlyFor ==
  ASSUME NEW u \in Tasks, OnlyFor(u)
  PROVE  /\ Answers' = [Answers EXCEPT ![u] = AnswerOf(pc[u])']
         /\ PartsThere' = [PartsThere EXCEPT ![u] = PartsOf(u)']
  <1>1. \A t \in Tasks \ {u} : AnswerOf(pc[t])' = AnswerOf(pc[t]) /\ PartsOf(t)' = PartsOf(t)
    BY DEF OnlyFor, AnswerOf, PartsOf, Published, IsIn, Command
  <1> QED BY <1>1 DEF Answers, PartsThere

LEMMA ShowsNothing ==
  ASSUME NEW u \in Tasks, OnlyFor(u),
         AnswerOf(pc[u])' = AnswerOf(pc[u]), PartsOf(u)' = PartsOf(u)
  PROVE  UNCHANGED Promise!vars
  BY ShowsOnlyFor DEF Promise!vars, Answers, PartsThere

LEMMA ShowsRefusal ==
  ASSUME NEW u \in Tasks, OnlyFor(u),
         AnswerOf(pc[u]) = "none", AnswerOf(pc[u])' = "refused",
         \/ PartsOf(u)' = PartsOf(u)
         \/ PartsOf(u)' = PartsOf(u) \ {"file"}
         \/ PartsOf(u) = {} /\ PartsOf(u)' = {"file"}
  PROVE  Promise!Next
  <1>1. Answers[u] = "none" /\ PartsThere[u] = PartsOf(u)
    BY DEF Answers, PartsThere
  <1>2. Answers' = [Answers EXCEPT ![u] = "refused"]
    BY ShowsOnlyFor
  <1>3. \/ UNCHANGED PartsThere
        \/ PartsThere' = [PartsThere EXCEPT ![u] = @ \ {"file"}]
        \/ PartsThere[u] = {} /\ PartsThere' = [PartsThere EXCEPT ![u] = {"file"}]
    BY <1>1, ShowsOnlyFor DEF PartsThere
  <1> QED BY <1>1, <1>2, <1>3 DEF Promise!Next, Promise!Refuse

LEMMA ShowsGain ==
  ASSUME NEW u \in Tasks, OnlyFor(u), NEW p,
         AnswerOf(pc[u]) = "none", AnswerOf(pc[u])' = "none",
         PartsOf(u)' = PartsOf(u) \union {p}
  PROVE  /\ Answers[u] = "none" /\ UNCHANGED Answers
         /\ PartsThere[u] = PartsOf(u)
         /\ PartsThere' = [PartsThere EXCEPT ![u] = @ \union {p}]
  <1>1. Answers[u] = "none" /\ PartsThere[u] = PartsOf(u)
    BY DEF Answers, PartsThere
  <1>2. Answers' = [Answers EXCEPT ![u] = "none"]
    BY ShowsOnlyFor
  <1>3. PartsThere' = [PartsThere EXCEPT ![u] = PartsOf(u) \union {p}]
    BY ShowsOnlyFor
  <1>4. UNCHANGED Answers
    BY <1>1, <1>2 DEF Answers
  <1>5. PartsThere' = [PartsThere EXCEPT ![u] = @ \union {p}]
    BY <1>1, <1>3
  <1> QED BY <1>1, <1>4, <1>5

(* A step that answers nobody and neither makes nor takes a part. *)
LEMMA SamePartsShow ==
  ASSUME UNCHANGED <<pc, stored>>,
         \A t \in Tasks : (rows'[t] = NoRow <=> rows[t] = NoRow) /\ (Published(t)' <=> Published(t))
  PROVE  UNCHANGED Promise!vars
  <1>1. \A t \in Tasks : AnswerOf(pc[t])' = AnswerOf(pc[t]) /\ PartsOf(t)' = PartsOf(t)
    BY DEF AnswerOf, PartsOf
  <1> QED BY <1>1 DEF Promise!vars, Answers, PartsThere

(* The end of a process: the requests it served are lost, as they are. *)
LEMMA EndShows ==
  ASSUME NEW T \in SUBSET Tasks, \A t \in T : pc[t] \in Running,
         \A t \in Tasks : pc'[t] = IF t \in T THEN "crashed" ELSE pc[t],
         UNCHANGED <<stored, rows, log>>
  PROVE  Promise!Next
  <1>1. UNCHANGED PartsThere
    BY DEF PartsThere, PartsOf, Published, IsIn, Command
  <1>2. \A t \in T : AnswerOf(pc[t]) = "none"
    BY DEF AnswerOf, Running, Refusals
  <1>3. \A t \in Tasks : AnswerOf(pc[t])' = IF t \in T THEN "lost" ELSE AnswerOf(pc[t])
    <2> SUFFICES ASSUME NEW t \in Tasks
                 PROVE  AnswerOf(pc[t])' = IF t \in T THEN "lost" ELSE AnswerOf(pc[t])
      OBVIOUS
    <2>1. CASE t \in T
      BY <2>1 DEF AnswerOf, Refusals
    <2>2. CASE t \notin T
      BY <2>2 DEF AnswerOf
    <2> QED BY <2>1, <2>2
  <1>4. /\ \A t \in T : Answers[t] = "none"
        /\ Answers' = [t \in Tasks |-> IF t \in T THEN "lost" ELSE Answers[t]]
    BY <1>2, <1>3 DEF Answers
  <1>5. Promise!Lose(T)
    BY <1>1, <1>4 DEF Promise!Lose
  <1> QED BY <1>5 DEF Promise!Next

LEMMA ServeShows ==
  ASSUME IntakeInv, NEW u \in Tasks, Serve(u)
  PROVE  [Promise!Next]_(Promise!vars)
  <1> USE DEF IntakeInv, IntakeTypeOK, OnlyFor, Goto, AnswerOf, Refusals
  <1> USE DEF RequestInv, WithFile, WithRow, NoRowYet, NoFileYet, Unsent
  <1>1. CASE BadRequest(u)
    <2>1. OnlyFor(u) /\ PartsOf(u)' = PartsOf(u)
      BY <1>1 DEF BadRequest, PartsOf, Published, IsIn, Command
    <2> QED BY <1>1, <2>1, ShowsRefusal DEF BadRequest
  <1>2. CASE Begin(u)
    <2>1. OnlyFor(u) /\ PartsOf(u)' = PartsOf(u)
      BY <1>2 DEF Begin, PartsOf, Published, IsIn, Command
    <2> QED BY <1>2, <2>1, ShowsNothing DEF Begin
  <1>3. CASE Upload(u)
    <2>1. OnlyFor(u) /\ PartsOf(u) = {} /\ rows'[u] = NoRow /\ Published(u)' = Published(u)
      BY <1>3 DEF Upload, UploadStream, PartsOf, Published, IsIn, Command
    <2>2. CASE pc'[u] = "insert"
      <3>1. PartsOf(u)' = {"file"}
        BY <1>3, <2>1, <2>2 DEF Upload, UploadStream, PartsOf
      <3>2. AnswerOf(pc[u]) = "none" /\ AnswerOf(pc[u])' = "none"
        BY <1>3, <2>2 DEF Upload, UploadStream
      <3>3. /\ Answers[u] = "none" /\ UNCHANGED Answers /\ PartsThere[u] = {}
            /\ PartsThere' = [PartsThere EXCEPT ![u] = @ \union {"file"}]
        <4>1. OnlyFor(u) /\ PartsOf(u)' = PartsOf(u) \union {"file"}
          BY <2>1, <3>1
        <4> HIDE DEF OnlyFor, AnswerOf
        <4> QED BY <2>1, <3>2, <4>1, ShowsGain
      <3>4. Promise!Store(u)
        BY <3>3 DEF Promise!Store, Promise!Add
      <3> QED BY <3>4 DEF Promise!Next
    <2>3. CASE pc'[u] = "storage_error"
      <3>1. PartsOf(u)' = {} \/ PartsOf(u)' = {"file"}
        BY <1>3, <2>1, <2>3 DEF Upload, UploadStream, PartsOf
      <3> QED BY <1>3, <2>1, <2>3, <3>1, ShowsRefusal DEF Upload, UploadStream
    <2> QED BY <1>3, <2>2, <2>3 DEF Upload, UploadStream
  <1>4. CASE Insert(u)
    <2>1. /\ OnlyFor(u) /\ PartsOf(u) = {"file"} /\ u \in stored'
          /\ Published(u)' = Published(u)
      BY <1>4 DEF Insert, PartsOf, Published, IsIn, Command
    <2>2. AnswerOf(pc[u]) = "none" /\ AnswerOf(pc[u])' = "none"
      BY <1>4 DEF Insert
    <2>3. CASE rows'[u] = NoRow
      <3>1. PartsOf(u)' = PartsOf(u)
        BY <2>1, <2>3 DEF PartsOf
      <3> QED BY <2>1, <2>2, <3>1, ShowsNothing
    <2>4. CASE rows'[u] # NoRow
      <3>1. PartsOf(u)' = PartsOf(u) \union {"row"}
        BY <2>1, <2>4 DEF PartsOf
      <3>2. /\ Answers[u] = "none" /\ UNCHANGED Answers
            /\ PartsThere[u] = {"file"}
            /\ PartsThere' = [PartsThere EXCEPT ![u] = @ \union {"row"}]
        BY <2>1, <2>2, <3>1, ShowsGain
      <3> QED BY <3>2 DEF Promise!Next, Promise!Record, Promise!Add
    <2> QED BY <2>3, <2>4
  <1>5. CASE Produce(u)
    <2>1. OnlyFor(u) /\ PartsOf(u)' = PartsOf(u)
      BY <1>5 DEF Produce, PartsOf, Published, IsIn, Command
    <2> QED BY <1>5, <2>1, ShowsNothing DEF Produce
  <1>6. CASE AwaitDelivery(u)
    <2>1. OnlyFor(u) /\ PartsOf(u)' = PartsOf(u)
      BY <1>6 DEF AwaitDelivery, PartsOf, Published, IsIn, Command
    <2>2. CASE pc'[u] = "record"
      BY <1>6, <2>1, <2>2, ShowsNothing DEF AwaitDelivery
    <2>3. CASE pc'[u] = "accepted"
      <3>1. PartsOf(u) = Promise!Parts
        BY <1>6, <2>3, PartsAre DEF AwaitDelivery, Promise!Parts
      <3>2. Answers[u] = "none" /\ Answers' = [Answers EXCEPT ![u] = "accepted"]
        BY <1>6, <2>1, <2>3, ShowsOnlyFor DEF AwaitDelivery, Answers
      <3>3. PartsThere[u] = Promise!Parts /\ UNCHANGED PartsThere
        BY <2>1, <3>1, ShowsOnlyFor DEF PartsThere
      <3> QED BY <3>2, <3>3 DEF Promise!Next, Promise!Accept
    <2> QED BY <1>6, <2>2, <2>3 DEF AwaitDelivery
  <1>7. CASE RecordFailure(u)
    <2>1. rows[u] \in Rows /\ rows[u] # NoRow
      BY <1>7 DEF RecordFailure
    <2>2. OnlyFor(u) /\ rows'[u] # NoRow
      BY <1>7, <2>1, ErrorKeepsRow DEF RecordFailure
    <2>3. PartsOf(u)' = PartsOf(u)
      BY <1>7, <2>1, <2>2 DEF RecordFailure, PartsOf, Published, IsIn, Command
    <2> QED BY <1>7, <2>2, <2>3, ShowsNothing DEF RecordFailure
  <1>8. CASE Undo(u)
    <2>1. OnlyFor(u)
      BY <1>8 DEF Undo, DeleteObject
    <2>2. PartsOf(u)' = PartsOf(u) \/ PartsOf(u)' = PartsOf(u) \ {"file"}
      BY <1>8 DEF Undo, DeleteObject, PartsOf, Published, IsIn, Command
    <2> QED BY <1>8, <2>1, <2>2, ShowsRefusal DEF Undo, DeleteObject
  <1> QED
    BY <1>1, <1>2, <1>3, <1>4, <1>5, <1>6, <1>7, <1>8 DEF Serve

(* A delivery is the Publish of the promise: the request may have been     *)
(* refused by now, but never accepted.                                     *)
LEMMA DeliverShows ==
  ASSUME IntakeInv, NEW u \in Tasks, Deliver(u)
  PROVE  [Promise!Next]_(Promise!vars)
  <1>1. CASE DeliverNothing(u)
    <2>1. /\ OnlyFor(u) /\ AnswerOf(pc[u])' = AnswerOf(pc[u])
          /\ PartsOf(u)' = PartsOf(u)
      BY <1>1 DEF DeliverNothing, IntakeInv, IntakeTypeOK, OnlyFor, PartsOf, Published, IsIn,
                  Command, AnswerOf
    <2> QED BY <2>1, ShowsNothing
  <1>2. CASE DeliverCommand(u)
    <2>1. /\ log \in Seq(Messages) /\ Command(u) \in Messages
          /\ log' = Append(log, Command(u)) /\ UNCHANGED <<pc, stored, rows>>
          /\ rows[u] # NoRow /\ ~Published(u) /\ pc[u] \notin {"accepted", "crashed"}
      BY <1>2, CommandIsMessage DEF DeliverCommand, IntakeInv, IntakeTypeOK, RequestInv
    <2>2. Published(u)' /\ \A t \in Tasks \ {u} : Published(t)' <=> Published(t)
      BY <2>1, AppendAdds DEF Published, Command
    <2>3. UNCHANGED Answers /\ Answers[u] \in {"none", "refused"}
      BY <2>1 DEF Answers, AnswerOf
    <2>4. /\ PartsOf(u)' = PartsOf(u) \union {"command"}
          /\ \A t \in Tasks \ {u} : PartsOf(t)' = PartsOf(t)
      BY <2>1, <2>2 DEF PartsOf
    <2>5. /\ PartsThere' = [PartsThere EXCEPT ![u] = @ \union {"command"}]
          /\ "command" \notin PartsThere[u] /\ "row" \in PartsThere[u]
      BY <2>1, <2>4, PartsAre DEF PartsThere
    <2> QED BY <2>3, <2>5 DEF Promise!Next, Promise!Publish, Promise!Add
  <1> QED BY <1>1, <1>2, DeliverIsEither

LEMMA NextPromise ==
  IntakeInv /\ [IntakeNext]_intakeVars => [Promise!Next]_(Promise!vars)
  <1> SUFFICES ASSUME IntakeInv, [IntakeNext]_intakeVars
               PROVE  [Promise!Next]_(Promise!vars)
    OBVIOUS
  <1>1. ASSUME NEW u \in Tasks, Serve(u) PROVE [Promise!Next]_(Promise!vars)
    BY <1>1, ServeShows
  <1>2. ASSUME NEW u \in Tasks, Deliver(u) PROVE [Promise!Next]_(Promise!vars)
    BY <1>2, DeliverShows
  <1>3. ASSUME NEW u \in Tasks, Expire(u) PROVE [Promise!Next]_(Promise!vars)
    <2>1. OnlyFor(u) /\ AnswerOf(pc[u])' = AnswerOf(pc[u]) /\ PartsOf(u)' = PartsOf(u)
      BY <1>3 DEF Expire, OnlyFor, AnswerOf, PartsOf, Published, IsIn, Command
    <2> QED BY <2>1, ShowsNothing
  <1>4. ASSUME NEW u \in Tasks, Crash(u) PROVE [Promise!Next]_(Promise!vars)
    <2>1. /\ pc[u] \in Running /\ UNCHANGED <<stored, rows, log>>
          /\ \A t \in Tasks : pc'[t] = IF t \in {u} THEN "crashed" ELSE pc[t]
      BY <1>4 DEF Crash, IntakeInv, IntakeTypeOK
    <2> QED BY <2>1, EndShows
  <1>5. CASE UNCHANGED intakeVars
    <2>1. UNCHANGED Answers
      BY <1>5 DEF intakeVars, Answers, AnswerOf
    <2>2. UNCHANGED PartsThere
      BY <1>5 DEF intakeVars, PartsThere, PartsOf, Published, IsIn, Command
    <2> QED BY <2>1, <2>2 DEF Promise!vars
  <1> QED BY <1>1, <1>2, <1>3, <1>4, <1>5 DEF IntakeNext, IntakeStep

(* CreateTask implements the promise to the caller. *)
THEOREM IntakeKeepsPromise == IntakeSpec => KeepsPromise
  BY InitPromise, IntakeInvariant, NextPromise, PTL DEF IntakeSpec, KeepsPromise, Promise!Spec
=============================================================================
