----------------------------- MODULE TaskIntake -----------------------------
(***************************************************************************)
(* Taking in a task: POST /api/v1/tasks/{filename} down to                 *)
(* TaskLLMUC.CreateTask, a hand-written saga over three systems without a  *)
(* common transaction.                                                     *)
(*                                                                         *)
(*   bad_request <- new -> upload -> insert -> produce -> await -> accepted *)
(*                           |         |                    |              *)
(*                     storage_error  undo_db           record             *)
(*                                     |                    |              *)
(*                                  db_error            undo_kafka         *)
(*                                                          |              *)
(*                                                     kafka_error         *)
(*                                                                         *)
(* Every request makes one task with fresh ids, so a request and its task  *)
(* are the same t.  The requests run concurrently, each under a context    *)
(* with a deadline (30 s, or the client going away); the upload, the       *)
(* INSERT, the Send and the UPDATE that records a failure all use that     *)
(* context, and only the compensating DeleteObject does not.               *)
(*                                                                         *)
(* MinIO, Postgres and librdkafka are modelled from how the code uses      *)
(* them.  Faults says what else they and the process may do:               *)
(*   "upload_lost"    an upload reported as failed has stored the object   *)
(*   "insert_lost"    an INSERT reported as failed has been committed      *)
(*   "delivery_lost"  a delivery reported as failed is in the topic        *)
(*   "update_fails"   the UPDATE that records a failure fails              *)
(*   "delete_fails"   the compensating DeleteObject fails                  *)
(*   "crash"          the process dies, or exits, in the middle of requests *)
(* A plain failure (reported, and without effect) is always possible.      *)
(***************************************************************************)
EXTENDS TaskRow, Sequences

CONSTANTS Tasks,        \* requests, and the tasks they make
          Faults        \* the extra faults of this model

AllFaults == {"upload_lost", "insert_lost", "delivery_lost",
              "update_fails", "delete_fails", "crash"}

ASSUME IntakeAssumption == Faults \subseteq AllFaults

VARIABLES pc,           \* request -> where CreateTask is, or how it ended
          expired,      \* the requests whose context is done
          stored,       \* the tasks whose file is in the object storage
          rows,         \* the table: task -> row or NoRow
          outbox,       \* tasks whose command librdkafka has yet to deliver
          report,       \* task -> the delivery report, "none" before it
          log           \* the topic: commands and status events, in order

intakeVars == <<pc, expired, stored, rows, outbox, report, log>>

Running == {"upload", "insert", "produce", "await", "record", "undo_db", "undo_kafka"}
Refusals == {"bad_request", "storage_error", "db_error", "kafka_error"}
Ended == Refusals \union {"accepted", "crashed"}

(* A message: the task in its key, the status of its "status" header (none *)
(* if the header is missing), and whether its body has what goes with that  *)
(* status: a result, or an error message.  The command is the one with      *)
(* status PENDING, and has neither.                                         *)
Messages == [task : Tasks, status : Statuses \union {NoStatus}, payload : Payloads]
CommandRenamed(t) == [task |-> t, status |-> "CREATED", payload |-> NotGiven]   \* mutant
Command(t) == [task |-> t, status |-> "PENDING", payload |-> NotGiven]
IsIn(m, l) == \E i \in DOMAIN l : l[i] = m
Published(t) == IsIn(Command(t), log)

(* Times are the subject of TaskTable; here they all are Now. *)
Now == 0

IntakeTypeOK ==
    /\ pc \in [Tasks -> {"new"} \union Running \union Ended]
    /\ expired \subseteq Tasks
    /\ stored \subseteq Tasks
    /\ rows \in [Tasks -> Rows \union {NoRow}]
    /\ outbox \subseteq Tasks
    /\ report \in [Tasks -> {"none", "ok", "err"}]
    /\ log \in Seq(Messages)

IntakeInit ==
    /\ pc = [t \in Tasks |-> "new"]
    /\ expired = {}
    /\ stored = {}
    /\ rows = [t \in Tasks |-> NoRow]
    /\ outbox = {}
    /\ report = [t \in Tasks |-> "none"]
    /\ log = << >>

Goto(t, from, to) == pc[t] = from /\ pc' = [pc EXCEPT ![t] = to]
Live(t) == t \notin expired
Happens(fault) == fault \in Faults

-----------------------------------------------------------------------------
(* createTask and the first checks of CreateTask: no effect before them. *)
BadRequest(t) ==
    /\ Goto(t, "new", "bad_request")
    /\ UNCHANGED <<expired, stored, rows, outbox, report, log>>

Begin(t) ==
    /\ Goto(t, "new", "upload")
    /\ UNCHANGED <<expired, stored, rows, outbox, report, log>>

(* The adapter's calls, as they end for their caller: UploadStream uses the *)
(* context it is given, DeleteObject is given one without a deadline.       *)
UploadStream(t, error) ==
    \/ ~error /\ Live(t) /\ stored' = stored \union {t}
    \/ error /\ Happens("upload_lost") /\ stored' = stored \union {t}
    \/ error /\ UNCHANGED stored

DeleteObject(t) ==
    \/ stored' = stored \ {t}
    \/ Happens("delete_fails") /\ UNCHANGED stored

(* A failed upload is answered at once: the compensation is not registered *)
(* yet.                                                                    *)
Upload(t) ==
    /\ \/ Goto(t, "upload", "insert") /\ UploadStream(t, FALSE)
       \/ Goto(t, "upload", "storage_error") /\ UploadStream(t, TRUE)
    /\ UNCHANGED <<expired, rows, outbox, report, log>>

(* Mutant: the error of Create is logged and dropped. *)
InsertIgnoringError(t) ==
    /\ Goto(t, "insert", "produce")
    /\ UNCHANGED rows \/ (Live(t) /\ rows' = [rows EXCEPT ![t] = NewRow(Now)])
    /\ UNCHANGED <<expired, stored, outbox, report, log>>

(* taskRepo.Create. *)
Insert(t) ==
    /\ \/ /\ Goto(t, "insert", "produce")
          /\ Live(t)
          /\ rows' = [rows EXCEPT ![t] = NewRow(Now)]
       \/ /\ Goto(t, "insert", "undo_db")
          /\ \/ UNCHANGED rows
             \/ Happens("insert_lost") /\ rows' = [rows EXCEPT ![t] = NewRow(Now)]
    /\ UNCHANGED <<expired, stored, outbox, report, log>>

(* Send, first half: Produce queues the command.  When librdkafka's queue is *)
(* full it returns an error, which Send ignores: then no report will come.  *)
(* (The payload is texts and numbers, which json.Marshal cannot refuse, and *)
(* nothing but the report of this message arrives on its delivery channel.) *)
Produce(t) ==
    /\ Goto(t, "produce", "await")
    /\ \/ outbox' = outbox \union {t}
       \/ UNCHANGED outbox
    /\ UNCHANGED <<expired, stored, rows, report, log>>

(* librdkafka, in the background: with idempotence one record per command. *)
Deliver(t) ==
    /\ t \in outbox
    /\ outbox' = outbox \ {t}
    /\ \/ /\ log' = Append(log, Command(t))
          /\ report' = [report EXCEPT ![t] = "ok"]
       \/ /\ report' = [report EXCEPT ![t] = "err"]
          /\ \/ UNCHANGED log
             \/ Happens("delivery_lost") /\ log' = Append(log, Command(t))
    /\ UNCHANGED <<pc, expired, stored, rows>>

(* Mutants: Send takes any report for success; gives up after a time of its *)
(* own; waits for the report alone; a failed delivery is sent once more.    *)
AwaitAnyReport(t) ==
    /\ \/ report[t] # "none" /\ Goto(t, "await", "accepted")
       \/ ~Live(t) /\ Goto(t, "await", "record")
    /\ UNCHANGED <<expired, stored, rows, outbox, report, log>>

AwaitOwnTimeout(t) ==
    /\ \/ report[t] = "ok" /\ Goto(t, "await", "accepted")
       \/ Goto(t, "await", "record")
    /\ UNCHANGED <<expired, stored, rows, outbox, report, log>>

AwaitReportOnly(t) ==
    /\ \/ report[t] = "ok" /\ Goto(t, "await", "accepted")
       \/ report[t] = "err" /\ Goto(t, "await", "record")
    /\ UNCHANGED <<expired, stored, rows, outbox, report, log>>

AwaitAndResend(t) ==
    /\ \/ report[t] = "ok" /\ Goto(t, "await", "accepted")
       \/ report[t] = "err" /\ Goto(t, "await", "produce")
       \/ ~Live(t) /\ Goto(t, "await", "record")
    /\ UNCHANGED <<expired, stored, rows, outbox, report, log>>

(* Send, second half: select on the context and on the delivery report, at *)
(* random if both are ready.  Success ends the request and keeps the file. *)
AwaitDelivery(t) ==
    /\ \/ report[t] = "ok" /\ Goto(t, "await", "accepted")
       \/ report[t] = "err" /\ Goto(t, "await", "record")
       \/ ~Live(t) /\ Goto(t, "await", "record")
    /\ UNCHANGED <<expired, stored, rows, outbox, report, log>>

(* Mutant: the failure is recorded without its message. *)
RecordStatusOnly(t) ==
    /\ Goto(t, "record", "undo_kafka")
    /\ \/ /\ Live(t)
          /\ rows' = [rows EXCEPT ![t] = UpdateWithStatus(@, "FAILED", Now)]
       \/ /\ ~Live(t) \/ Happens("update_fails")
          /\ UNCHANGED rows
    /\ UNCHANGED <<expired, stored, outbox, report, log>>

(* UpdateWithError(ctx, FAILED, err.Error()): the same context, so it can  *)
(* only succeed while the context is live; its error is logged and dropped. *)
(* The text of an error of Send is never empty.                            *)
RecordFailure(t) ==
    /\ Goto(t, "record", "undo_kafka")
    /\ \/ /\ Live(t)
          /\ rows' = [rows EXCEPT ![t] = UpdateWithError(@, "FAILED", Given, Now)]
       \/ /\ ~Live(t) \/ Happens("update_fails")
          /\ UNCHANGED rows
    /\ UNCHANGED <<expired, stored, outbox, report, log>>

(* Mutant: the compensation uses the request's context, too. *)
UndoUnderDeadline(t) ==
    /\ Goto(t, "undo_db", "db_error") \/ Goto(t, "undo_kafka", "kafka_error")
    /\ IF Live(t) THEN stored' = stored \ {t} ELSE UNCHANGED stored
    /\ UNCHANGED <<expired, rows, outbox, report, log>>

(* The deferred compensation, then the answer. *)
Undo(t) ==
    /\ Goto(t, "undo_db", "db_error") \/ Goto(t, "undo_kafka", "kafka_error")
    /\ DeleteObject(t)
    /\ UNCHANGED <<expired, rows, outbox, report, log>>

(* The deadline passes, or the client closes the connection. *)
Expire(t) ==
    /\ pc[t] \in Running /\ Live(t)
    /\ expired' = expired \union {t}
    /\ UNCHANGED <<pc, stored, rows, outbox, report, log>>

(* The replica that serves t dies: no deferred function runs, and what its *)
(* librdkafka has not delivered is gone.                                   *)
Crash(t) ==
    /\ Happens("crash")
    /\ pc[t] \in Running
    /\ pc' = [pc EXCEPT ![t] = "crashed"]
    /\ outbox' = outbox \ {t}
    /\ UNCHANGED <<expired, stored, rows, report, log>>

Serve(t) ==
    \/ BadRequest(t) \/ Begin(t) \/ Upload(t) \/ Insert(t) \/ Produce(t)
    \/ AwaitDelivery(t) \/ RecordFailure(t) \/ Undo(t)

IntakeStep(t) == Serve(t) \/ Deliver(t) \/ Expire(t) \/ Crash(t)

IntakeNext == \E t \in Tasks : IntakeStep(t)

(* A request that has begun goes on, its deadline comes, and a queued      *)
(* message is delivered or fails (librdkafka's message.timeout.ms).        *)
IntakeFairness ==
    \A t \in Tasks :
        WF_intakeVars(pc[t] # "new" /\ Serve(t)) /\ WF_intakeVars(Expire(t)) /\ WF_intakeVars(Deliver(t))

IntakeSpec == IntakeInit /\ [][IntakeNext]_intakeVars /\ IntakeFairness

-----------------------------------------------------------------------------
(* An answer 202 is never an empty promise: the file, the row and the      *)
(* command all exist, and the compensation of this or any other request    *)
(* has not taken the file away (needsCleanup, CreateTask).                 *)
AcceptedIsWhole ==
    \A t \in Tasks :
        pc[t] = "accepted" => t \in stored /\ rows[t] # NoRow /\ Published(t)

(* A refused request leaves no file behind, except when the storage itself *)
(* failed to say what it did or to delete: a deadline that passed in the   *)
(* middle must not disable the compensation.                               *)
RefusedLeavesNoFile ==
    \A t \in Tasks :
        t \in stored =>
            /\ pc[t] = "storage_error" => Happens("upload_lost")
            /\ pc[t] \in {"db_error", "kafka_error"} => Happens("delete_fails")

(* A task is commanded at most once, whatever times out or is reported as  *)
(* failed: nothing in CreateTask sends a second time.                      *)
OneCommand ==
    \A t \in Tasks, i, j \in DOMAIN log :
        log[i] = Command(t) /\ log[j] = Command(t) => i = j

(* A worker gets the command of a request that was answered with an error  *)
(* only if Send gave up on the deadline, or the broker lost its answer.    *)
LateCommandNeedsTimeout ==
    \A t \in Tasks :
        pc[t] = "kafka_error" /\ Published(t)
            => t \in expired \/ Happens("delivery_lost")

(* A publication failure is recorded in the row of the task, unless the    *)
(* deadline has passed (or the UPDATE itself fails).                       *)
RefusalRecordedInTime ==
    \A t \in Tasks :
        pc[t] = "kafka_error" /\ Live(t) /\ ~Happens("update_fails") => rows[t].error

(* What the test of CreateTask states without the proviso: after a failed  *)
(* publication the error is saved with the task.                           *)
RefusalRecorded ==
    \A t \in Tasks : pc[t] = "kafka_error" => rows[t].error

(* Every request is answered, even if librdkafka refused its command and   *)
(* no delivery report will ever come: the deadline ends the wait.          *)
EveryRequestAnswered ==
    \A t \in Tasks : pc[t] \in Running ~> pc[t] \in Ended

-----------------------------------------------------------------------------
(* The promise to the caller.  A request whose replica died is lost. *)
AnswerOf(p) ==
    CASE p = "accepted"  -> "accepted"
      [] p = "crashed"   -> "lost"
      [] p \in Refusals  -> "refused"
      [] OTHER           -> "none"

PartsOf(t) ==
    (IF t \in stored THEN {"file"} ELSE {})
      \union (IF rows[t] # NoRow THEN {"row"} ELSE {})
      \union (IF Published(t) THEN {"command"} ELSE {})

Answers == [t \in Tasks |-> AnswerOf(pc[t])]
PartsThere == [t \in Tasks |-> PartsOf(t)]

Promise == INSTANCE TaskPromise WITH answer <- Answers, parts <- PartsThere

(* CreateTask keeps the promise: whatever fails, a request moves through   *)
(* the parts in their order and is accepted only when all are there.       *)
KeepsPromise == Promise!Spec
=============================================================================
