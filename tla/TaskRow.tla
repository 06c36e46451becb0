------------------------------- MODULE TaskRow ------------------------------
(***************************************************************************)
(* One row of the table "tasks" and the statements the repository executes *)
(* on it (adapter/database/postgres/task_repository.go).  Each statement   *)
(* is a single SQL UPDATE, so Postgres evaluates its SET expressions on    *)
(* the current version of the row: every operator below maps that version  *)
(* to the next one.                                                        *)
(*                                                                         *)
(* A time is a natural number, Null is SQL NULL.  Texts and payloads       *)
(* (metadata, result, error_message, worker_id) are kept only as "is there": *)
(* a result that is not NULL, a message that is not empty.  A statement    *)
(* that is given neither takes away the one the row had.                   *)
(***************************************************************************)
EXTENDS TaskStatus

Null == -1
Times == Nat \union {Null}

(* GREATEST ignores NULL arguments, as Null is below every time. *)
Greatest(a, b) == IF a >= b THEN a ELSE b
Coalesce(a, b) == IF a = Null THEN b ELSE a

Rows == [status    : Statuses,
         created   : Nat,
         started   : Times,
         completed : Times,
         result    : BOOLEAN,
         error     : BOOLEAN,
         worker    : BOOLEAN]

NoRow == [status |-> NoStatus]

(* What a statement is given to write: a result or a message, or none (nil, *)
(* the empty text).                                                         *)
Given == "given"
NotGiven == "none"
Payloads == {Given, NotGiven}

(* Mutant: the row starts in a state the type does not have. *)
NewRowQueued(created) ==
    [status |-> "QUEUED", created |-> created, started |-> Null, completed |-> Null,
     result |-> FALSE, error |-> FALSE, worker |-> FALSE]

(* Create: the INSERT of a new task; created_at is the gateway's clock. *)
NewRow(created) ==
    [status |-> "PENDING", created |-> created, started |-> Null, completed |-> Null,
     result |-> FALSE, error |-> FALSE, worker |-> FALSE]

(* Mutants: NOW() alone; the start forgotten. *)
CompletedAtNow(row, now) == now
CompletedAtForgetsStart(row, now) == Greatest(now, row.created)

(* The expression that every statement writes into completed_at. *)
CompletedAt(row, now) ==
    Greatest(now, Greatest(row.created, Coalesce(row.started, row.created)))

(* Mutant: only a final status sets the start. *)
StartedAtTheEnd(row, s, now) ==
    IF row.started = Null /\ s \in FinalStatuses THEN Greatest(now, row.created) ELSE row.started

(* The CASE that UpdateWithStatus writes into started_at: a first           *)
(* PROCESSING or a final status on a row without a start sets it.           *)
StartedAt(row, s, now) ==
    IF \/ row.status = "PENDING" /\ s = "PROCESSING"
       \/ row.started = Null /\ s \in FinalStatuses
    THEN Greatest(now, row.created)
    ELSE row.started

UpdateWithStatus(row, s, now) ==
    [row EXCEPT !.status    = s,
                !.started   = StartedAt(row, s, now),
                !.completed = IF s \in FinalStatuses THEN CompletedAt(row, now) ELSE @]

UpdateWithResult(row, s, result, now) ==
    [row EXCEPT !.result = (result = Given), !.status = s, !.completed = CompletedAt(row, now)]

(* Mutant: only the message and the status are written. *)
UpdateWithErrorUndated(row, s, message, now) ==
    [row EXCEPT !.error = (message = Given), !.status = s]

UpdateWithError(row, s, message, now) ==
    [row EXCEPT !.error = (message = Given), !.status = s, !.completed = CompletedAt(row, now)]

UpdateWithWorker(row, s, now) ==
    [row EXCEPT !.status = s, !.worker = TRUE, !.started = now]

(* The CHECK constraints of the migration: a statement whose result breaks *)
(* one is refused by Postgres and changes nothing.                         *)
DateCheck(row) ==
    /\ row.started = Null \/ row.started >= row.created
    /\ row.completed = Null \/ row.completed >= row.created

StatusCheck(row) == row.status \in Statuses

Admissible(row) == DateCheck(row) /\ StatusCheck(row)
=============================================================================
