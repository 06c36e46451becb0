------------------------------ MODULE TaskTable -----------------------------
(***************************************************************************)
(* The table "tasks" under the statements of the repository, executed by   *)
(* several database sessions at once: connections of the pools of every    *)
(* gateway replica.  A statement is begun (that fixes its NOW()) and       *)
(* applied later, on whatever version of the row is current by then: it    *)
(* may have waited for a row lock, or on the network, behind others.       *)
(*                                                                         *)
(* Two clocks are involved.  created_at is read from the gateway's clock   *)
(* and NOW() from the database's; they differ by at most Skew.             *)
(***************************************************************************)
EXTENDS TaskRow

CONSTANTS Tasks,        \* task ids
          Sessions,     \* database sessions
          Skew,         \* how far the gateway's clock may be from the database's
          MaxTime       \* bound on the database's clock

ASSUME TaskTableAssumption ==
    /\ Skew \in Nat
    /\ MaxTime \in Nat

VARIABLES rows,         \* the table: task id -> row, or NoRow
          clock,        \* the database's clock
          stmt          \* session -> the UPDATE in flight, or Idle

tableVars == <<rows, clock, stmt>>

(* The statements UpdateTaskStatus and CreateTask issue, and those of other *)
(* callers (the repository's tests): UpdateWithStatus to a final status and *)
(* UpdateWithWorker, which the gateway has no use for yet.  The payload is  *)
(* the result or the message; a status event may lack it.                   *)
Updates ==
    [op : {"status"}, status : {"PROCESSING"} \union FinalStatuses, payload : {NotGiven}]
      \union [op : {"result"}, status : {"COMPLETED"}, payload : Payloads]
      \union [op : {"error"}, status : {"FAILED"}, payload : Payloads]
      \union [op : {"worker"}, status : {"PROCESSING"}, payload : {NotGiven}]

Idle == [op |-> "none"]

InFlight == [op : {"status", "result", "error", "worker"}, status : Statuses,
             payload : Payloads, task : Tasks, now : Nat]

TableTypeOK ==
    /\ rows \in [Tasks -> Rows \union {NoRow}]
    /\ clock \in 0..MaxTime
    /\ stmt \in [Sessions -> InFlight \union {Idle}]

TableInit ==
    /\ rows = [t \in Tasks |-> NoRow]
    /\ clock = 0
    /\ stmt = [s \in Sessions |-> Idle]

Tick ==
    /\ clock < MaxTime
    /\ clock' = clock + 1
    /\ UNCHANGED <<rows, stmt>>

Create(t, created) ==
    /\ rows[t] = NoRow
    /\ rows' = [rows EXCEPT ![t] = NewRow(created)]
    /\ UNCHANGED <<clock, stmt>>

(* The usecase has read the row with GetByID before it issues an update, or *)
(* has just inserted it: a statement is begun on a row that exists.         *)
Begin(s, u, t) ==
    /\ stmt[s] = Idle
    /\ rows[t] # NoRow
    /\ stmt' = [stmt EXCEPT ![s] = [op |-> u.op, status |-> u.status,
                                    payload |-> u.payload, task |-> t, now |-> clock]]
    /\ UNCHANGED <<rows, clock>>

(* The row that the statement q writes. *)
Outcome(q) ==
    LET row == rows[q.task]
    IN CASE q.op = "status" -> UpdateWithStatus(row, q.status, q.now)
         [] q.op = "result" -> UpdateWithResult(row, q.status, q.payload, q.now)
         [] q.op = "error"  -> UpdateWithError(row, q.status, q.payload, q.now)
         [] q.op = "worker" -> UpdateWithWorker(row, q.status, q.now)

(* Postgres executes the statement, or refuses it for a CHECK constraint. *)
Apply(s) ==
    LET q == stmt[s]
    IN /\ q # Idle
       /\ rows' = IF Admissible(Outcome(q))
                  THEN [rows EXCEPT ![q.task] = Outcome(q)]
                  ELSE rows
       /\ stmt' = [stmt EXCEPT ![s] = Idle]
       /\ UNCHANGED clock

TableNext ==
    \/ Tick
    \/ \E t \in Tasks, d \in (-Skew)..Skew : clock + d \in Nat /\ Create(t, clock + d)
    \/ \E s \in Sessions, u \in Updates, t \in Tasks : Begin(s, u, t)
    \/ \E s \in Sessions : Apply(s)

TableSpec == TableInit /\ [][TableNext]_tableVars

-----------------------------------------------------------------------------
(* No statement of the gateway is ever refused for a CHECK constraint,      *)
(* whatever ran between its NOW() and its execution and however far apart   *)
(* the clocks are: GREATEST(NOW(), created_at, ...) in the three UPDATEs is *)
(* there for this.  A refusal would lose a status change.  UpdateWithWorker *)
(* writes NOW() alone, and is safe only while the two clocks are one.       *)
NoUpdateRefused ==
    \A s \in Sessions :
        stmt[s] # Idle /\ (stmt[s].op = "worker" => Skew = 0) => Admissible(Outcome(stmt[s]))

(* A task never shows a completion earlier than its start, although the two *)
(* times are written by statements that may overtake each other: a late     *)
(* UPDATE to PROCESSING must not move started_at past completed_at.  (Only  *)
(* UpdateWithWorker, which starts a task anew, can do that.)                *)
StartPrecedesCompletion ==
    \A t \in Tasks :
        rows[t] # NoRow /\ ~rows[t].worker /\ rows[t].started # Null
          /\ rows[t].completed # Null => rows[t].started <= rows[t].completed

(* A task that is PROCESSING shows when it was started, as the repository's *)
(* test wants of the transition, whichever statements ran before; only a    *)
(* task that goes back to PROCESSING after its end may show no start, and   *)
(* then it shows that end (UpdateWithStatus sets started_at on a PENDING    *)
(* row or together with a final status, and on no other).                   *)
UnstartedHadEnded ==
    \A t \in Tasks :
        rows[t] # NoRow /\ rows[t].status = "PROCESSING" /\ rows[t].started = Null
            => rows[t].completed # Null

(* A finished task always carries its completion time. *)
FinishedHasCompletion ==
    \A t \in Tasks :
        rows[t] # NoRow /\ rows[t].status \in FinalStatuses => rows[t].completed # Null
=============================================================================
