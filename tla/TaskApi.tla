------------------------------- MODULE TaskApi ------------------------------
(***************************************************************************)
(* What a client of the REST API sees of the life of a task                *)
(* (internal/handlers/restapi/v1): the answer to its POST and, whenever it *)
(* asks, the answer to GET /api/v1/tasks/{task_id}.  A GET is one SELECT;  *)
(* its answer is on the way while the system moves on, so a client sees a  *)
(* state of the past.  Every error is an AppError on both paths, and       *)
(* handleError answers with the status the error carries.                  *)
(***************************************************************************)
EXTENDS TaskLifecycle

VARIABLES polled,       \* task -> the answer to a GET that is on its way, or NoAnswer
          shown         \* task -> the last answer the client has seen, or NoAnswer

apiVars == <<lifeVars, polled, shown>>

(* An answer: the HTTP status and, with 200, the status of the task and    *)
(* whether task_results and error_message are there.                       *)
Answer(http, status, result, error) ==
    [http |-> http, status |-> status, result |-> result, error |-> error]
Failure(http) == Answer(http, NoStatus, FALSE, FALSE)
NoAnswer == Failure(0)

AnswersTo == [http : {0, 200, 400, 500}, status : Statuses \union {NoStatus},
              result : BOOLEAN, error : BOOLEAN]

(* New and Wrap give an AppError the status 500; WithStatus replaces it.   *)
AppError == [kind |-> "app", status |-> 500]
WithStatus(err, status) == [err EXCEPT !.status = status]

(* handleError. *)
HandleError(err) ==
    CASE err.kind = "validation" -> 400
      [] err.kind = "app"        -> err.status
      [] OTHER                   -> 500

(* createTask: how the ways in which a POST ends are answered. *)
PostAnswer(p) ==
    CASE p = "accepted"      -> 202
      [] p = "bad_request"   -> HandleError(WithStatus(AppError, 400))
      [] p = "storage_error" -> HandleError(WithStatus(AppError, 500))
      [] p \in {"db_error", "kafka_error"} -> HandleError(AppError)
      [] OTHER -> 0

ApiTypeOK ==
    /\ LifeTypeOK
    /\ polled \in [Tasks -> AnswersTo]
    /\ shown \in [Tasks -> AnswersTo]

ApiInit ==
    /\ LifeInit
    /\ polled = [t \in Tasks |-> NoAnswer]
    /\ shown = [t \in Tasks |-> NoAnswer]

(* getTaskByID with an id that is not one. *)
GetBadID(t) ==
    /\ polled[t] = NoAnswer
    /\ polled' = [polled EXCEPT ![t] = Failure(HandleError(WithStatus(AppError, 400)))]
    /\ UNCHANGED <<lifeVars, shown>>

(* The repository's GetByID: the row, or an error.  A missing row and a     *)
(* failed query are told apart by the text of the error only; with either *)
(* comes no task.                                                           *)
NotGot == NoRow
GetByID(t) ==
    (IF rows[t] = NoRow \/ May("db_fails") THEN {NotGot} ELSE {})
      \union (IF rows[t] = NoRow THEN {} ELSE {rows[t]})

(* TaskLLMUC.GetTaskByID and what getTaskByID answers on its outcome. *)
GetTaskByID(got) ==
    IF got = NotGot
    THEN Failure(HandleError(WithStatus(AppError, 500)))
    ELSE Answer(200, got.status, got.result, got.error)

GetTask(t) ==
    /\ polled[t] = NoAnswer
    /\ \E got \in GetByID(t) : polled' = [polled EXCEPT ![t] = GetTaskByID(got)]
    /\ UNCHANGED <<lifeVars, shown>>

(* The answer reaches the client. *)
Show(t) ==
    /\ polled[t] # NoAnswer
    /\ shown' = [shown EXCEPT ![t] = polled[t]]
    /\ polled' = [polled EXCEPT ![t] = NoAnswer]
    /\ UNCHANGED lifeVars

ApiNext ==
    \/ LifeNext /\ UNCHANGED <<polled, shown>>
    \/ \E t \in Tasks : GetBadID(t) \/ GetTask(t) \/ Show(t)

ApiSpec == ApiInit /\ [][ApiNext]_apiVars

-----------------------------------------------------------------------------
(* Some event of t stated one of these statuses, with such a payload. *)
Stated(t, S, payload) ==
    \E i \in Events(t) : log[i].status \in S /\ log[i].payload = payload

(* The status a client reads fits what comes with it, whatever order the   *)
(* events had and whoever wrote the row: COMPLETED without a result, or    *)
(* FAILED without a message, is the fault of an event that had none; a     *)
(* result comes from a COMPLETED event, and a message from a failure that   *)
(* the worker reported, or CreateTask.                                     *)
AnswersFit ==
    \A t \in Tasks :
        shown[t].http = 200 =>
            /\ shown[t].status = "COMPLETED" /\ ~shown[t].result =>
                  Stated(t, {"COMPLETED"}, NotGiven)
            /\ shown[t].status = "FAILED" /\ ~shown[t].error =>
                  Stated(t, {"FAILED", NoStatus}, NotGiven)
            /\ shown[t].result => Stated(t, {"COMPLETED"}, Given)
            /\ shown[t].error =>
                  \/ Stated(t, {"FAILED", NoStatus}, Given)
                  \/ pc[t] \in {"undo_kafka", "kafka_error", "crashed"}

(* librdkafka has reported a delivery as failed that was none. *)
WronglyReported(t) == report[t] = "err" /\ Published(t)

(* What a client reads does not contradict the answer to its POST: a task  *)
(* that was refused is never seen being worked on or done, unless Send     *)
(* gave up on the deadline, or the broker lost its answer.                 *)
RefusedIsNotWorkedOn ==
    \A t \in Tasks :
        PostAnswer(pc[t]) >= 400 /\ shown[t].status \in {"PROCESSING", "COMPLETED"}
            => t \in expired \/ WronglyReported(t)

(* While the worker has taken up the task once at most and no replica has   *)
(* started again, a client that polls sees the status move forward only: in *)
(* particular no command that comes late revives a task it has seen FAILED  *)
(* (but one whose delivery librdkafka wrongly reports as failed does).      *)
PollsGoForward ==
    [][\A t \in Tasks :
          /\ moves' = 0 /\ attempts[t] < 2 /\ ~WronglyReported(t)
          /\ shown[t].http = 200 /\ shown'[t].http = 200
          => Rank[shown'[t].status] >= Rank[shown[t].status]]_apiVars
=============================================================================
