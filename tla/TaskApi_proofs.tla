--------------------------- MODULE TaskApi_proofs ---------------------------
(***************************************************************************)
(* Proofs about TaskApi, for every set of tasks and of replicas and every  *)
(* choice of the faults: what a client reads fits together, fits the       *)
(* answer to its POST, and, where no message is handled twice, moves       *)
(* forward only.                                                           *)
(***************************************************************************)
EXTENDS TaskApi, TaskLifecycle_proofs

(* What comes with the status of x, a row or an answer, was stated by an     *)
(* event about t, or recorded by CreateTask.                               *)
Fits(t, x) ==
    /\ x.status = "COMPLETED" /\ ~x.result => Said(t, {"COMPLETED"}, NotGiven)
    /\ x.status = "FAILED" /\ ~x.error => Said(t, Failing, NotGiven)
    /\ x.result => Said(t, {"COMPLETED"}, Given)
    /\ x.error => Said(t, Failing, Given) \/ pc[t] \in AfterRecord

WorkedOn(x) == x.status \in {"PROCESSING", "COMPLETED"}

(* An answer is true to a row of the past; and only a task with a command  *)
(* in the topic was ever worked on.                                        *)
AnswerInv(t, a) ==
    /\ a \in AnswersTo
    /\ Fits(t, a)
    /\ WorkedOn(a) => Published(t)

ClientInv(t) == AnswerInv(t, polled[t]) /\ AnswerInv(t, shown[t])

ApiInv ==
    /\ LifeInv
    /\ polled \in [Tasks -> AnswersTo] /\ shown \in [Tasks -> AnswersTo]
    /\ \A t \in Tasks : ClientInv(t)

-----------------------------------------------------------------------------
(* What a step can do to the row of a task: CreateTask inserts it, or       *)
(* records a failed publication, or a replica writes the event in its hand. *)
InHandOf(r, t, s) ==
    /\ job[r].phase = "write" /\ job[r].msg \in DOMAIN log
    /\ log[job[r].msg].task = t /\ Target(log[job[r].msg]) = s
    /\ job'[r].phase = "idle" /\ UNCHANGED <<log, pos, owner>>

RowStep(t) ==
    \/ rows'[t] = rows[t]
    \/ rows[t] = NoRow /\ rows'[t] = NewRow(Now)
    \/ /\ pc[t] = "record" /\ Live(t)
       /\ rows[t] \in Rows /\ rows'[t] = Updated(rows[t], "FAILED", Given)
    \/ \E r \in Replicas, s \in Written, p \in Payloads :
          InHandOf(r, t, s) /\ rows[t] \in Rows /\ rows'[t] = Updated(rows[t], s, p)

LEMMA RowSteps ==
  ASSUME LifeInv, [LifeNext]_lifeVars, NEW t \in Tasks
  PROVE  RowStep(t)
  <1>1. CASE IntakeNext
    <2>1. PICK u \in Tasks : IntakeEffect(u)
      BY <1>1, IntakeEffects DEF LifeInv, IntakeHolds
    <2> QED BY <2>1 DEF IntakeEffect, RowEffect, RowStep, Updated
  <1>2. ASSUME NEW r \in Replicas, Write(r), rows' # rows PROVE RowStep(t)
    <2>i. PICK i : i = job[r].msg
      OBVIOUS
    <2>m. PICK m : m = log[i]
      OBVIOUS
    <2>s. PICK s : s = Target(m)
      OBVIOUS
    <2>1. /\ log \in Seq(Messages) /\ rows \in [Tasks -> Rows \union {NoRow}]
          /\ job[r].phase = "write" /\ i \in DOMAIN log /\ s \in Written
      BY <1>2, <2>i, <2>m, <2>s
         DEF LifeInv, IntakeHolds, IntakeInv, IntakeTypeOK, OwnTypeOK, JobTypeOK, JobInv, Write
    <2>p. PICK p \in Payloads : p = m.payload
      <3>1. m \in Messages
        BY <2>1, <2>m
      <3> QED BY <3>1 DEF Messages
    <2>2. /\ rows' = [rows EXCEPT ![m.task] = Updated(@, s, p)]
          /\ job' = [job EXCEPT ![r] = NoJob]
      BY <1>2, <2>i, <2>m, <2>s, <2>p DEF Write, Handled, Returns
    <2>3. CASE t # m.task
      BY <2>1, <2>2, <2>3 DEF RowStep
    <2>4. CASE t = m.task
      <3>1. rows[t] \in Rows
        BY <2>1, <2>m, <2>4 DEF LifeInv, TopicInv, MessageInv
      <3>2. rows'[t] = Updated(rows[t], s, p)
        BY <2>1, <2>2, <2>4
      <3>3. job'[r].phase = "idle"
        BY <2>2 DEF LifeInv, OwnTypeOK, JobTypeOK, NoJob
      <3>4. InHandOf(r, t, s)
        BY <1>2, <2>1, <2>4, <2>i, <2>m, <2>s, <3>3 DEF InHandOf, Write, groupVars
      <3> QED BY <2>1, <2>p, <3>1, <3>2, <3>4 DEF RowStep
    <2> QED BY <2>3, <2>4
  <1>3. CASE rows' = rows
    BY <1>3 DEF RowStep
  <1> QED
    BY <1>1, <1>2, <1>3
       DEF LifeNext, WorkerTakes, WorkerEnds, Consume, Poll, Decide, CommitNext, Restart,
           Rebalance, lifeVars, intakeVars

(* The records of failed publications stay. *)
LEMMA RecordStays ==
  ASSUME LifeInv, [LifeNext]_lifeVars, NEW t \in Tasks, pc[t] \in AfterRecord
  PROVE  pc'[t] \in AfterRecord
  <1>1. ASSUME NEW u \in Tasks, IntakeStep(u) PROVE pc'[t] \in AfterRecord
    <2>0. pc \in [Tasks -> {"new"} \union Running \union Ended]
      BY DEF LifeInv, IntakeHolds, IntakeInv, IntakeTypeOK
    <2>1. pc' = pc \/ \E to : Goto(u, pc[u], to) /\ (pc[u] \in AfterRecord => to \in AfterRecord)
      BY <1>1 DEF IntakeStep, Serve, BadRequest, Begin, Upload, Insert, Produce, AwaitDelivery,
                  RecordFailure, Undo, Deliver, Expire, Crash, Goto, AfterRecord
    <2> QED BY <2>0, <2>1 DEF Goto
  <1>2. CASE pc' = pc
    BY <1>2
  <1> QED
    BY <1>1, <1>2
       DEF LifeNext, IntakeNext, WorkerTakes, WorkerEnds, Consume, Poll, Decide, Write, CommitNext,
           Restart, Rebalance, lifeVars, intakeVars

(* The topic only grows, whatever the step. *)
LEMMA TopicOnlyGrows ==
  ASSUME LifeInv, [LifeNext]_lifeVars
  PROVE  TopicGrows
  <1>1. CASE IntakeNext
    BY <1>1, IntakeEffects, CommandIsMessage
       DEF LifeInv, IntakeHolds, IntakeEffect, TopicEffect, TopicGrows
  <1>2. ASSUME NEW t \in Tasks, WorkerTakes(t) \/ WorkerEnds(t) PROVE TopicGrows
    <2>1. PICK s \in {"PROCESSING", "FAILED", "COMPLETED", NoStatus}, p \in Payloads :
             log' = Append(log, [task |-> t, status |-> s, payload |-> p])
      BY <1>2 DEF WorkerTakes, WorkerEnds, Payloads
    <2>2. [task |-> t, status |-> s, payload |-> p] \in Messages
      BY DEF Messages, Statuses, NoStatus
    <2> QED BY <2>1, <2>2 DEF TopicGrows
  <1>3. CASE log' = log
    BY <1>3 DEF TopicGrows
  <1> QED
    BY <1>1, <1>2, <1>3
       DEF LifeNext, Consume, Poll, Decide, Write, CommitNext, Restart, Rebalance,
           lifeVars, intakeVars

-----------------------------------------------------------------------------
(* A row that shows a task worked on was caused by an event, and there are  *)
(* events about commanded tasks only.                                       *)
LEMMA WorkedOnIsPublished ==
  ASSUME LifeInv, NEW t \in Tasks, rows[t] # NoRow, WorkedOn(rows[t])
  PROVE  Published(t)
  BY DEF LifeInv, RowCaused, AskedFor, Events, WorkedOn, TopicInv, MessageInv

LEMMA SystemKeepsApi ==
  ASSUME ApiInv, [LifeNext]_lifeVars, UNCHANGED <<polled, shown>>
  PROVE  ApiInv'
  <1>1. LifeInv'
    BY NextLifeInv DEF ApiInv
  <1>2. /\ \A t \in Tasks : Published(t) => Published(t)'
        /\ \A t, S, p : Said(t, S, p) => Said(t, S, p)'
    BY TopicOnlyGrows, GrowthKeeps DEF ApiInv, LifeInv, IntakeHolds, IntakeInv, IntakeTypeOK
  <1>3. \A t \in Tasks : pc[t] \in AfterRecord => pc'[t] \in AfterRecord
    BY RecordStays DEF ApiInv
  <1>4. ASSUME NEW t \in Tasks, NEW a, AnswerInv(t, a) PROVE AnswerInv(t, a)'
    BY <1>2, <1>3, <1>4 DEF AnswerInv, Fits
  <1>5. \A t \in Tasks : ClientInv(t)'
    BY <1>4 DEF ApiInv, ClientInv
  <1> QED BY <1>1, <1>5 DEF ApiInv

LEMMA FailureFits ==
  ASSUME NEW t, NEW http \in {0, 400, 500}
  PROVE  AnswerInv(t, Failure(http)) /\ Failure(http).http = http
  <1>1. Failure(http) \in AnswersTo
    BY DEF Failure, Answer, AnswersTo
  <1>2. /\ Failure(http).status = NoStatus /\ Failure(http).http = http
        /\ Failure(http).result = FALSE /\ Failure(http).error = FALSE
    BY DEF Failure, Answer
  <1> QED BY <1>1, <1>2 DEF AnswerInv, Fits, WorkedOn, NoStatus

(* Every error of a GET is an AppError with a status of its own. *)
LEMMA ErrorsAnswer ==
  ASSUME NEW http \in Nat
  PROVE  HandleError(WithStatus(AppError, http)) = http
  BY DEF HandleError, WithStatus, AppError

(* What getTaskByID answers. *)
LEMMA GotFits ==
  ASSUME ApiInv, NEW t \in Tasks, NEW got \in GetByID(t)
  PROVE  AnswerInv(t, GetTaskByID(got))
  <1>1. CASE got = NoRow
    BY <1>1, FailureFits, ErrorsAnswer DEF GetTaskByID, NotGot
  <1>2. CASE got # NoRow
    <2>1. got = rows[t] /\ got \in Rows
      BY <1>2 DEF GetByID, NotGot, ApiInv, LifeInv, IntakeHolds, IntakeInv, IntakeTypeOK
    <2>2. GetTaskByID(got) = Answer(200, got.status, got.result, got.error)
      BY <1>2 DEF GetTaskByID, NotGot
    <2>3. got.status \in Statuses
      BY <2>1 DEF Rows
    <2>4. got.result \in BOOLEAN /\ got.error \in BOOLEAN
      BY <2>1, Zenon DEF Rows
    <2>5. GetTaskByID(got) \in AnswersTo
      BY <2>2, <2>3, <2>4 DEF Answer, AnswersTo
    <2>6. /\ GetTaskByID(got).status = got.status /\ GetTaskByID(got).result = got.result
          /\ GetTaskByID(got).error = got.error
      BY <2>2 DEF Answer
    <2>7. Fits(t, got) /\ (WorkedOn(got) => Published(t))
      BY <1>2, <2>1, WorkedOnIsPublished DEF ApiInv, LifeInv, RowFilled, Fits
    <2> QED BY <2>5, <2>6, <2>7 DEF AnswerInv, Fits, WorkedOn
  <1> QED BY <1>1, <1>2

(* A GET, and its answer, touch what one client sees and nothing else. *)
LEMMA ClientKeepsApi ==
  ASSUME ApiInv, NEW t \in Tasks, GetBadID(t) \/ GetTask(t) \/ Show(t)
  PROVE  ApiInv'
  <1>1. UNCHANGED lifeVars /\ LifeInv'
    <2>1. UNCHANGED lifeVars
      BY DEF GetBadID, GetTask, Show
    <2> QED BY <2>1, NextLifeInv DEF ApiInv
  <1>2. \E a \in AnswersTo :
          /\ AnswerInv(t, a) /\ polled' = [polled EXCEPT ![t] = a]
          /\ shown' \in {shown, [shown EXCEPT ![t] = polled[t]]}
    <2>1. CASE GetBadID(t)
      <3>1. polled' = [polled EXCEPT ![t] = Failure(400)] /\ shown' = shown
        <4>1. HandleError(WithStatus(AppError, 400)) = 400
          BY ErrorsAnswer
        <4> QED BY <2>1, <4>1 DEF GetBadID
      <3>2. AnswerInv(t, Failure(400)) /\ Failure(400) \in AnswersTo
        BY FailureFits DEF AnswerInv
      <3> QED BY <3>1, <3>2
    <2>2. CASE GetTask(t)
      BY <2>2, GotFits DEF GetTask, AnswerInv
    <2>3. CASE Show(t)
      <3>1. /\ polled' = [polled EXCEPT ![t] = Failure(0)]
            /\ shown' = [shown EXCEPT ![t] = polled[t]]
        BY <2>3 DEF Show, NoAnswer
      <3>2. AnswerInv(t, Failure(0)) /\ Failure(0) \in AnswersTo
        BY FailureFits DEF AnswerInv
      <3> QED BY <3>1, <3>2
    <2> QED BY <2>1, <2>2, <2>3
  <1>3. polled' \in [Tasks -> AnswersTo] /\ shown' \in [Tasks -> AnswersTo]
    BY <1>2 DEF ApiInv
  <1>4. ASSUME NEW u \in Tasks PROVE ClientInv(u)'
    <2>1. AnswerInv(u, polled'[u]) /\ AnswerInv(u, shown'[u])
      BY <1>2 DEF ApiInv, ClientInv
    <2>2. pc' = pc /\ log' = log
      BY <1>1 DEF lifeVars, intakeVars
    <2> QED
      BY <2>1, <2>2
         DEF ClientInv, AnswerInv, Fits, WorkedOn, Said, Events, Published, IsIn, Command
  <1> QED BY <1>1, <1>3, <1>4 DEF ApiInv

LEMMA InitApiInv == ApiInit => ApiInv
  <1> SUFFICES ASSUME ApiInit PROVE ApiInv
    OBVIOUS
  <1>1. LifeInv
    BY InitLifeInv DEF ApiInit
  <1>2. \A t \in Tasks : AnswerInv(t, NoAnswer)
    BY FailureFits DEF NoAnswer
  <1>3. polled \in [Tasks -> AnswersTo] /\ shown \in [Tasks -> AnswersTo]
    BY <1>2 DEF ApiInit, AnswerInv
  <1> QED BY <1>1, <1>2, <1>3 DEF ApiInit, ApiInv, ClientInv

LEMMA NextApiInv == ApiInv /\ [ApiNext]_apiVars => ApiInv'
  BY SystemKeepsApi, ClientKeepsApi DEF ApiNext, apiVars

(* What a client has been answered agrees with the system behind it, and    *)
(* with what the answer was when it left.                                   *)
THEOREM ApiInvariant == ApiSpec => []ApiInv
  BY InitApiInv, NextApiInv, PTL DEF ApiSpec

(* The state of the system and of its clients is well typed at all times.  *)
THEOREM ApiTypeCorrect == ApiSpec => []ApiTypeOK
  <1>1. ApiInv => ApiTypeOK
    BY DEF ApiInv, ApiTypeOK, LifeInv, LifeTypeOK, IntakeHolds, IntakeInv, WorkerTypeOK,
           OwnTypeOK, GroupTypeOK, JobTypeOK, HistoryTypeOK
  <1> QED BY <1>1, ApiInvariant, PTL

(* What a client reads besides the status was stated by an event of the     *)
(* right kind, or recorded by CreateTask, and so was its absence: whatever  *)
(* order the events had, although each of them overwrites what the row had, *)
(* and although the row may have changed between the SELECT and the answer. *)
THEOREM AnswersFitTogether == ApiSpec => []AnswersFit
  <1>1. ApiInv => AnswersFit
    BY DEF ApiInv, ClientInv, AnswerInv, Fits, AnswersFit, Said, Stated, Failing, AfterRecord
  <1> QED BY <1>1, ApiInvariant, PTL

(* A task whose POST was answered with an error is never read as being      *)
(* worked on, unless Send gave up on the deadline or the delivery report    *)
(* was wrong.                                                               *)
THEOREM RefusedTasksAreNotWorkedOn == ApiSpec => []RefusedIsNotWorkedOn
  <1>1. ASSUME ApiInv, NEW t \in Tasks, PostAnswer(pc[t]) >= 400, WorkedOn(shown[t])
        PROVE  t \in expired \/ WronglyReported(t)
    <2>1. Published(t) /\ report[t] # "none"
      BY <1>1 DEF ApiInv, ClientInv, AnswerInv, LifeInv, IntakeHolds, IntakeInv, RequestInv
    <2>2. pc[t] \in Refusals
      BY <1>1 DEF PostAnswer, Refusals
    <2>3. pc[t] = "kafka_error"
      BY <1>1, <2>1, <2>2
         DEF Refusals, ApiInv, LifeInv, IntakeHolds, IntakeInv, RequestInv, Unsent, NoRowYet
    <2> QED
      BY <1>1, <2>1, <2>3
         DEF ApiInv, LifeInv, IntakeHolds, LeftBehind, GaveUp, Live, WronglyReported
  <1>2. ApiInv => RefusedIsNotWorkedOn
    BY <1>1 DEF RefusedIsNotWorkedOn, WorkedOn
  <1> QED BY <1>2, ApiInvariant, PTL

(* What is shown of the life of a task alone holds beside its clients.     *)
THEOREM CausesHoldForClients == ApiSpec => [](MessagesHaveRows /\ StatusIsCaused)
  <1>1. ApiInv => MessagesHaveRows
    BY DEF ApiInv, LifeInv, TopicInv, MessageInv, MessagesHaveRows
  <1>2. ApiInv => StatusIsCaused
    BY DEF ApiInv, LifeInv, RowCaused, AskedFor, AfterRecord, StatusIsCaused
  <1> QED BY <1>1, <1>2, ApiInvariant, PTL
-----------------------------------------------------------------------------
(* Polling.  A task that the worker has taken up once at most, on a replica *)
(* that has had the partition from the beginning, and whose delivery report *)
(* was not wrong.                                                           *)
OneRun(t) == moves = 0 /\ attempts[t] < 2 /\ ~WronglyReported(t)

(* Without an assignment only the owner is at work, on the last message it  *)
(* has read.                                                                *)
FirstOwnerInv ==
    moves = 0 =>
        /\ \A r \in Replicas : r # owner => job[r].phase = "idle"
        /\ InWork => job[owner].msg = pos

(* The events of a task that was taken up once: PROCESSING, then its end.   *)
RunInv(t) ==
    attempts[t] < 2 =>
        /\ attempts[t] = 0 => Events(t) = {} /\ t \notin busy
        /\ t \in busy => \A i \in Events(t) : log[i].status = "PROCESSING"
        /\ \A i, j \in Events(t) :
              i < j => log[i].status = "PROCESSING" /\ log[j].status # "PROCESSING"

(* A row that is PENDING no more has the status of an event that has been   *)
(* handled, or CreateTask has recorded the failure of its publication.      *)
HandledInv(t) ==
    OneRun(t) /\ rows[t] # NoRow /\ rows[t].status # "PENDING" =>
        \/ report[t] = "err"
        \/ \E i \in Events(t) : i <= Covered /\ Target(log[i]) = rows[t].status

(* The answer a does not show more than x does: an answer, or a row.        *)
NotAhead(a, x) ==
    a.http = 200 =>
        /\ a.status \in DOMAIN Rank /\ x.status \in DOMAIN Rank
        /\ Rank[a.status] <= Rank[x.status]

InOrder(t) ==
    OneRun(t) =>
        /\ NotAhead(polled[t], rows[t]) /\ NotAhead(shown[t], rows[t])
        /\ polled[t].http = 200 => NotAhead(shown[t], polled[t])

PollInv ==
    /\ FirstOwnerInv
    /\ \A t \in Tasks : RunInv(t) /\ HandledInv(t) /\ InOrder(t)

(* Steps that assign nothing: the owner reads, goes on, or finishes, or      *)
(* another replica ends.                                                    *)
OwnerStep ==
    /\ moves = 0 /\ owner' = owner
    /\ \/ pos' = pos /\ job' = job
       \/ \E r \in Replicas \ {owner} : pos' = pos /\ job' = [job EXCEPT ![r] = NoJob]
       \/ /\ ~InWork /\ pos' = pos + 1
          /\ job' = [job EXCEPT ![owner] = [phase |-> "got", msg |-> pos + 1]]
       \/ InWork /\ pos' = pos /\ job' = [job EXCEPT ![owner].phase = "write"]
       \/ InWork /\ pos' = pos /\ job' = [job EXCEPT ![owner] = NoJob]

LEMMA FirstOwnerSteps ==
  ASSUME LifeInv, FirstOwnerInv, [LifeNext]_lifeVars, moves' = 0
  PROVE  OwnerStep
  <1> USE DEF OwnerStep
  <1>0. moves \in Nat
    BY DEF LifeInv, OwnTypeOK, GroupTypeOK
  <1>1. ASSUME NEW n \in Replicas, AssignTo(n) PROVE FALSE
    BY <1>0, <1>1 DEF AssignTo
  <1>2. moves = 0
    BY <1>0, <1>1
       DEF LifeNext, WorkerTakes, WorkerEnds, Consume, Poll, Decide, Write, CommitNext,
           Restart, Rebalance, lifeVars, groupVars
  <1>3. ASSUME NEW r \in Replicas, job[r].phase # "idle" PROVE r = owner /\ InWork
    BY <1>2, <1>3 DEF FirstOwnerInv, InWork
  <1>4. CASE UNCHANGED <<owner, pos, job>>
    BY <1>2, <1>4
  <1>5. ASSUME NEW r \in Replicas, Poll(r) PROVE OwnerStep
    BY <1>2, <1>5 DEF Poll, InWork
  <1>6. ASSUME NEW r \in Replicas, Decide(r) PROVE OwnerStep
    BY <1>2, <1>3, <1>6 DEF Decide, Handled, Rejected, DatabaseFails, Returns, groupVars
  <1>7. ASSUME NEW r \in Replicas, Write(r) PROVE OwnerStep
    BY <1>2, <1>3, <1>7 DEF Write, Handled, Rejected, DatabaseFails, Returns, groupVars
  <1>8. ASSUME NEW r \in Replicas, Restart(r) PROVE OwnerStep
    BY <1>1, <1>2, <1>8 DEF Restart
  <1> QED
    BY <1>1, <1>4, <1>5, <1>6, <1>7, <1>8
       DEF LifeNext, WorkerTakes, WorkerEnds, Consume, CommitNext, Rebalance,
           lifeVars, groupVars

(* Nothing that has been handled is handled again.                          *)
LEMMA OwnerGoesOn ==
  ASSUME LifeInv, FirstOwnerInv, OwnerStep
  PROVE  FirstOwnerInv' /\ Covered \in Int /\ Covered' \in Int /\ Covered <= Covered'
  <1> USE GroupNumbers DEF OwnerStep, FirstOwnerInv, InWork, Covered
  <1>1. CASE pos' = pos /\ job' = job
    BY <1>1
  <1>2. CASE /\ ~InWork /\ pos' = pos + 1
             /\ job' = [job EXCEPT ![owner] = [phase |-> "got", msg |-> pos + 1]]
    BY <1>2
  <1>3. CASE InWork /\ pos' = pos /\ job' = [job EXCEPT ![owner].phase = "write"]
    BY <1>3
  <1>4. CASE InWork /\ pos' = pos /\ job' = [job EXCEPT ![owner] = NoJob]
    BY <1>4
  <1>5. CASE \E r \in Replicas \ {owner} : pos' = pos /\ job' = [job EXCEPT ![r] = NoJob]
    BY <1>5
  <1> QED BY <1>1, <1>2, <1>3, <1>4, <1>5

LEMMA FirstOwnerStays ==
  ASSUME LifeInv, FirstOwnerInv, [LifeNext]_lifeVars
  PROVE  FirstOwnerInv'
  <1>1. CASE moves' = 0
    BY <1>1, FirstOwnerSteps, OwnerGoesOn
  <1>2. CASE moves' # 0
    BY <1>2 DEF FirstOwnerInv
  <1> QED BY <1>1, <1>2

(* What a step does to the events of t: nothing, or the worker adds one.    *)
EventStep(t) ==
    \/ /\ Events(t)' = Events(t) /\ \A i \in Events(t) : log'[i] = log[i]
       /\ attempts'[t] = attempts[t] /\ (t \in busy' <=> t \in busy)
    \/ WorkerTakes(t)
    \/ WorkerEnds(t)

LEMMA EventSteps ==
  ASSUME LifeInv, [LifeNext]_lifeVars, NEW t \in Tasks
  PROVE  EventStep(t)
  <1>0. log \in Seq(Messages) /\ attempts \in [Tasks -> Nat]
    BY GroupNumbers DEF LifeInv, WorkerTypeOK
  <1>1. CASE IntakeNext /\ UNCHANGED workerVars
    <2>1. PICK u \in Tasks : IntakeEffect(u)
      BY <1>1, IntakeEffects DEF LifeInv, IntakeHolds
    <2>2. Command(u) \in Messages /\ Command(u).status = "PENDING"
      BY CommandIsMessage DEF Command
    <2>3. Events(t)' = Events(t) /\ \A i \in Events(t) : log'[i] = log[i]
      BY <1>0, <2>1, <2>2, EventsStay DEF IntakeEffect, TopicEffect
    <2> QED BY <1>1, <2>3 DEF EventStep, workerVars
  <1>2. ASSUME NEW u \in Tasks, u # t, WorkerTakes(u) \/ WorkerEnds(u) PROVE EventStep(t)
    <2>1. PICK s \in {"PROCESSING", "FAILED", "COMPLETED", NoStatus}, p \in Payloads :
             log' = Append(log, [task |-> u, status |-> s, payload |-> p])
      BY <1>2 DEF WorkerTakes, WorkerEnds, Payloads
    <2>2. [task |-> u, status |-> s, payload |-> p] \in Messages
      BY DEF Messages, Statuses, NoStatus
    <2>3. Events(t)' = Events(t) /\ \A i \in Events(t) : log'[i] = log[i]
      BY <1>0, <1>2, <2>1, <2>2, EventsStay
    <2>4. attempts'[t] = attempts[t] /\ (t \in busy' <=> t \in busy)
      BY <1>0, <1>2 DEF WorkerTakes, WorkerEnds
    <2> QED BY <2>3, <2>4 DEF EventStep
  <1>3. CASE UNCHANGED <<log, workerVars>>
    <2>1. Events(t)' = Events(t)
      BY <1>3 DEF Events
    <2> QED BY <1>3, <2>1 DEF EventStep, workerVars
  <1> QED
    BY <1>1, <1>2, <1>3
       DEF LifeNext, EventStep, Consume, Poll, Decide, Write, CommitNext, Restart,
           Rebalance, lifeVars, intakeVars

LEMMA RunInvStays ==
  ASSUME LifeInv, [LifeNext]_lifeVars, NEW t \in Tasks, RunInv(t)
  PROVE  RunInv(t)'
  <1>0. log \in Seq(Messages) /\ attempts \in [Tasks -> Nat] /\ DOMAIN log = 1..Len(log)
    BY GroupNumbers DEF LifeInv, WorkerTypeOK
  <1>1. CASE /\ Events(t)' = Events(t) /\ \A i \in Events(t) : log'[i] = log[i]
             /\ attempts'[t] = attempts[t] /\ (t \in busy' <=> t \in busy)
    BY <1>1 DEF RunInv
  <1>2. ASSUME NEW s \in {"PROCESSING", "FAILED", "COMPLETED", NoStatus}, NEW p \in Payloads,
               log' = Append(log, [task |-> t, status |-> s, payload |-> p])
        PROVE  /\ \A i \in Events(t) : i \in Events(t)' /\ log'[i] = log[i] /\ i < Len(log) + 1
               /\ \A i \in Events(t)' : i \in Events(t) \/ i = Len(log) + 1
               /\ log'[Len(log) + 1].status = s
    BY <1>0, <1>2 DEF Events
  <1>3. CASE WorkerTakes(t)
    <2>1. log' = Append(log, [task |-> t, status |-> "PROCESSING", payload |-> NotGiven])
      BY <1>3 DEF WorkerTakes
    <2>2. attempts'[t] = attempts[t] + 1
      BY <1>0, <1>3 DEF WorkerTakes
    <2>3. attempts'[t] < 2 => Events(t) = {} /\ t \notin busy
      BY <1>0, <2>2 DEF RunInv
    <2>4. /\ \A i \in Events(t)' : i \in Events(t) \/ i = Len(log) + 1
          /\ log'[Len(log) + 1].status = "PROCESSING"
      BY <1>2, <2>1 DEF Payloads
    <2> QED BY <1>0, <2>2, <2>3, <2>4 DEF RunInv
  <1>4. CASE WorkerEnds(t)
    <2>1. PICK s \in {"FAILED", "COMPLETED", NoStatus}, p \in Payloads :
             log' = Append(log, [task |-> t, status |-> s, payload |-> p])
      BY <1>4 DEF WorkerEnds, Payloads
    <2>2. attempts'[t] = attempts[t] /\ t \in busy /\ t \notin busy'
      BY <1>4 DEF WorkerEnds
    <2>3. /\ \A i \in Events(t) : i \in Events(t)' /\ log'[i] = log[i] /\ i < Len(log) + 1
          /\ \A i \in Events(t)' : i \in Events(t) \/ i = Len(log) + 1
          /\ log'[Len(log) + 1].status = s
      BY <1>2, <2>1
    <2>4. s # "PROCESSING"
      BY <2>1 DEF NoStatus
    <2>5. Events(t)' \subseteq Int /\ Len(log) \in Nat
      BY <1>0, <2>3 DEF Events
    <2> QED BY <2>2, <2>3, <2>4, <2>5 DEF RunInv
  <1> QED BY <1>1, <1>3, <1>4, EventSteps DEF EventStep

(* The provisos only ever cease to hold.                                    *)
LEMMA ReportStays ==
  ASSUME LifeInv, [LifeNext]_lifeVars, NEW t \in Tasks, report[t] = "err"
  PROVE  report'[t] = "err"
  <1>1. report \in [Tasks -> {"none", "ok", "err"}] /\ \A u \in outbox : report[u] = "none"
    BY DEF LifeInv, IntakeHolds, IntakeInv, IntakeTypeOK, RequestInv
  <1>2. ASSUME NEW u \in Tasks, Deliver(u) PROVE report'[t] = "err"
    BY <1>1, <1>2 DEF Deliver
  <1>3. CASE report' = report
    BY <1>3
  <1> QED
    BY <1>2, <1>3
       DEF LifeNext, IntakeNext, IntakeStep, Serve, BadRequest, Begin, Upload, Insert, Produce,
           AwaitDelivery, RecordFailure, Undo, Expire, Crash, WorkerTakes, WorkerEnds, Consume,
           Poll, Decide, Write, CommitNext, Restart, Rebalance, lifeVars, intakeVars

LEMMA OneRunWas ==
  ASSUME LifeInv, FirstOwnerInv, [LifeNext]_lifeVars, NEW t \in Tasks, OneRun(t)'
  PROVE  OneRun(t)
  <1>1. moves = 0
    BY FirstOwnerSteps DEF OneRun, OwnerStep
  <1>2. attempts[t] < 2
    <2>1. attempts \in [Tasks -> Nat] /\ attempts'[t] < 2
      BY DEF LifeInv, WorkerTypeOK, OneRun
    <2>2. attempts'[t] \in {attempts[t], attempts[t] + 1}
      BY <2>1, EventSteps DEF EventStep, WorkerTakes, WorkerEnds
    <2> QED BY <2>1, <2>2
  <1>3. Published(t) => Published(t)'
    BY TopicOnlyGrows, GrowthKeeps, GroupNumbers
  <1>4. WronglyReported(t) => WronglyReported(t)'
    BY <1>3, ReportStays DEF WronglyReported
  <1> QED BY <1>1, <1>2, <1>4 DEF OneRun

(* The replica with an event in hand is the owner, and the event is the     *)
(* next one to be handled.                                                  *)
LEMMA HandIsNext ==
  ASSUME LifeInv, FirstOwnerInv, moves = 0, NEW t \in Tasks, NEW r \in Replicas,
         NEW s \in Written, InHandOf(r, t, s)
  PROVE  /\ r = owner /\ pos \in Events(t) /\ Target(log[pos]) = s
         /\ Covered = pos - 1 /\ Covered' = pos /\ Published(t)
  <1>1. r = owner /\ job[r].msg = pos /\ InWork /\ pos \in DOMAIN log
    BY DEF FirstOwnerInv, InHandOf, InWork
  <1>2. log[pos].status \in Statuses \union {NoStatus}
    <2>1. log[pos] \in Messages
      BY <1>1, GroupNumbers
    <2> QED BY <2>1 DEF Messages
  <1>3. log[pos].task = t /\ Target(log[pos]) = s
    BY <1>1 DEF InHandOf
  <1>4. log[pos].status # "PENDING"
    BY <1>2, <1>3, TargetIs DEF Written, NoStatus
  <1>5. pos \in Events(t) /\ Published(t)
    BY <1>1, <1>3, <1>4 DEF Events, LifeInv, TopicInv, MessageInv
  <1>6. ~InWork'
    BY <1>1 DEF InHandOf, InWork
  <1> QED BY <1>1, <1>3, <1>5, <1>6, GroupNumbers DEF Covered, InWork, InHandOf

LEMMA HandledStays ==
  ASSUME LifeInv, PollInv, [LifeNext]_lifeVars, NEW t \in Tasks
  PROVE  HandledInv(t)'
  <1> SUFFICES ASSUME OneRun(t)', rows'[t] # NoRow, rows'[t].status # "PENDING",
                      report'[t] # "err"
               PROVE  \E i \in Events(t)' : i <= Covered' /\ Target(log[i])' = rows'[t].status
    BY DEF HandledInv
  <1>1. OneRun(t) /\ moves = 0 /\ OwnerStep /\ report[t] # "err"
    BY OneRunWas, FirstOwnerSteps, ReportStays DEF PollInv, OneRun
  <1>2. Covered \in Int /\ Covered' \in Int /\ Covered <= Covered'
    BY <1>1, OwnerGoesOn DEF PollInv
  <1>3. /\ DOMAIN log \subseteq Int
        /\ \A i \in Events(t) : i \in Events(t)' /\ log'[i] = log[i]
    BY TopicOnlyGrows, GrowthKeeps, GroupNumbers DEF Events
  <1>4. CASE rows'[t] = rows[t]
    <2>1. PICK i \in Events(t) : i <= Covered /\ Target(log[i]) = rows[t].status
      BY <1>1, <1>4 DEF PollInv, HandledInv
    <2>2. i \in Events(t)' /\ i <= Covered' /\ Target(log[i])' = rows'[t].status
      BY <1>2, <1>3, <1>4, <2>1 DEF Events, Target
    <2> QED BY <2>2
  <1>5. CASE rows'[t] = NewRow(Now)
    BY <1>5 DEF NewRow
  <1>6. CASE pc[t] = "record" /\ Live(t)
    BY <1>1, <1>6 DEF LifeInv, IntakeHolds, LeftBehind, GaveUp
  <1>7. ASSUME NEW r \in Replicas, NEW s \in Written, NEW p \in Payloads, InHandOf(r, t, s),
               rows[t] \in Rows, rows'[t] = Updated(rows[t], s, p)
        PROVE  \E i \in Events(t)' : i <= Covered' /\ Target(log[i])' = rows'[t].status
    <2>1. pos \in Events(t) /\ Target(log[pos]) = s /\ Covered' = pos
      BY <1>1, <1>7, HandIsNext DEF PollInv
    <2>2. rows'[t].status = s
      BY <1>7, UpdatedRow
    <2>3. PICK i : i = pos
      OBVIOUS
    <2>4. i \in Events(t)' /\ log'[i] = log[i] /\ i <= Covered' /\ Target(log[i]) = s
      BY <1>2, <1>3, <2>1, <2>3
    <2>5. Target(log[i])' = rows'[t].status
      BY <2>2, <2>4 DEF Target
    <2> QED BY <2>4, <2>5
  <1> QED BY <1>4, <1>5, <1>6, <1>7, RowSteps DEF RowStep

-----------------------------------------------------------------------------
(* Ranks. *)
LEMMA Ranks ==
  /\ DOMAIN Rank = {"PENDING", "PROCESSING", "COMPLETED", "FAILED"}
  /\ Rank["PENDING"] = 0 /\ Rank["PROCESSING"] = 1
  /\ Rank["COMPLETED"] = 2 /\ Rank["FAILED"] = 2
  BY DEF Rank

LEMMA RowHasRank ==
  ASSUME LifeInv, NEW t \in Tasks, rows[t] # NoRow
  PROVE  rows[t].status \in DOMAIN Rank
  <1>1. rows[t].status \in Statuses
    BY DEF LifeInv, IntakeHolds, IntakeInv, IntakeTypeOK, Rows
  <1> QED BY <1>1, Ranks DEF LifeInv, RowCaused, Statuses

(* No statement takes the status of such a task back: a replica writes an   *)
(* event onto a row that is PENDING, or that shows the event before it.     *)
LEMMA RowMovesForward ==
  ASSUME LifeInv, PollInv, [LifeNext]_lifeVars, NEW t \in Tasks, OneRun(t)', rows[t] # NoRow
  PROVE  rows'[t].status \in DOMAIN Rank /\ Rank[rows[t].status] <= Rank[rows'[t].status]
  <1>1. OneRun(t) /\ moves = 0 /\ FirstOwnerInv
    BY OneRunWas DEF PollInv, OneRun
  <1>2. rows[t].status \in DOMAIN Rank
    BY RowHasRank
  <1>3. CASE rows'[t] = rows[t]
    BY <1>2, <1>3, Ranks
  <1>4. CASE rows[t] \in Rows /\ rows'[t] = Updated(rows[t], "FAILED", Given)
    <2>1. rows'[t].status = "FAILED"
      BY <1>4, UpdatedRow DEF Written, Payloads
    <2> QED BY <1>2, <2>1, Ranks
  <1>5. ASSUME NEW r \in Replicas, NEW s \in Written, NEW p \in Payloads, InHandOf(r, t, s),
               rows[t] \in Rows, rows'[t] = Updated(rows[t], s, p)
        PROVE  rows'[t].status \in DOMAIN Rank /\ Rank[rows[t].status] <= Rank[rows'[t].status]
    <2>1. /\ pos \in Events(t) /\ Target(log[pos]) = s /\ Covered = pos - 1 /\ Published(t)
      BY <1>1, <1>5, HandIsNext
    <2>2. rows'[t].status = s
      BY <1>5, UpdatedRow
    <2>3. rows[t].status \in {"PENDING", "PROCESSING"}
      <3>1. CASE rows[t].status # "PENDING"
        <4>1. report[t] # "err"
          BY <1>1, <2>1 DEF OneRun, WronglyReported
        <4>2. PICK i \in Events(t) : i <= Covered /\ Target(log[i]) = rows[t].status
          BY <1>1, <3>1, <4>1 DEF PollInv, HandledInv
        <4>3. i < pos
          BY <2>1, <4>2, GroupNumbers DEF Events
        <4>4. log[i].status = "PROCESSING"
          BY <1>1, <2>1, <4>3 DEF PollInv, RunInv, OneRun
        <4>5. Target(log[i]) = "PROCESSING"
          BY <4>4, TargetIs DEF Statuses, NoStatus
        <4> QED BY <4>2, <4>5
      <3> QED BY <3>1
    <2> QED BY <2>2, <2>3, Ranks DEF Written
  <1> QED BY <1>3, <1>4, <1>5, RowSteps DEF RowStep

LEMMA SystemKeepsOrder ==
  ASSUME LifeInv, PollInv, [LifeNext]_lifeVars, UNCHANGED <<polled, shown>>
  PROVE  PollInv'
  <1>1. FirstOwnerInv'
    BY FirstOwnerStays DEF PollInv
  <1>2. ASSUME NEW t \in Tasks PROVE RunInv(t)' /\ HandledInv(t)'
    BY RunInvStays, HandledStays DEF PollInv
  <1>3. ASSUME NEW t \in Tasks, OneRun(t)', NEW a, NotAhead(a, rows[t])
        PROVE  NotAhead(a, rows'[t])
    <2>1. CASE a.http = 200
      <3>1. rows[t].status \in DOMAIN Rank /\ Rank[a.status] <= Rank[rows[t].status]
            /\ a.status \in DOMAIN Rank
        BY <1>3, <2>1 DEF NotAhead
      <3>2. rows[t] # NoRow
        <4>1. NoRow.status \notin DOMAIN Rank
          BY Ranks DEF NoRow, NoStatus
        <4> QED BY <3>1, <4>1
      <3>3. rows'[t].status \in DOMAIN Rank /\ Rank[rows[t].status] <= Rank[rows'[t].status]
        BY <1>3, <3>2, RowMovesForward
      <3> QED BY <3>1, <3>3, Ranks DEF NotAhead
    <2>2. CASE a.http # 200
      BY <2>2 DEF NotAhead
    <2> QED BY <2>1, <2>2
  <1>4. ASSUME NEW t \in Tasks, OneRun(t)' PROVE InOrder(t)'
    <2>1. OneRun(t)
      BY <1>4, OneRunWas DEF PollInv
    <2>2. /\ NotAhead(polled[t], rows[t]) /\ NotAhead(shown[t], rows[t])
          /\ polled[t].http = 200 => NotAhead(shown[t], polled[t])
      BY <2>1 DEF PollInv, InOrder
    <2>3. NotAhead(polled[t], rows'[t]) /\ NotAhead(shown[t], rows'[t])
      BY <1>3, <1>4, <2>2
    <2> QED BY <2>2, <2>3 DEF InOrder, NotAhead
  <1>5. \A t \in Tasks : InOrder(t)'
    BY <1>4 DEF InOrder
  <1> QED BY <1>1, <1>2, <1>5 DEF PollInv

(* A failure says nothing of the status, and a row that is read is not      *)
(* behind what has been read of it before.                                  *)
LEMMA ClientKeepsOrder ==
  ASSUME ApiInv, PollInv, NEW u \in Tasks, GetBadID(u) \/ GetTask(u) \/ Show(u)
  PROVE  PollInv'
  <1>1. UNCHANGED lifeVars
    BY DEF GetBadID, GetTask, Show
  <1>2. FirstOwnerInv' /\ \A t \in Tasks : RunInv(t)' /\ HandledInv(t)'
    BY <1>1 DEF PollInv, lifeVars, intakeVars, workerVars, groupVars, FirstOwnerInv, InWork,
                RunInv, HandledInv, OneRun, WronglyReported, Events, Covered, Target,
                Published, IsIn, Command
  <1>3. \A t \in Tasks : (OneRun(t)' <=> OneRun(t)) /\ rows'[t] = rows[t]
    BY <1>1 DEF lifeVars, intakeVars, workerVars, groupVars, OneRun, WronglyReported,
                Published, IsIn, Command
  <1>4. polled \in [Tasks -> AnswersTo] /\ shown \in [Tasks -> AnswersTo]
    BY DEF ApiInv
  <1>5. ASSUME NEW t \in Tasks, t # u PROVE InOrder(t)'
    <2>1. polled'[t] = polled[t] /\ shown'[t] = shown[t]
      BY <1>4, <1>5 DEF GetBadID, GetTask, Show
    <2> QED BY <1>3, <2>1 DEF PollInv, InOrder, NotAhead
  <1>6. \A x, http : http # 200 => NotAhead(Failure(http), x) /\ Failure(http).http = http
    BY DEF NotAhead, Failure, Answer
  <1>7. InOrder(u)'
    <2> SUFFICES ASSUME OneRun(u)
                 PROVE  /\ NotAhead(polled'[u], rows[u]) /\ NotAhead(shown'[u], rows[u])
                        /\ polled'[u].http = 200 => NotAhead(shown'[u], polled'[u])
      BY <1>3 DEF InOrder, NotAhead
    <2>1. /\ NotAhead(polled[u], rows[u]) /\ NotAhead(shown[u], rows[u])
          /\ polled[u].http = 200 => NotAhead(shown[u], polled[u])
      BY DEF PollInv, InOrder
    <2>2. CASE GetBadID(u)
      <3>1. HandleError(WithStatus(AppError, 400)) = 400
        BY ErrorsAnswer
      <3>2. polled'[u] = Failure(400) /\ shown'[u] = shown[u]
        BY <1>4, <2>2, <3>1 DEF GetBadID
      <3> QED BY <1>6, <2>1, <3>2
    <2>3. CASE GetTask(u)
      <3>1. PICK got \in GetByID(u) : polled'[u] = GetTaskByID(got) /\ shown'[u] = shown[u]
        BY <1>4, <2>3 DEF GetTask
      <3>2. CASE got = NoRow
        <4>1. HandleError(WithStatus(AppError, 500)) = 500
          BY ErrorsAnswer
        <4>2. polled'[u] = Failure(500)
          BY <3>1, <3>2, <4>1 DEF GetTaskByID, NotGot
        <4> QED BY <1>6, <2>1, <3>1, <4>2
      <3>3. CASE got # NoRow
        <4>1. got = rows[u] /\ rows[u].status \in DOMAIN Rank
          BY <3>3, RowHasRank DEF GetByID, NotGot, ApiInv
        <4>2. polled'[u].status = rows[u].status
          BY <3>1, <3>3, <4>1 DEF GetTaskByID, NotGot, Answer
        <4> QED BY <2>1, <3>1, <4>1, <4>2, Ranks DEF NotAhead
      <3> QED BY <3>2, <3>3
    <2>4. CASE Show(u)
      <3>1. polled'[u] = Failure(0) /\ shown'[u] = polled[u]
        BY <1>4, <2>4 DEF Show, NoAnswer
      <3> QED BY <1>6, <2>1, <3>1
    <2> QED BY <2>2, <2>3, <2>4
  <1> QED BY <1>2, <1>5, <1>7 DEF PollInv

LEMMA InitPollInv == ApiInit => PollInv
  <1> SUFFICES ASSUME ApiInit PROVE PollInv
    OBVIOUS
  <1>1. log = << >> /\ \A t \in Tasks : rows[t] = NoRow
    BY DEF ApiInit, LifeInit, IntakeInit
  <1>2. FirstOwnerInv
    BY DEF ApiInit, LifeInit, FirstOwnerInv, InWork, NoJob
  <1>3. ASSUME NEW t \in Tasks PROVE RunInv(t) /\ HandledInv(t)
    BY <1>1 DEF ApiInit, LifeInit, RunInv, HandledInv, Events
  <1>4. ASSUME NEW t \in Tasks PROVE InOrder(t)
    BY DEF ApiInit, InOrder, NotAhead, NoAnswer, Failure, Answer
  <1> QED BY <1>2, <1>3, <1>4 DEF PollInv

LEMMA NextPollInv == ApiInv /\ PollInv /\ [ApiNext]_apiVars => PollInv'
  BY SystemKeepsOrder, ClientKeepsOrder DEF ApiInv, ApiNext, apiVars

(* A client that polls sees the status move forward only, as long as the    *)
(* worker has taken up the task once at most, the partition has not been    *)
(* assigned anew, and the delivery was not wrongly reported as failed.      *)
THEOREM PolledStatusGoesForward == ApiSpec => PollsGoForward
  <1>1. ASSUME ApiInv, PollInv, PollInv', [ApiNext]_apiVars, NEW t \in Tasks,
               moves' = 0, attempts[t] < 2, ~WronglyReported(t),
               shown[t].http = 200, shown'[t].http = 200
        PROVE  Rank[shown'[t].status] >= Rank[shown[t].status]
    <2>1. CASE shown' = shown
      <3>1. moves = 0
        BY <1>1, FirstOwnerSteps
           DEF ApiInv, PollInv, ApiNext, apiVars, OwnerStep, GetBadID, GetTask, Show,
               lifeVars, groupVars
      <3>2. shown[t].status \in DOMAIN Rank
        BY <1>1, <3>1 DEF PollInv, InOrder, OneRun, NotAhead
      <3> QED BY <2>1, <3>2, Ranks
    <2>2. ASSUME NEW u \in Tasks, Show(u) PROVE Rank[shown'[t].status] >= Rank[shown[t].status]
      <3>1. moves = 0
        BY <1>1, <2>2 DEF Show, lifeVars, groupVars
      <3>2. /\ NotAhead(polled[t], rows[t]) /\ NotAhead(shown[t], rows[t])
            /\ polled[t].http = 200 => NotAhead(shown[t], polled[t])
        BY <1>1, <3>1 DEF PollInv, InOrder, OneRun
      <3>3. shown'[t] \in {shown[t], polled[t]}
        BY <2>2 DEF Show, ApiInv
      <3> QED BY <1>1, <3>2, <3>3, Ranks DEF NotAhead
    <2> QED BY <1>1, <2>1, <2>2 DEF ApiNext, apiVars, GetBadID, GetTask
  <1>2. ApiInv /\ PollInv /\ PollInv' /\ [ApiNext]_apiVars =>
           [\A t \in Tasks :
               /\ moves' = 0 /\ attempts[t] < 2 /\ ~WronglyReported(t)
               /\ shown[t].http = 200 /\ shown'[t].http = 200
               => Rank[shown'[t].status] >= Rank[shown[t].status]]_apiVars
    BY <1>1
  <1> QED BY <1>2, InitPollInv, ApiInvariant, NextPollInv, PTL DEF ApiSpec, PollsGoForward

=============================================================================
