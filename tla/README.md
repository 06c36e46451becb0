# TLA+ models of the task manager

The repository is a gateway between clients and a worker that runs LLM tasks.
A client posts a file; the gateway stores it in MinIO, writes a row into the
PostgreSQL table `tasks` and publishes a command to a Kafka topic. A worker
(not in the repository) answers with status events in the same topic; the
gateway's consumer writes them into the row, where clients read them. This
directory holds models of the parts where ordering, failure and concurrency
matter, the TLC configurations that check them, and proofs.

## Inventory

| Component (source) | State | Operations | What makes it correct |
|---|---|---|---|
| CreateTask (`usecase/task_llm_usecase.go`, `restapi/v1/handle.go`) | none of its own: an object, a row, a message | upload, INSERT, Send, on an error the compensation and the record of the failure | an answer 202 means that file, row and command exist; a refusal leaves no file and is recorded; every request ends |
| Producer (`pkg/kafka/producer.go`) | librdkafka's queue | Send, Close | a command is published at most once; Send ends with its context |
| Task repository (`postgres/task_repository.go`) | the table | Create, GetByID, UpdateWithStatus/Result/Error/Worker, ListByStatus | no UPDATE is refused by a CHECK constraint; times fit each other and the status |
| UpdateTaskStatus (`usecase/task_llm_usecase.go`) | the row, between a SELECT and an UPDATE | one call per event | no status without a cause; the last event shows in the end |
| Broker handlers (`handlers/broker`) | none | Handle, HandleTaskStatusLLM, ValidateTaskStatusLLM | what the code sends it understands; the two parsers agree |
| Consumer (`pkg/kafka/consumer.go`) | channel, batch, offsets, `once` | Start, pollLoop, commitLoop, Stop | handled messages are committed, unhandled ones are not; Stop returns |
| REST handlers and errors | none | POST, GET | a status fits the result or message that comes with it, and the answer to the POST |
| Log writer (`pkg/logger/rotating_writer.go`) | current file, size, rotated files | Write, RotateNow, start, exit | files in order, only the oldest lost, none too large |
| MinIO adapter and connector (`storage/minio`, `pkg/minio`) | the bucket, its objects | ensureBucket, UploadStream, DeleteObject | nobody serves without a bucket; a compensation works after the deadline |
| Start and shutdown (`cmd/api/main.go`, `pkg/httpserver`, `connector/sql/postgres`) | main, the server's goroutine, its error channel, the pool, the context | the steps of the start, ListenAndServe, signal, cancel, Shutdown, Stop, Close | a signal ends the process; an orderly end cuts nobody off; the pool goes last |
| WithTransaction, middleware, configuration, logger manager, responses | | | not modelled, see below |

The components meet in four places: CreateTask and UpdateTaskStatus share the
row and run concurrently (the worker may answer before the request has ended);
the producer and the consumer share the topic, so that the gateway also reads
its own commands (and skips them, status PENDING); the consumer calls the
handler synchronously, and its two goroutines share a channel that `Stop`
closes; `main` cancels the context that the handler, the database calls in it
and both goroutines use, then waits for the requests and the consumer, which
share the pool that it closes last. All replicas share the bucket.

The hard behaviours are: the deadline of a request, which ends the wait for
Kafka and disables whatever else uses the same context; the end of the process
anywhere between three systems without a common transaction; errors whose
operation took effect; redelivery after a restart, handlers that go on after the
partition has moved, and commits that come after it; UPDATEs that overtake each other between two clocks;
`Stop` against two running goroutines; a shutdown while requests and a handler
are at work; a rotation that ends half way.
`PROJECT.json` lists them as hazards, each at its line.

## Modules

| Module | Models | Composes |
|---|---|---|
| `TaskStatus` | the statuses and their Kafka codes (`entity/domain/task.go`) | |
| `TaskRow` | a row, the INSERT and the four UPDATEs as functions from row to row, the CHECK constraints | `TaskStatus` |
| `TaskTable` | the table under several sessions and two clocks | `TaskRow` |
| `TaskPromise` | what `POST` promises, without saying how, also when a process ends | |
| `TaskIntake` | CreateTask with Send, deadlines, crashes and its compensation; implements `TaskPromise` | `TaskRow` |
| `ConsumerPromise` | what a consumer promises over one assignment: one message after the other, no commit past the one in the handler, rest after `Stop` | |
| `GroupPromise` | what the replicas promise together over all assignments: for which reasons an event may be passed over | `ConsumerPromise` |
| `TaskLifecycle` | worker, consumer group, UpdateTaskStatus; implements `GroupPromise` | `TaskIntake` |
| `TaskApi` | POST and GET as a client sees them | `TaskLifecycle` |
| `StatusMessage` | headers made and parsed, both parsers, the dispatch on the topic | `TaskStatus` |
| `ConsumerLoop` | pollLoop, commitLoop, Start, Stop and main's use of them; implements `ConsumerPromise` (`OneLife`) | |
| `Gateway` | one process: main, the HTTP server's goroutine, the requests and the consumer, from the start to the end | `TaskIntake`, `ConsumerPromise` |
| `RotatingWriter` | the log writer, system call by system call | |
| `TaskTable_proofs`, `TaskIntake_proofs`, `StatusMessage_proofs`, `ConsumerLoop_proofs`, `RotatingWriter_proofs` | theorems | the module of that name |
| `TaskLifecycle_proofs`, `Gateway_proofs`, `TaskApi_proofs` | theorems | the module of that name, and the theorems about the one it builds on: `TaskIntake_proofs`, `TaskIntake_proofs`, `TaskLifecycle_proofs` |
| `MC*` | values for TLC | |

Some correspondences that a reader of the code will want:

- **TaskIntake.** `pc[t]` is the line CreateTask has reached for request `t`.
  `expired` holds the requests whose `context.WithTimeout` (`handle.go:51`) is
  done; `Upload`, `Insert` and `RecordFailure` need a live context to succeed,
  `Undo` does not, as in the code. `Produce` is the first half of `Send`
  (`producer.go:97`, whose error is dropped), `AwaitDelivery` its `select`.
  `Send`'s marshal error cannot occur for a payload of texts and numbers, and its
  last `return nil`, for an event that is not a message, is never reached: a
  delivery channel gets the report of its message and nothing else.
  `Crash(t)` is the end of the replica that serves `t`; the commands it still
  had in librdkafka are gone (`main` never closes the producer).
- **TaskTable.** A statement has its `NOW()` from when it begins and is applied
  later on the row as it is then. `Create` takes `created_at` from a clock that
  is at most `Skew` away. `Updates` has the statements the gateway issues and
  those that so far only the tests issue (`UpdateWithStatus` to a final status,
  `UpdateWithWorker`).
- **TaskLifecycle.** `Decide` is UpdateTaskStatus up to its UPDATE, `Write` the
  UPDATE: a replica may lose the partition in between and still write. The
  topic has one partition, as all messages of a task have one key. `batch[r]` is
  what replica `r` has handled and not yet committed, in its channel or its
  batch. It belongs to the process, not to the assignment: `SubscribeTopics` gets
  no rebalance callback (`consumer.go:99`), so after a `Rebalance` the old owner
  commits it late (`Commit`), behind what the new owner has committed or past
  what that one has yet to handle again. Only the end of the process (`Restart`)
  forgets it. A commit may fail; the message leaves the batch all the same.
  A group without a committed offset (`NewGroup`) starts at the end of the
  topic, since `main` does not set `AutoOffsetReset`. Three histories say what
  became of events: `passed` (an assignment read on after them though they had
  not been handled since the last one), `dropped` (the SELECT or the UPDATE
  failed) and `evicted` (a live process lost the partition with something in
  hand or to commit, so late commits are possible from here on).
- **ConsumerLoop.** `poll`, `committer`, `starter`, `main` and `stopper` are the
  program counters of pollLoop, commitLoop, Start, main and whoever is inside
  `once.Do`. A send on the closed channel is `SendPanics`, and nothing happens
  after it. `auto` is `enable.auto.commit`, fixed at the start. How long a wait
  lasts is left out: it may end at any time. `cutoff` remembers the messages
  whose handler failed after the cancellation, since it runs under the context
  that is cancelled (`consumer.go:91`); `failed` those whose CommitMessage failed,
  which `drainCommit` only logs. One assignment is modelled here; what a
  rebalance makes of channel and batch is the subject of `TaskLifecycle`.
- **ConsumerPromise.** `hand` is the message in the handler, `pos` the client's
  position, `life` what main knows of the consumer. `ConsumerLoop` maps its
  goroutines onto these (`Life`, `InHand`), so that `Gateway` can use the
  promise in the place of the goroutines: what the one shows of a consumer is
  what the other assumes. `GroupPromise` continues it over assignments, and
  `TaskLifecycle` maps its group onto that.
- **Gateway.** `main` is the line main has reached. `server` is the errgroup's
  goroutine (`server.go:80`), `notify` the errors in its channel. `TaskIntake`'s
  actions are the requests, under the conditions of a process: they arrive
  while the server listens, query while the pool is open and go on while the
  process is there. Requests take their context from net/http, not from main,
  so `cancel()` does not touch them. `Drained` and `DrainTimesOut` are the two ways
  in which `http.Server.Shutdown` returns; after a timeout the requests run on
  (nothing calls `Server.Close`) until the process ends. `ProcessEnds` is common
  to all ends: what is in progress stops, and librdkafka's queue is dropped.
- **TaskApi.** `polled` is the answer to a GET on its way, `shown` the last one the
  client has seen; between the two the system moves on.
- **RotatingWriter.** The mutex makes Write and RotateNow one piece for other
  goroutines, so there is one thread of control; the process may end and a call
  may fail between any two steps of it. A file is a sequence of lines, each with
  the position at which it ends; a line cut short by a failed write ends where
  the write did.

Data is abstracted to what the properties tell apart: a file, a result and an
error message are "there" or not, an id is a model value, a header value is
what was sent and what base64 decoding makes of it. A statement that is given no
result or message (`NotGiven`: nil, or the empty text of an event without one)
takes away the one the row had, as the code writes NULL or ''. `ToMap` leaves out
the fields that are not set, as the code does; the version is always one of them,
since nothing sets it.

## Runs

| Run | Question and bounds |
|---|---|
| `table` | Do overtaking UPDATEs keep a row's times and CHECK constraints? 1 row, 2 sessions, clocks 1 apart, time up to 3: any two statements overlap and a third may come before or after. Rows do not influence each other. |
| `intake` | What do an answer and a refusal leave behind, and does every request end? 2 requests, failures of all three systems, uploads and INSERTs that report a failure wrongly, crashes. |
| `intake_recorded` | *violated*: is every failed publication recorded? |
| `lifecycle_rest` | Does the row end at the task's last event, and do the replicas consume as `GroupPromise` says? 1 task, 2 replicas, manual commits that may fail or be late, a failing database, 2 restarts or rebalances (one to leave a batch with the old owner, one to read on after its late commit); no wrong delivery reports. Automatic commits are in `api`; that the group keeps `GroupPromise` with them too is proved (`GroupIsOneConsumer`). The worker takes the task up once: three messages, command, PROCESSING and the end. With two attempts the run has more than ten million states. |
| `lifecycle_order` | *violated*: does a status ever go back? |
| `api` | Does any status or payload lack a cause, any message its row, and what may a polling client see? 1 task, 2 replicas (interchangeable), every fault and hiccup, automatic commits, a new group, 1 reassignment: enough for a replica that writes after the partition has moved, and for events that are handled twice. Its VIEW leaves out the histories, of which no property here speaks, and the offsets after the last assignment, which have no effect any more. |
| `status_message` | Do the parsers understand what is sent and agree? Up to 3 headers out of 8 values: two status headers and one other, in any order, the values covering each branch of the decoding. |
| `status_missing` | *violated*: is a message without a status refused? |
| `consumer` | Do the goroutines keep `ConsumerPromise`, are handled messages, and only those, committed, and does Stop return? 4 messages, a channel of 1, batches of 2, so that the channel is full while a batch is committed and both ends of a batch occur; both commit modes. |
| `graceful` | *violated*: does shutdown happen without a panic? |
| `gateway` | What does the end of a process leave undone, does it end, and does it keep `TaskPromise`? 2 requests, so that one is answered while the other is cut off; the consumer reads the up to two commands they publish; automatic commits, as in `config.yaml` (`consumer` has both modes). |
| `rotating` | Are the log files in order and complete? 5 entries of 1, 2 or 4 bytes, limit 3, with 0 (of which `rotate` makes 1), 1, 2 or 3 files: five entries fill three files and the current one. |

Two requests and two sessions suffice because a request or a statement touches
its own task only, and the properties speak of one task at a time or of a pair of
positions in the log; the proofs below have no such bound. `MaxTime`,
`MaxAttempts`, `MaxMoves`, `MaxHeaders`, `Messages` and `MaxEntries` are the only
bounds that cut off behaviour; the other constants are configuration.

`CHECK_DEADLOCK FALSE` is set everywhere: each system may come to rest (all
requests served, the process ended, the bounds used up).

**Fairness.** A request that has begun continues, its deadline comes and a
queued command is delivered or given up: Go runs what can run,
`context.WithTimeout` fires and librdkafka has `message.timeout.ms`.
New requests are not forced. The worker takes up each command once and ends
what it began (assumed of it, it is external), and the poll loop keeps polling.
In `ConsumerLoop` every goroutine that can run does; the signal is not forced,
nor any particular outcome of the handler or of a read. In `Gateway` main and the
server's goroutine go on when they can, the shutdown timeout comes, `Serve`
returns once `Shutdown` has closed the listener, and a handler returns, since its
queries use a cancelled context. That `Stop` returns unless the consumer panics is
assumed there (strong fairness of `StopConsumer`, which a handler disables for a
while) because `StopReturns` shows it of the goroutines. Neither a signal, nor a
request, nor a failure of the listener is forced.

**What the runs show beyond passing.** Several properties carry a premise that
says exactly when the code keeps them, and dropping it is a counterexample:

- `SettledShowsLastEvent` and `AcceptedComesToRest` except a task one of whose
  events (the last one, for the former) is in `passed` or `dropped`, and speak of a
  group whose partition never moves from under a running handler. When
  an event is passed over is what `GroupKeepsPromise` says: because of an automatic
  commit, of a late one after a rebalance, or for want of a committed offset (the
  offset reset is "latest"). None of this is far-fetched: with manual commits,
  the old owner of a partition commits its batch up to 5 seconds late, past what
  the new owner is handling again; if that one then restarts, the rest is never
  handled again, and an accepted task may show PROCESSING for ever.
- `HandledIsOnItsWay` excepts a message whose own CommitMessage failed, which is
  never tried again; a later commit covers it, or a restart delivers it again.
- `HandledIsOnItsWay`, `ShutdownLosesNothing` and what `ConsumerPromise` says of
  commits hold for manual commits only; with both kinds, a batch committed
  late moves the offset back, and an event cut off by the shutdown is covered.
- `GroupKeepsPromise` is checked without a rebalance under a running handler:
  then two replicas are at work, and no order of the handling is left.
- `AnswersFit`: a client may read COMPLETED without a result and FAILED without a
  message, but only if some event of that kind came without one.
- `RefusedIsNotWorkedOn` and `PollsGoForward` except a delivery that librdkafka
  reports as failed although it was none, and the former the deadline.
- `OrderlyExitCutsNobody`, `PoolClosedLast` and `DroppedWereGivenUp` except a shutdown
  that timed out. This is not far-fetched: the shutdown timeout and the deadline
  of a request are both 30 s, so a request that began shortly before the signal
  and meets its deadline is cut off in its compensation.
- `NoUpdateRefused` covers `UpdateWithWorker`, the one statement without
  GREATEST, only if the clocks are one.
- `UnstartedHadEnded`: a task revived from FAILED or COMPLETED by a
  PROCESSING event shows no `started_at`.

## Where code and text differ

Shown by the *violated* runs:

1. `RefusalRecorded`: a publication that fails at the deadline is recorded under
   the expired context, so it is not recorded and the row stays PENDING.
2. `StatusMovesForward`: a redelivered PROCESSING event takes a finished task
   back to PROCESSING, against the arrow in the table's comment.
3. `MissingStatusRejected`: no status header means FAILED; `validateStatus`
   would refuse the message, but nothing calls it.
4. `ShutdownIsGraceful`: `Stop` closes `commitChain` while pollLoop may be about
   to send on it.

Met while reading, and too direct for a run of their own: the backoff called
exponential is linear (`consumer.go:167`); `max_files = 0`, documented as
unlimited (`manager.go:28`), keeps one file (`rotating_writer.go:93,115`); a GET of a
missing task is answered 500, documented as 404 (`handle.go:111`);
`brokerDownCount` is reset by every ordinary read timeout, so the backoff may
never grow (`consumer.go:142`); `config.yaml:14` offers the log mode "file", where
the manager knows "files" only and falls back to stdout (`manager.go:39`); main
calls the HTTP server its main thread (`main.go:152`), but it runs in a goroutine
whose error nobody reads, and a gateway whose port is taken goes on without it;
main passes only the port and the read timeout to the server, so a configured
write or shutdown timeout has no effect (`main.go:153`); WithTransaction assigns a
commit error to a variable whose value has been returned already, so that its
caller is told nil (`transaction.go:48`).

## Proofs

TLC checks the instances listed above; the theorems below hold for every value
of the constants: any number of requests, sessions, replicas, messages, headers
and entries, every capacity, every set of faults. Each module `X_proofs` extends
`X`. All have the same shape: an inductive invariant that was checked by TLC
where it can be evaluated, `Init => Inv`, a lemma per action (or group of
actions) that it keeps `Inv`, and the properties as consequences.

| Module | Theorems | Inductive invariant |
|---|---|---|
| `TaskTable_proofs` | `TableTypeCorrect`, `FinishedRowsAreDated`, `UnstartedTasksHadEnded`, `UpdatesAreNeverRefused`, `StartsPrecedeCompletions` | `TableInv` |
| `TaskIntake_proofs` | `IntakeTypeCorrect`, `AcceptedTasksAreWhole`, `CommandsAreUnique`, `RefusalsLeaveNoFile`, `LateCommandsNeedATimeout`, `RefusalsAreRecordedInTime`, `IntakeKeepsPromise` | `IntakeInv`, `IntakeRefusals` |
| `TaskLifecycle_proofs` | `LifeTypeCorrect`, `EventsHaveRows`, `StatusesAreCaused`, `IntakeSurvives`, `PromiseSurvives`, `NothingIsPassedOver`, `GroupIsOneConsumer`, `SettledTasksShowTheirLastEvent` | `LifeInv`, `GroupInv`, `CommitInv`, `TableInv` |
| `TaskApi_proofs` | `ApiTypeCorrect`, `AnswersFitTogether`, `RefusedTasksAreNotWorkedOn`, `CausesHoldForClients`, `PolledStatusGoesForward` | `ApiInv`, `PollInv` |
| `StatusMessage_proofs` | `OwnMessagesAreUnderstood`, `TheParsersAgree` | `MessageInv` |
| `ConsumerLoop_proofs` | `TypeCorrect`, `HandledStaysOnItsWay`, `CutOffEventsComeBack`, `ConsumerIsAsPromised` | `LoopInv` |
| `Gateway_proofs` | `GatewayTypeCorrect`, `BucketBeforeRequests`, `OrderlyExitsCutNobody`, `PoolIsClosedLast`, `DroppedCommandsWereGivenUp`, `IntakeHoldsInProcess`, `PromiseHoldsInProcess`, `RefusalsInProcess` | `ProcessInv`, `ProcessRefusals` |
| `RotatingWriter_proofs` | `WriterTypeCorrect`, `LogIsInOrder`, `NoGapsInTheLog`, `FilesStayWithinLimit` | `WriterInv`, `LimitInv` |

Why the invariants are what they are:

- **TableInv.** A row also needs that PENDING implies no times (so that the late
  UPDATE to PROCESSING, which sets `started_at` on PENDING rows only, cannot set
  it behind `completed_at`), and a statement in flight needs that its row exists
  and that it asks for a status its operation is used with. For
  `UpdateWithWorker` the invariant keeps `created_at <= NOW() + Skew`. One lemma
  per statement says that it maps a row that keeps `RowInv` to another;
  `OutcomeKeepsRowInv` lifts them to the statement in flight.
- **IntakeInv.** Per request, which of file, row and command exist at each point
  of CreateTask; in particular a queued command has not been published and has
  no report, and "ok" is reported only of a published one. `OnlyFor` says that a
  step of one request leaves the others alone. **IntakeRefusals** adds what a
  refusal at each point leaves: once Send has given up, either the report is an
  error or the context is not live any more, which is exactly when the record
  of the failure may be missing.
- **LifeInv.** A message in the topic has a row and comes from a published
  command; a worker is busy with published tasks only; and a replica that is
  about to write does so for an event that stays in the topic, so the status is
  caused even if the partition has moved in between. `RowFilled` says the same of
  the result and the message in a row, and of their absence. `IntakeSurvives`
  carries over what TaskIntake shows of refusals, with one exception: the error
  that CreateTask has recorded can be overwritten by a late command's failure that
  comes without a message (`RefusalStaysRecorded`, `Overwritten`).
- **GroupInv** says that only the owner is at work, on the last message it has
  read, and that whatever is in a batch was handled once. **CommitInv** adds, for
  manual commits, that as long as nobody has lost the partition with something to
  commit (`evicted`), the batch of the owner runs in order from the committed
  offset to what it has handled, so that an assignment passes over nothing
  (`NothingIsPassedOver`). Both need the hypothesis `Undisturbed` (the hiccup
  "overtaken" is not among `Hiccups`): a partition that moves under a running
  handler leaves two replicas at work, and `GroupIsOneConsumer` would be false.
  `SettledTasksShowTheirLastEvent` has the hypothesis `Truthful`, which adds that
  no delivery is wrongly reported as failed: otherwise CreateTask may write its
  FAILED over the worker's answer. The run `lifecycle_rest` satisfies both. The
  invariant `TableInv` there is that a task none of whose events is left to be
  handled shows the last one, unless that is lost: a restart that moves the
  position back makes it unhandled again, a redelivery passes through the older
  statuses and ends at the last, and a position that moves forward past
  unhandled events puts them in `passed`.
- **ApiInv** keeps of an answer on its way what it owes to the row it was read
  from: a cause in the topic of its status, its result and its message (`Fits`),
  which does not go away when the row moves on.
  **PollInv**, for `PolledStatusGoesForward`, relates four things: while nobody was
  assigned the partition anew only the first owner works (`FirstOwnerInv`); a
  task taken up once has PROCESSING before its final event (`RunInv`); a row that
  is not PENDING shows an event that has been handed over (`HandledInv`), so the
  events still to come are later ones; and the row, the answer under way and the
  one shown are in this order (`InOrder`).
- **MessageInv** says that a verdict belongs to the message and an own message to
  its task. The work is in the lemmas about the operators: `Codes` (ToKafkaCode
  and FromKafkaCode are inverse on the statuses), `ParsedIsStated` (what the
  parser makes of headers that state one status is that status), `OwnHeaders` (an own message states its status once, in any order).
- **LoopInv.** Batch, channel, the message in hand and the position are one
  rising sequence (`OrderInv`), the committed offset is at or before whatever
  is on its way, and what a drain leaves behind is committed or has failed
  (`CommitInv`), a cut-off event ends pollLoop's reading
  (`CutoffInv`), and Stop's stages and the goroutines' ends come in order
  (`StopInv`). For `ConsumerIsAsPromised` each step of a goroutine is shown to be
  a step of `ConsumerPromise!OneLife` or to leave its view unchanged.
- **ProcessInv** ties main's line to what is over by then: the bucket before the
  server, no request after a drain in time, the consumer stopped before the
  pool is closed; with `IntakeInv` for the requests, whose proofs are reused.
  The consumer is represented by its promise, so the theorems hold of any
  consumer that keeps it, and `ConsumerIsAsPromised` says that this one does.
- **WriterInv.** A rotation keeps the file it shifts to free (so no rename
  overwrites a file) unless a shift has failed, and the entry being written is
  not in any file yet; then the order of the files survives every rename, and
  what is removed is older than all that stays. **LimitInv** adds that the counted
  size is that of the open file and that an entry is put only where it fits,
  or into an empty file. A file's lines carry the position at which they end,
  so that its size is that of its last line and no sum over a sequence is needed,
  which would have to be proved by induction.

Assumptions: those named in the modules (`TaskTableAssumption`, `IntakeAssumption`,
`LifecycleAssumption`, `StatusMessageAssumption`, `ConsumerLoopAssumption`,
`GatewayAssumption`, `RotatingWriterAssumption`), which say what the constants
are, and which TLC evaluates in the runs; and the two hypotheses above.

`TaskPromise` is implemented three times: by CreateTask alone (`IntakeKeepsPromise`),
with the worker and the consumers (`PromiseSurvives`), and in a whole process
(`PromiseHoldsInProcess`), where a request that the process leaves behind is
lost in the promise's terms: unanswered, and nothing more happens for it.
The invariants of refusals hold in a whole process too (`RefusalsInProcess`), but
`RefusalRecordedInTime` only until the shutdown has timed out: from then on the
pool may be closed under a request that is about to record its failed
publication, and the record fails with it. `ProcessRefusals` is split for this
reason: what a request leaves behind is promised always, the record until then.

Every invariant and every action property of the passing runs is proved, and so
are the three refinements (`KeepsPromise`, `KeepsConsumerPromise`,
`GroupKeepsPromise`), whose abstract specifications promise safety only. Only
model-checked are the liveness properties
`EveryRequestAnswered`, `AcceptedComesToRest`, `StopReturns` and
`SignalEndsProcess`: fairness and ENABLED are out of the prover's reach. The four
*violated* runs are counterexamples, and need no proof.

## Not modelled

- `WithTransaction`, `ListByStatus`, the producer's `Close`, the adapter's metadata,
  existence and listing operations: no caller in this version, so what they are
  relied on for would have to be invented. (`UpdateWithWorker` has none either;
  `TaskTable` models it, since it writes the same rows under the same constraints.)
- A producer without idempotence: the configuration has it switched on, and
  `OneCommand` is about that configuration.
- Middleware, router, response bodies, validation messages, logger manager,
  colours, configuration: start-up code, or stateless formatting.
- The lengths of timeouts and waits: a model's timeout may come at any time.
- The worker and the brokers beyond their use by the code.

## Plan

1. Proofs: the safety half of `StopReturns` (a stopped consumer never holds the
   lock of `once` against a goroutine that it waits for).
2. A gateway whose consumer also writes the rows: `TaskLifecycle` in the place of
   `TaskIntake` in `Gateway`, if its state space allows.
