------------------------------- MODULE Gateway ------------------------------
(***************************************************************************)
(* One process of the gateway from its start to its end (cmd/api/main.go): *)
(* main, the HTTP server in its errgroup (pkg/httpserver), the requests in *)
(* progress and the Kafka consumer.                                        *)
(*                                                                         *)
(*   connect -> probe -> make -> wire -> launch -> serve -> trap -> await  *)
(*      +--------+--------+-------+-> failed              signal: cancel() | *)
(*               exited <- leave <- close <- stop <- join <- drain <- cancel *)
(*                                                                         *)
(* A request is CreateTask as in TaskIntake; its context comes from net/http, *)
(* not from the context that main cancels, so only its deadline, its       *)
(* client, a closed pool and the end of the process disturb it.  The       *)
(* consumer is ConsumerPromise, which ConsumerLoop implements, and reads   *)
(* the topic to which the requests send their commands.  When the          *)
(* process ends, in whatever way, all that is in progress ends with it,    *)
(* and what librdkafka still has queued is dropped: main closes the log,   *)
(* the pool and the consumer, but never the producer.                      *)
(***************************************************************************)
EXTENDS TaskIntake, Integers

CONSTANT AutoCommits    \* the values of enable.auto.commit to consider

ASSUME GatewayAssumption == AutoCommits \subseteq BOOLEAN

VARIABLES main,         \* where main is, or how the process ended
          server,       \* the goroutine of the HTTP server
          notify,       \* errors in the channel that Notify returns
          timedOut,     \* the server's Shutdown gave up waiting
          bucket,       \* the bucket is there; all replicas share it
          pool,         \* the connection pool: "open" or "closed"
          dropped,      \* history: the commands dropped with librdkafka's queue
          auto, life, hand, pos, committed      \* the consumer (ConsumerPromise)

processVars == <<main, server, notify, timedOut, bucket, pool, dropped>>
consumerVars == <<auto, life, hand, pos, committed>>
gatewayVars == <<intakeVars, processVars, consumerVars>>

Cancelled == main \in {"cancel", "drain", "join", "stop", "close", "leave", "exited"}
Over == {"failed", "killed", "panicked", "exited"}
Alive == main \notin Over

Consumer == INSTANCE ConsumerPromise WITH
                end <- Len(log), cancelled <- Cancelled

GatewayTypeOK ==
    /\ IntakeTypeOK
    /\ main \in {"connect", "probe", "make", "wire", "launch", "serve", "trap", "await",
                 "cancel", "drain", "join", "stop", "close", "leave"} \union Over
    /\ server \in {"off", "starting", "listening", "failing", "failed", "closed"}
    /\ notify \in 0..1
    /\ timedOut \in BOOLEAN /\ bucket \in BOOLEAN
    /\ pool \in {"open", "closed"}
    /\ dropped \subseteq Tasks
    /\ auto \in AutoCommits
    /\ life \in {"running", "stopped", "panicked"}
    /\ hand \in -1..(Len(log) - 1) /\ pos \in 0..Len(log) /\ committed \in -1..Len(log)

GatewayInit ==
    /\ IntakeInit
    /\ main = "connect"
    /\ server = "off" /\ notify = 0 /\ timedOut = FALSE
    /\ bucket \in BOOLEAN
    /\ pool = "open"
    /\ dropped = {}
    /\ Consumer!Init
    /\ auto \in AutoCommits

MainGoes(from, to) == main = from /\ main' = to

-----------------------------------------------------------------------------
(* The start.  Any of its steps may fail, and then the process exits at    *)
(* once: main's os.Exit runs no deferred function.                         *)
Starts(from, to) == MainGoes(from, to) \/ MainGoes(from, "failed")

(* Configuration, logs, and the connector of PostgreSQL with its ping. *)
ConnectDatabase ==
    /\ Starts("connect", "probe")
    /\ UNCHANGED <<intakeVars, server, notify, timedOut, bucket, pool, dropped, consumerVars>>

(* Mutant: an error of BucketExists is taken for a bucket that exists. *)
ProbeIgnoringError ==
    /\ Starts("probe", IF bucket THEN "wire" ELSE "make") \/ MainGoes("probe", "wire")
    /\ UNCHANGED <<intakeVars, server, notify, timedOut, bucket, pool, dropped, consumerVars>>

(* ensureBucket: BucketExists, then MakeBucket if there was none.  MinIO    *)
(* refuses to make a bucket that is there, so the start fails if another    *)
(* replica has made it in between.                                          *)
ProbeBucket ==
    /\ Starts("probe", IF bucket THEN "wire" ELSE "make")
    /\ UNCHANGED <<intakeVars, server, notify, timedOut, bucket, pool, dropped, consumerVars>>

MakeBucket ==
    /\ \/ ~bucket /\ bucket' = TRUE /\ Starts("make", "wire")
       \/ UNCHANGED bucket /\ MainGoes("make", "failed")
    /\ UNCHANGED <<intakeVars, server, notify, timedOut, pool, dropped, consumerVars>>

(* Another replica starts at the same time and makes the bucket. *)
OtherMakesBucket ==
    /\ Alive /\ ~bucket
    /\ bucket' = TRUE
    /\ UNCHANGED <<intakeVars, main, server, notify, timedOut, pool, dropped, consumerVars>>

(* The producer, the use cases, the health check, the consumer. *)
WireUp ==
    /\ Starts("wire", "launch")
    /\ UNCHANGED <<intakeVars, server, notify, timedOut, bucket, pool, dropped, consumerVars>>

(* go cons.Start(ctx); an error of it is logged, and the gateway serves on *)
(* without a consumer.                                                     *)
LaunchConsumer ==
    /\ MainGoes("launch", "serve")
    /\ UNCHANGED <<intakeVars, server, notify, timedOut, bucket, pool, dropped, consumerVars>>

(* httpServer.Start: the errgroup's goroutine. *)
StartServer ==
    /\ MainGoes("serve", "trap")
    /\ server' = "starting"
    /\ UNCHANGED <<intakeVars, notify, timedOut, bucket, pool, dropped, consumerVars>>

(* signal.Notify: before it a signal ends the process, after it only quit  *)
(* hears of it.                                                            *)
TrapSignals ==
    /\ MainGoes("trap", "await")
    /\ UNCHANGED <<intakeVars, server, notify, timedOut, bucket, pool, dropped, consumerVars>>

(* ListenAndServe, which fails at once (the port is taken) or later, and   *)
(* does not begin after Shutdown has.                                      *)
ShuttingDown == main \in {"drain", "join", "stop", "close", "leave"}

Listen ==
    /\ Alive /\ server = "starting"
    /\ server' \in IF ShuttingDown THEN {"closed"} ELSE {"listening", "failing"}
    /\ UNCHANGED <<intakeVars, main, notify, timedOut, bucket, pool, dropped, consumerVars>>

ListenEnds ==
    /\ Alive /\ server = "listening"
    /\ server' \in IF ShuttingDown THEN {"closed"} ELSE {"failing"}
    /\ UNCHANGED <<intakeVars, main, notify, timedOut, bucket, pool, dropped, consumerVars>>

(* Mutant: the channel is not buffered, and nobody receives from it. *)
ReportToNobody ==
    /\ Alive /\ server = "failing"
    /\ FALSE
    /\ UNCHANGED <<intakeVars, main, timedOut, bucket, pool, dropped, consumerVars, notify, server>>

(* Mutant: the server listens again after an error, and keeps the errors. *)
ReportAndRetry ==
    /\ Alive /\ server = "failing"
    /\ notify' = notify + 1
    /\ server' = "starting"
    /\ notify < 3
    /\ UNCHANGED <<intakeVars, main, timedOut, bucket, pool, dropped, consumerVars>>

(* s.notify <- err: the channel holds one error. *)
ReportFailure ==
    /\ Alive /\ server = "failing"
    /\ notify < 1
    /\ notify' = notify + 1
    /\ server' = "failed"
    /\ UNCHANGED <<intakeVars, main, timedOut, bucket, pool, dropped, consumerVars>>

-----------------------------------------------------------------------------
(* The process ends: no deferred function of a request runs. *)
ProcessEnds(how) ==
    /\ main' = how
    /\ pc' = [t \in Tasks |-> IF pc[t] \in Running THEN "crashed" ELSE pc[t]]
    /\ outbox' = {}
    /\ dropped' = outbox
    /\ UNCHANGED <<expired, stored, rows, report, log, server, notify, timedOut, bucket, pool>>

(* SIGINT or SIGTERM: <-quit, then cancel().  A second one stays in quit.  *)
Signal ==
    /\ MainGoes("await", "cancel")
    /\ UNCHANGED <<intakeVars, server, notify, timedOut, bucket, pool, dropped, consumerVars>>

(* A signal before signal.Notify, or SIGKILL at any time. *)
Kill ==
    /\ Alive
    /\ ProcessEnds("killed")
    /\ UNCHANGED consumerVars

(* httpServer.Shutdown: no new requests; wait until none is in progress, or *)
(* for shutdownTimeout; then wait for the server's goroutine.              *)
BeginDrain ==
    /\ MainGoes("cancel", "drain")
    /\ UNCHANGED <<intakeVars, server, notify, timedOut, bucket, pool, dropped, consumerVars>>

(* Mutant: the connections are closed in the place of drained. *)
DrainAtOnce ==
    /\ MainGoes("drain", "join")
    /\ UNCHANGED <<intakeVars, server, notify, timedOut, bucket, pool, dropped, consumerVars>>

InProgress == {t \in Tasks : pc[t] \in Running}

Drained ==
    /\ MainGoes("drain", "join")
    /\ InProgress = {}
    /\ UNCHANGED <<intakeVars, server, notify, timedOut, bucket, pool, dropped, consumerVars>>

DrainTimesOut ==
    /\ MainGoes("drain", "join")
    /\ InProgress # {}
    /\ timedOut' = TRUE
    /\ UNCHANGED <<intakeVars, server, notify, bucket, pool, dropped, consumerVars>>

JoinServer ==
    /\ MainGoes("join", "stop")
    /\ server \in {"closed", "failed"}
    /\ UNCHANGED <<intakeVars, server, notify, timedOut, bucket, pool, dropped, consumerVars>>

(* Mutant: main leaves the stopping to Start, which also hears of the      *)
(* cancelled context.                                                      *)
LeaveStopToStart ==
    /\ MainGoes("stop", "close")
    /\ UNCHANGED <<intakeVars, server, notify, timedOut, bucket, pool, dropped, consumerVars>>

(* cons.Stop() returns. *)
StopConsumer ==
    /\ MainGoes("stop", "close")
    /\ UNCHANGED <<intakeVars, server, notify, timedOut, bucket, pool, dropped>>
    /\ Consumer!Stop

(* postgresConnector.Close(): it waits for the statements in progress.     *)
ClosePool ==
    /\ MainGoes("close", "leave")
    /\ pool' = "closed"
    /\ UNCHANGED <<intakeVars, server, notify, timedOut, bucket, dropped, consumerVars>>

Exit ==
    /\ main = "leave"
    /\ ProcessEnds("exited")
    /\ UNCHANGED consumerVars

-----------------------------------------------------------------------------
(* The consumer while its goroutines are there. *)
Starting == {"connect", "probe", "make", "wire", "launch"}
Consuming == Alive /\ main \notin Starting /\ UNCHANGED <<intakeVars, processVars>>

Consume == Consuming /\ (Consumer!Read \/ Consumer!Commit)
HandlerReturns == Consuming /\ Consumer!Finish

(* The panic of a goroutine takes the process with it. *)
ConsumerPanics ==
    /\ Alive
    /\ life = "running" /\ Cancelled
    /\ ProcessEnds("panicked")
    /\ life' = "panicked"
    /\ UNCHANGED <<auto, hand, pos, committed>>

(* A request arrives while the server listens (Shutdown closes the listener *)
(* before anything else), and goes on as CreateTask does.  On a closed pool *)
(* a query fails.                                                           *)
Arrive(t) == server = "listening" /\ ~ShuttingDown /\ (BadRequest(t) \/ Begin(t))

Query(t) == pool = "open" /\ (Insert(t) \/ RecordFailure(t))

(* Mutant: the INSERT's error is not looked at. *)
QueryFailsUnseen(t) ==
    /\ pool = "closed"
    /\ Goto(t, "insert", "produce") \/ Goto(t, "record", "undo_kafka")
    /\ UNCHANGED <<expired, stored, rows, outbox, report, log>>

QueryFails(t) ==
    /\ pool = "closed"
    /\ Goto(t, "insert", "undo_db") \/ Goto(t, "record", "undo_kafka")
    /\ UNCHANGED <<expired, stored, rows, outbox, report, log>>

Work(t) == Upload(t) \/ Query(t) \/ QueryFails(t) \/ Produce(t) \/ AwaitDelivery(t) \/ Undo(t)

Handle(t) ==
    /\ Alive
    /\ Arrive(t) \/ Work(t) \/ Deliver(t) \/ Expire(t)
    /\ UNCHANGED <<processVars, consumerVars>>

-----------------------------------------------------------------------------
MainStep ==
    \/ ConnectDatabase \/ ProbeBucket \/ MakeBucket \/ WireUp
    \/ LaunchConsumer \/ StartServer \/ TrapSignals
    \/ BeginDrain \/ Drained \/ DrainTimesOut \/ JoinServer \/ ClosePool \/ Exit

ServerStep == Listen \/ ListenEnds \/ ReportFailure

GatewayNext ==
    \/ MainStep \/ Signal \/ StopConsumer \/ Kill \/ OtherMakesBucket
    \/ ServerStep
    \/ Consume \/ HandlerReturns \/ ConsumerPanics
    \/ \E t \in Tasks : Handle(t)

(* main and the server's goroutine run when they can, and the shutdown      *)
(* timeout comes.  A listener that listens need not fail, but its Serve     *)
(* returns once Shutdown has closed it.  A handler returns (its queries use *)
(* a cancelled context), and that Stop then does is what ConsumerLoop shows *)
(* (StopReturns).  Neither signals nor requests are forced.                 *)
GatewayFairness ==
    /\ WF_gatewayVars(MainStep)
    /\ WF_gatewayVars(Listen \/ ReportFailure) /\ WF_gatewayVars(ShuttingDown /\ ListenEnds)
    /\ WF_gatewayVars(HandlerReturns) /\ SF_gatewayVars(StopConsumer)

GatewaySpec == GatewayInit /\ [][GatewayNext]_gatewayVars /\ GatewayFairness

-----------------------------------------------------------------------------
(* An orderly exit cuts nobody off: every request that had begun has been  *)
(* answered, its compensation included, unless the server's Shutdown gave  *)
(* up waiting.                                                             *)
OrderlyExitCutsNobody ==
    main = "exited" /\ ~timedOut => \A t \in Tasks : pc[t] # "crashed"

(* No request is worked on without a bucket to store its file in, also     *)
(* while other replicas start at the same time: who has not seen the       *)
(* bucket or made it does not serve.                                       *)
ServesWithBucket == InProgress # {} => bucket

(* The pool is the last to go: once it is closed no event is in its handler *)
(* and no request in progress (but one that outlasted the shutdown timeout), *)
(* so that no event is lost to a closed pool.                              *)
PoolClosedLast ==
    pool = "closed" => hand = Consumer!NoMessage /\ (InProgress = {} \/ timedOut)

(* main never closes the producer, but all it drops with the producer's     *)
(* queue at an orderly exit are commands whose requests were refused at     *)
(* their deadline.                                                          *)
DroppedWereGivenUp ==
    main = "exited" /\ ~timedOut =>
        \A t \in dropped : pc[t] = "kafka_error" /\ t \in expired

(* A signal ends the process, whatever the server, the consumer and the     *)
(* requests are doing, also if the server has failed to listen and nobody   *)
(* has read its error.                                                      *)
SignalEndsProcess == main = "cancel" ~> ~Alive
=============================================================================
