---------------------------- MODULE Gateway_proofs --------------------------
(***************************************************************************)
(* Proofs about Gateway, for every set of requests, every choice of the    *)
(* faults and either way of committing: no request is worked on without a  *)
(* bucket, an orderly exit cuts nobody off, the pool is closed last, and   *)
(* what is dropped with the producer's queue had been refused.             *)
(*                                                                         *)
(* A request of the gateway is one of TaskIntake, whose invariant holds    *)
(* here, too: a query that fails on the closed pool and the end of the     *)
(* process, which takes all requests with it, keep it as well.             *)
(***************************************************************************)
EXTENDS Gateway, TaskIntake_proofs

AfterBucket == {"wire", "launch", "serve", "trap", "await", "cancel", "drain", "join", "stop",
                "close", "leave", "exited"}
AfterDrain == {"join", "stop", "close", "leave"}

(* How far main is and what it has seen to by then. *)
MainInv ==
    /\ main \in AfterBucket => bucket
    /\ server # "off" => bucket
    /\ main \in AfterDrain /\ ~timedOut => InProgress = {}
    /\ main \in {"close", "leave", "exited"} \/ pool = "closed" => life = "stopped"
    /\ life = "stopped" => hand = Consumer!NoMessage
    /\ pool = "closed" => main = "leave" \/ ~Alive

(* Requests arrive at a server, and are cut off by the end of the process   *)
(* only; one whose publication failed has a reason for it.                 *)
ArrivalInv ==
    /\ \A t \in Tasks : pc[t] # "new" => server # "off"
    /\ Alive => \A t \in Tasks : pc[t] # "crashed"
    /\ \A t \in Tasks : pc[t] \in GaveUp => report[t] = "err" \/ ~Live(t)

ProcessInv ==
    /\ IntakeInv
    /\ GatewayTypeOK
    /\ MainInv
    /\ ArrivalInv
    /\ OrderlyExitCutsNobody
    /\ PoolClosedLast
    /\ DroppedWereGivenUp

-----------------------------------------------------------------------------
(* The parts of the type invariant: main and the server, and the consumer. *)
MainTypeOK ==
    /\ main \in {"connect", "probe", "make", "wire", "launch", "serve", "trap", "await",
                 "cancel", "drain", "join", "stop", "close", "leave"} \union Over
    /\ server \in {"off", "starting", "listening", "failing", "failed", "closed"}
    /\ notify \in 0..1
    /\ pool \in {"open", "closed"}

ConsumerTypeOK ==
    /\ auto \in AutoCommits
    /\ life \in {"running", "stopped", "panicked"}
    /\ hand \in -1..(Len(log) - 1) /\ pos \in 0..Len(log) /\ committed \in -1..Len(log)

LEMMA GatewayTypeIs ==
  GatewayTypeOK <=>
      /\ IntakeTypeOK /\ MainTypeOK /\ ConsumerTypeOK
      /\ timedOut \in BOOLEAN /\ bucket \in BOOLEAN
      /\ dropped \subseteq Tasks
  BY Zenon DEF GatewayTypeOK, MainTypeOK, ConsumerTypeOK

LEMMA GatewayTypeNext ==
  ASSUME IntakeTypeOK', MainTypeOK', ConsumerTypeOK',
         timedOut' \in BOOLEAN, bucket' \in BOOLEAN, dropped' \subseteq Tasks
  PROVE  GatewayTypeOK'
  BY Zenon DEF GatewayTypeOK, MainTypeOK, ConsumerTypeOK

LEMMA LogHasLength ==
  ASSUME IntakeTypeOK
  PROVE  Len(log) \in Nat
  BY DEF IntakeTypeOK

LEMMA InitProcessInv == GatewayInit => ProcessInv
  <1> SUFFICES ASSUME GatewayInit PROVE ProcessInv
    OBVIOUS
  <1>1. IntakeInv /\ IntakeTypeOK
    BY InitIntakeInv DEF GatewayInit, IntakeInv
  <1>2. Len(log) = 0 /\ \A t \in Tasks : pc[t] = "new"
    BY DEF GatewayInit, IntakeInit
  <1>3. hand = -1 /\ life = "running" /\ main = "connect"
    BY DEF GatewayInit, Consumer!Init, Consumer!NoMessage
  <1>4. GatewayTypeOK
    <2>1. timedOut \in BOOLEAN /\ bucket \in BOOLEAN /\ dropped \subseteq Tasks
      BY DEF GatewayInit
    <2>2. MainTypeOK
      BY DEF GatewayInit, MainTypeOK
    <2>3. ConsumerTypeOK
      BY <1>2, <1>3 DEF GatewayInit, Consumer!Init, Consumer!NoOffset, ConsumerTypeOK
    <2> QED BY <1>1, <2>1, <2>2, <2>3, GatewayTypeIs
  <1>5. MainInv
    BY <1>3 DEF GatewayInit, MainInv, AfterBucket, AfterDrain, Alive, Over, Consumer!NoMessage
  <1>6. ArrivalInv
    BY <1>2 DEF ArrivalInv, GaveUp
  <1>7. OrderlyExitCutsNobody /\ PoolClosedLast /\ DroppedWereGivenUp
    BY <1>3 DEF GatewayInit, OrderlyExitCutsNobody, PoolClosedLast, DroppedWereGivenUp
  <1> QED BY <1>1, <1>4, <1>5, <1>6, <1>7 DEF ProcessInv

(* What does not touch the requests leaves what is said of them alone. *)
LEMMA RequestsStay ==
  ASSUME ProcessInv, UNCHANGED intakeVars
  PROVE  /\ IntakeInv' /\ IntakeTypeOK'
         /\ InProgress' = InProgress
         /\ \A t \in Tasks : pc'[t] = pc[t] /\ report'[t] = report[t]
         /\ expired' = expired /\ log' = log
  <1>1. IntakeInv'
    BY NextIntakeInv DEF ProcessInv
  <1> QED BY <1>1 DEF intakeVars, InProgress, IntakeInv

-----------------------------------------------------------------------------
(* main and the server's goroutine. *)
MainOnly ==
    \/ ConnectDatabase \/ ProbeBucket \/ MakeBucket \/ OtherMakesBucket \/ WireUp
    \/ LaunchConsumer \/ StartServer \/ TrapSignals \/ Signal
    \/ BeginDrain \/ Drained \/ DrainTimesOut \/ JoinServer \/ ClosePool
    \/ Listen \/ ListenEnds \/ ReportFailure

LEMMA MainKeepsRequests ==
  ASSUME MainOnly
  PROVE  UNCHANGED <<intakeVars, dropped, consumerVars>>
  BY DEF MainOnly, ConnectDatabase, ProbeBucket, MakeBucket, OtherMakesBucket, WireUp,
         LaunchConsumer, StartServer, TrapSignals, Signal, BeginDrain, Drained, DrainTimesOut,
         JoinServer, ClosePool, Listen, ListenEnds, ReportFailure

LEMMA MainKeeps ==
  ASSUME ProcessInv, MainOnly
  PROVE  ProcessInv'
  <1>1. UNCHANGED <<intakeVars, dropped, consumerVars>>
    BY MainKeepsRequests
  <1>2. /\ IntakeInv' /\ IntakeTypeOK' /\ InProgress' = InProgress
        /\ \A t \in Tasks : pc'[t] = pc[t] /\ report'[t] = report[t]
        /\ expired' = expired /\ log' = log
    BY <1>1, RequestsStay
  <1>3. /\ GatewayTypeOK /\ MainTypeOK /\ ConsumerTypeOK
        /\ timedOut \in BOOLEAN /\ bucket \in BOOLEAN /\ dropped \subseteq Tasks
    BY GatewayTypeIs DEF ProcessInv
  <1> USE DEF MainOnly, ConnectDatabase, ProbeBucket, MakeBucket, OtherMakesBucket, WireUp,
              LaunchConsumer, StartServer, TrapSignals, Signal, BeginDrain, Drained,
              DrainTimesOut, JoinServer, ClosePool, Listen, ListenEnds, ReportFailure,
              MainGoes, Starts
  <1>4. /\ main \notin Over
        /\ main' # "exited"
        /\ server # "off" => server' # "off"
        /\ \/ timedOut' = timedOut
           \/ timedOut' = TRUE /\ main = "drain" /\ main' = "join"
    BY <1>3 DEF MainTypeOK, Over, Alive
  <1>5. GatewayTypeOK'
    <2>0. bucket' = bucket \/ bucket' = TRUE
      OBVIOUS
    <2>1. timedOut' \in BOOLEAN /\ bucket' \in BOOLEAN
      <3> HIDE DEF MainOnly
      <3> QED BY <1>3, <1>4, <2>0, Zenon
    <2>2. MainTypeOK'
      BY <1>3 DEF MainTypeOK, Over
    <2>3. ConsumerTypeOK' /\ dropped' \subseteq Tasks
      BY <1>1, <1>2, <1>3 DEF ConsumerTypeOK, consumerVars
    <2> QED BY <1>2, <2>1, <2>2, <2>3, GatewayTypeNext
  <1>6. MainInv'
    <2>1. (main' \in AfterBucket => bucket') /\ (server' # "off" => bucket')
      BY <1>3 DEF ProcessInv, MainInv, AfterBucket
    <2>2. main' \in AfterDrain /\ ~timedOut' => InProgress' = {}
      BY <1>2, <1>3 DEF ProcessInv, MainInv, AfterDrain
    <2>3. /\ main' \in {"close", "leave", "exited"} \/ pool' = "closed" => life = "stopped"
          /\ pool' = "closed" => main' = "leave" \/ ~Alive'
      BY <1>3, <1>4 DEF ProcessInv, MainInv, Alive, Over
    <2> QED BY <1>1, <2>1, <2>2, <2>3
            DEF ProcessInv, MainInv, consumerVars, Consumer!NoMessage
  <1>7. ArrivalInv'
    BY <1>2, <1>4 DEF ProcessInv, ArrivalInv, Alive, Live
  <1>8. OrderlyExitCutsNobody' /\ DroppedWereGivenUp'
    BY <1>4 DEF OrderlyExitCutsNobody, DroppedWereGivenUp
  <1>9. PoolClosedLast'
    <2>1. pool' = "closed" => pool = "closed" \/ (main = "close" /\ main' = "leave")
      BY <1>3
    <2>2. pool' = "closed" => main \in {"close", "leave"}
      BY <1>4, <2>1 DEF ProcessInv, MainInv, Alive
    <2> QED BY <1>1, <1>2, <1>4, <2>2
            DEF ProcessInv, MainInv, AfterDrain, PoolClosedLast, consumerVars, Consumer!NoMessage
  <1> QED BY <1>2, <1>5, <1>6, <1>7, <1>8, <1>9 DEF ProcessInv

-----------------------------------------------------------------------------
(* Only the log may be longer: what the consumer knows of it stays right.  *)
LEMMA LongerLog ==
  ASSUME ConsumerTypeOK, IntakeTypeOK, UNCHANGED consumerVars,
         Len(log') \in Nat, Len(log') >= Len(log)
  PROVE  ConsumerTypeOK'
  <1>1. Len(log) \in Nat
    BY LogHasLength
  <1> QED BY <1>1 DEF ConsumerTypeOK, consumerVars

(* What does not touch main touches neither the server nor the pool. *)
LEMMA ProcessStays ==
  ASSUME ProcessInv, UNCHANGED processVars
  PROVE  /\ MainTypeOK' /\ timedOut' \in BOOLEAN /\ bucket' \in BOOLEAN /\ dropped' \subseteq Tasks
         /\ Alive' = Alive
  <1>1. /\ main' = main /\ server' = server /\ notify' = notify /\ timedOut' = timedOut
        /\ bucket' = bucket /\ pool' = pool /\ dropped' = dropped
    BY DEF processVars
  <1>2. /\ MainTypeOK /\ dropped \subseteq Tasks
        /\ timedOut \in BOOLEAN /\ bucket \in BOOLEAN
    BY GatewayTypeIs DEF ProcessInv
  <1>3. MainTypeOK' /\ dropped' \subseteq Tasks /\ Alive' = Alive
    BY <1>1, <1>2 DEF MainTypeOK, Alive
  <1>4. timedOut' \in BOOLEAN /\ bucket' \in BOOLEAN
    BY <1>1, <1>2, Zenon
  <1> QED BY <1>3, <1>4

(* The consumer reads, commits and handles while the process is alive, and *)
(* is stopped between two events.                                          *)
ConsumerStep ==
    \/ Consuming /\ (Consumer!Read \/ Consumer!Commit \/ Consumer!Finish)
    \/ StopConsumer

LEMMA ConsumerKeeps ==
  ASSUME ProcessInv, ConsumerStep
  PROVE  ProcessInv'
  <1>1. UNCHANGED intakeVars
    BY DEF ConsumerStep, Consuming, StopConsumer
  <1>2. /\ IntakeInv' /\ IntakeTypeOK' /\ InProgress' = InProgress
        /\ \A t \in Tasks : pc'[t] = pc[t] /\ report'[t] = report[t]
        /\ expired' = expired /\ log' = log
    BY <1>1, RequestsStay
  <1>3. /\ GatewayTypeOK /\ MainTypeOK /\ ConsumerTypeOK /\ Len(log) \in Nat
        /\ timedOut \in BOOLEAN /\ bucket \in BOOLEAN /\ dropped \subseteq Tasks
    BY GatewayTypeIs, LogHasLength DEF ProcessInv, IntakeInv
  <1>4. /\ ConsumerTypeOK'
        /\ life' = life \/ (life = "running" /\ life' = "stopped" /\ hand = -1)
        /\ hand' = hand \/ hand' = -1 \/ (life = "running" /\ life' = "running")
    <2>1. CASE Consumer!Read
      BY <1>2, <1>3, <2>1 DEF ConsumerTypeOK, Consumer!Read, Consumer!NoMessage
    <2>2. CASE Consumer!Commit
      <3>1. Consumer!Covered \in 0..Len(log)
        BY <1>3 DEF ConsumerTypeOK, Consumer!Covered, Consumer!NoMessage
      <3>2. committed' \in -1..Len(log)
        BY <1>3, <2>2, <3>1 DEF Consumer!Commit
      <3> QED BY <1>2, <1>3, <2>2, <3>2 DEF ConsumerTypeOK, Consumer!Commit
    <2>3. CASE Consumer!Finish
      BY <1>2, <1>3, <2>3 DEF ConsumerTypeOK, Consumer!Finish, Consumer!NoMessage
    <2>4. CASE Consumer!Stop
      BY <1>2, <1>3, <2>4 DEF ConsumerTypeOK, Consumer!Stop, Consumer!NoMessage
    <2> QED BY <2>1, <2>2, <2>3, <2>4 DEF ConsumerStep, StopConsumer
  <1>5. CASE Consuming
    <2>1. UNCHANGED processVars
      BY <1>5 DEF Consuming
    <2>2. GatewayTypeOK'
      BY <1>2, <1>4, <2>1, ProcessStays, GatewayTypeNext
    <2>3. MainInv' /\ PoolClosedLast'
      BY <1>2, <1>4, <2>1 DEF ProcessInv, MainInv, PoolClosedLast, Alive, processVars, Consumer!NoMessage
    <2>4. ArrivalInv'
      BY <1>2, <2>1 DEF ProcessInv, ArrivalInv, Alive, Live, processVars
    <2>5. OrderlyExitCutsNobody' /\ DroppedWereGivenUp'
      BY <1>5, <2>1 DEF Consuming, Alive, Over, OrderlyExitCutsNobody, DroppedWereGivenUp, processVars
    <2> QED BY <1>2, <2>2, <2>3, <2>4, <2>5 DEF ProcessInv
  <1>6. CASE StopConsumer
    <2>1. /\ main = "stop" /\ main' = "close" /\ life' = "stopped" /\ hand' = hand /\ hand = -1
          /\ UNCHANGED <<server, notify, timedOut, bucket, pool, dropped>>
      BY <1>6 DEF StopConsumer, MainGoes, Consumer!Stop, Consumer!NoMessage
    <2>2. GatewayTypeOK'
      <3>1. timedOut' \in BOOLEAN /\ bucket' \in BOOLEAN /\ dropped' \subseteq Tasks
        BY <1>3, <2>1, Zenon
      <3>2. MainTypeOK'
        BY <1>3, <2>1 DEF MainTypeOK
      <3> QED BY <1>2, <1>4, <3>1, <3>2, GatewayTypeNext
    <2>3. pool # "closed"
      BY <2>1 DEF ProcessInv, MainInv, Alive, Over
    <2>4. MainInv' /\ PoolClosedLast'
      BY <1>2, <2>1, <2>3
         DEF ProcessInv, MainInv, PoolClosedLast, AfterBucket, AfterDrain, Consumer!NoMessage
    <2>5. ArrivalInv'
      BY <1>2, <2>1 DEF ProcessInv, ArrivalInv, Alive, Over, Live
    <2>6. OrderlyExitCutsNobody' /\ DroppedWereGivenUp'
      BY <2>1 DEF OrderlyExitCutsNobody, DroppedWereGivenUp
    <2> QED BY <1>2, <2>2, <2>4, <2>5, <2>6 DEF ProcessInv
  <1> QED BY <1>5, <1>6 DEF ConsumerStep

-----------------------------------------------------------------------------
(* The end of the process keeps what is said of the requests: one that was *)
(* cut off is neither refused nor accepted.                                *)
LEMMA EndKeepsRequests ==
  ASSUME ProcessInv, NEW how \in Over, ProcessEnds(how)
  PROVE  /\ IntakeInv' /\ IntakeTypeOK'
         /\ InProgress' = {} /\ ~Alive' /\ log' = log
         /\ (\A t \in Tasks : pc'[t] = pc[t]) \/ InProgress # {}
  <1> USE DEF Running, Ended, Refusals
  <1>1. /\ \A t \in Tasks : pc'[t] = IF pc[t] \in Running THEN "crashed" ELSE pc[t]
        /\ outbox' = {} /\ UNCHANGED <<expired, stored, rows, report, log>> /\ main' = how
    BY DEF ProcessEnds
  <1>2. IntakeTypeOK'
    <2>1. pc' \in [Tasks -> {"new"} \union Running \union Ended]
      BY DEF ProcessEnds, ProcessInv, IntakeInv, IntakeTypeOK
    <2> QED BY <1>1, <2>1 DEF ProcessInv, IntakeInv, IntakeTypeOK
  <1>3. ASSUME NEW t \in Tasks PROVE RequestInv(t)'
    BY <1>1 DEF ProcessInv, IntakeInv, RequestInv, Published, WithFile, WithRow, NoRowYet,
                NoFileYet, Unsent, Command
  <1>4. OneCommand'
    BY <1>1 DEF ProcessInv, IntakeInv, OneCommand, Command
  <1>5. InProgress' = {} /\ ~Alive'
    BY <1>1 DEF InProgress, Alive
  <1>6. (\A t \in Tasks : pc'[t] = pc[t]) \/ InProgress # {}
    BY <1>1 DEF InProgress
  <1> QED BY <1>1, <1>2, <1>3, <1>4, <1>5, <1>6 DEF IntakeInv

(* At an orderly exit no request is in progress, so the commands that are  *)
(* left in the queue are those of requests that have given up on them.     *)
LEMMA LeftInQueue ==
  ASSUME ProcessInv, InProgress = {}, NEW t \in outbox
  PROVE  t \in Tasks /\ pc[t] = "kafka_error" /\ t \in expired
  <1>1. t \in Tasks
    BY DEF ProcessInv, IntakeInv, IntakeTypeOK
  <1>2. /\ pc[t] \notin Unsent \union {"accepted", "crashed"} /\ report[t] = "none"
        /\ pc[t] \in {"new"} \union Running \union Ended
    BY <1>1 DEF ProcessInv, IntakeInv, RequestInv, IntakeTypeOK
  <1>3. pc[t] \notin Running
    BY <1>1 DEF InProgress
  <1>4. pc[t] = "kafka_error"
    BY <1>2, <1>3 DEF Unsent, NoRowYet, Ended, Refusals
  <1> QED BY <1>1, <1>2, <1>4 DEF ProcessInv, ArrivalInv, GaveUp, Live

LEMMA EndKeeps ==
  ASSUME ProcessInv, Kill \/ Exit \/ ConsumerPanics
  PROVE  ProcessInv'
  <1>1. PICK how \in Over :
           /\ ProcessEnds(how) /\ Alive
           /\ how = "exited" => main = "leave"
           /\ UNCHANGED <<auto, hand, pos, committed>>
           /\ life' = life \/ (life = "running" /\ life' = "panicked")
    BY DEF Kill, Exit, ConsumerPanics, Over, Alive, consumerVars
  <1>2. /\ IntakeInv' /\ IntakeTypeOK' /\ InProgress' = {} /\ ~Alive' /\ log' = log
        /\ (\A t \in Tasks : pc'[t] = pc[t]) \/ InProgress # {}
    BY <1>1, EndKeepsRequests
  <1>3. /\ main' = how /\ dropped' = outbox
        /\ \A t \in Tasks : pc'[t] = IF pc[t] \in Running THEN "crashed" ELSE pc[t]
        /\ UNCHANGED <<expired, report, server, notify, timedOut, bucket, pool>>
    BY <1>1 DEF ProcessEnds
  <1>4. /\ MainTypeOK /\ ConsumerTypeOK /\ outbox \subseteq Tasks
        /\ timedOut \in BOOLEAN /\ bucket \in BOOLEAN
    BY GatewayTypeIs DEF ProcessInv, IntakeInv, IntakeTypeOK
  <1>5. GatewayTypeOK'
    <2>1. timedOut' \in BOOLEAN /\ bucket' \in BOOLEAN
      BY <1>3, <1>4, Zenon
    <2>2. MainTypeOK' /\ dropped' \subseteq Tasks
      BY <1>3, <1>4 DEF MainTypeOK
    <2>3. ConsumerTypeOK'
      BY <1>1, <1>2, <1>4 DEF ConsumerTypeOK
    <2> QED BY <1>2, <2>1, <2>2, <2>3, GatewayTypeNext
  <1>6. how = "exited" /\ ~timedOut => InProgress = {}
    BY <1>1 DEF ProcessInv, MainInv, AfterDrain
  <1>7. MainInv'
    <2>1. main' \in AfterBucket => bucket'
      BY <1>1, <1>3 DEF ProcessInv, MainInv, AfterBucket, Over
    <2>2. main' \in {"close", "leave", "exited"} \/ pool' = "closed" => life' = "stopped"
      BY <1>1, <1>3 DEF ProcessInv, MainInv, Over
    <2> QED BY <1>1, <1>2, <1>3, <2>1, <2>2
            DEF ProcessInv, MainInv, AfterDrain, Over, Consumer!NoMessage
  <1>8. ArrivalInv'
    BY <1>2, <1>3 DEF ProcessInv, ArrivalInv, GaveUp, Live, Running
  <1>9. OrderlyExitCutsNobody'
    BY <1>1, <1>2, <1>3, <1>6 DEF ProcessInv, ArrivalInv, OrderlyExitCutsNobody
  <1>10. DroppedWereGivenUp'
    BY <1>1, <1>2, <1>3, <1>6, LeftInQueue DEF DroppedWereGivenUp
  <1>11. PoolClosedLast'
    BY <1>1, <1>2, <1>3 DEF ProcessInv, PoolClosedLast, Consumer!NoMessage
  <1> QED BY <1>2, <1>5, <1>7, <1>8, <1>9, <1>10, <1>11 DEF ProcessInv

-----------------------------------------------------------------------------
(* A request at work: a step of TaskIntake, or a query on the closed pool.  *)
LEMMA HandleIsIntake ==
  ASSUME NEW t \in Tasks, Handle(t)
  PROVE  /\ Alive /\ UNCHANGED <<processVars, consumerVars>>
         /\ QueryFails(t) \/ Serve(t) \/ Deliver(t) \/ Expire(t)
         /\ BadRequest(t) \/ Begin(t) => server = "listening" /\ ~ShuttingDown
  <1> USE DEF Handle, Arrive, Work, Query
  <1>1. Alive /\ UNCHANGED <<processVars, consumerVars>>
    OBVIOUS
  <1>2. QueryFails(t) \/ Serve(t) \/ Deliver(t) \/ Expire(t)
    BY DEF Serve
  <1>3. ASSUME BadRequest(t) \/ Begin(t) PROVE Arrive(t)
    BY <1>3 DEF BadRequest, Begin, Goto, Upload, Insert, RecordFailure, QueryFails, Produce,
                AwaitDelivery, Undo, Deliver, Expire, Running
  <1> QED BY <1>1, <1>2, <1>3

LEMMA QueryFailsKeepsInv ==
  ASSUME IntakeInv, NEW t \in Tasks, QueryFails(t)
  PROVE  IntakeInv'
  BY OthersKeepInv
     DEF QueryFails, IntakeInv, IntakeTypeOK, OnlyFor, RequestInv, Published, Goto, Running, Ended,
         WithFile, WithRow, NoRowYet, NoFileYet, Unsent

(* What such a step makes of the requests. *)
LEMMA HandleEffects ==
  ASSUME ProcessInv, NEW t \in Tasks, Handle(t)
  PROVE  /\ IntakeInv' /\ Len(log') \in Nat /\ Len(log') >= Len(log)
         /\ \A u \in Tasks \ {t} : pc'[u] = pc[u] /\ report'[u] = report[u]
         /\ expired \subseteq expired'
         /\ pc'[t] = pc[t] \/ pc'[t] # "crashed"
         /\ pc'[t] = pc[t] \/ pc[t] \in Running \/ (server = "listening" /\ ~ShuttingDown)
         /\ pc'[t] \in GaveUp => report'[t] = "err" \/ t \in expired'
  <1>1. /\ log \in Seq(Messages) /\ pc \in [Tasks -> {"new"} \union Running \union Ended]
        /\ report \in [Tasks -> {"none", "ok", "err"}]
        /\ pc[t] \in GaveUp => report[t] = "err" \/ t \in expired
    BY DEF ProcessInv, IntakeInv, IntakeTypeOK, ArrivalInv, Live
  <1>2. CASE QueryFails(t)
    BY <1>1, <1>2, QueryFailsKeepsInv DEF ProcessInv, QueryFails, Goto, Running, GaveUp
  <1>3. CASE Serve(t)
    <2>1. IntakeInv'
      BY <1>3, ServeKeepsInv DEF ProcessInv
    <2>2. /\ log' = log /\ expired' = expired /\ report' = report
          /\ \A u \in Tasks \ {t} : pc'[u] = pc[u]
          /\ pc'[t] # "crashed"
          /\ pc'[t] \in GaveUp => report[t] = "err" \/ t \in expired
      BY <1>1, <1>3
         DEF Serve, BadRequest, Begin, Upload, Insert, Produce, AwaitDelivery, RecordFailure, Undo,
             Goto, GaveUp, Live
    <2>3. pc[t] \in Running \/ (server = "listening" /\ ~ShuttingDown)
      BY <1>3, HandleIsIntake
         DEF Serve, Upload, Insert, Produce, AwaitDelivery, RecordFailure, Undo, Goto, Running
    <2> QED BY <1>1, <2>1, <2>2, <2>3
  <1>4. CASE Deliver(t)
    <2>1. IntakeInv'
      BY <1>4, DeliverIsEither, DeliverNothingKeepsInv, DeliverCommandKeepsInv DEF ProcessInv
    <2>2. Len(log') \in Nat /\ Len(log') >= Len(log)
      BY <1>1, <1>4, CommandIsMessage DEF Deliver
    <2>3. report[t] = "none"
      BY <1>4 DEF Deliver, ProcessInv, IntakeInv, RequestInv
    <2> QED BY <1>1, <1>4, <2>1, <2>2, <2>3 DEF Deliver
  <1>5. CASE Expire(t)
    <2>1. IntakeInv'
      BY <1>5, NextIntakeInv DEF ProcessInv, IntakeNext, IntakeStep
    <2> QED BY <1>1, <1>5, <2>1 DEF Expire
  <1> QED BY <1>2, <1>3, <1>4, <1>5, HandleIsIntake

LEMMA HandleKeeps ==
  ASSUME ProcessInv, NEW t \in Tasks, Handle(t)
  PROVE  ProcessInv'
  <1>1. /\ IntakeInv' /\ IntakeTypeOK' /\ Len(log') \in Nat /\ Len(log') >= Len(log)
        /\ \A u \in Tasks \ {t} : pc'[u] = pc[u] /\ report'[u] = report[u]
        /\ expired \subseteq expired'
        /\ pc'[t] = pc[t] \/ pc'[t] # "crashed"
        /\ pc'[t] = pc[t] \/ pc[t] \in Running \/ (server = "listening" /\ ~ShuttingDown)
        /\ pc'[t] \in GaveUp => report'[t] = "err" \/ t \in expired'
    BY HandleEffects DEF IntakeInv
  <1>2. UNCHANGED <<processVars, consumerVars>> /\ Alive
    BY HandleIsIntake
  <1>3. GatewayTypeOK'
    <2>1. ConsumerTypeOK /\ IntakeTypeOK
      BY GatewayTypeIs DEF ProcessInv
    <2>2. ConsumerTypeOK'
      BY <1>1, <1>2, <2>1, LongerLog
    <2> QED BY <1>1, <1>2, <2>2, ProcessStays, GatewayTypeNext
  <1>4. InProgress' \subseteq InProgress \/ (server = "listening" /\ ~ShuttingDown)
    BY <1>1 DEF InProgress
  <1>5. pool # "closed" \/ main = "leave"
    BY <1>2 DEF ProcessInv, MainInv
  <1>6. MainInv'
    BY <1>2, <1>4 DEF ProcessInv, MainInv, AfterDrain, ShuttingDown, Alive, processVars,
                      consumerVars, Consumer!NoMessage
  <1>7. ArrivalInv'
    <2>1. \A u \in Tasks : pc'[u] # "new" => server' # "off"
      <3>1. pc[t] \in Running => pc[t] # "new"
        BY DEF Running
      <3> QED BY <1>1, <1>2, <3>1 DEF ProcessInv, ArrivalInv, processVars
    <2>2. Alive' => \A u \in Tasks : pc'[u] # "crashed"
      BY <1>1, <1>2 DEF ProcessInv, ArrivalInv
    <2>3. \A u \in Tasks : pc'[u] \in GaveUp => report'[u] = "err" \/ u \in expired'
      BY <1>1 DEF ProcessInv, ArrivalInv, Live
    <2> QED BY <2>1, <2>2, <2>3 DEF ArrivalInv, Live
  <1>8. OrderlyExitCutsNobody' /\ DroppedWereGivenUp'
    BY <1>2 DEF OrderlyExitCutsNobody, DroppedWereGivenUp, Alive, Over, processVars
  <1>9. PoolClosedLast'
    BY <1>2, <1>4, <1>5 DEF ProcessInv, PoolClosedLast, ShuttingDown, processVars, consumerVars,
                            Consumer!NoMessage
  <1> QED BY <1>1, <1>3, <1>6, <1>7, <1>8, <1>9 DEF ProcessInv

LEMMA NextProcessInv == ProcessInv /\ [GatewayNext]_gatewayVars => ProcessInv'
  <1> SUFFICES ASSUME ProcessInv, [GatewayNext]_gatewayVars PROVE ProcessInv'
    OBVIOUS
  <1>1. CASE UNCHANGED gatewayVars
    <2>1. UNCHANGED intakeVars /\ UNCHANGED processVars /\ UNCHANGED consumerVars
      BY <1>1 DEF gatewayVars
    <2>2. /\ IntakeInv' /\ IntakeTypeOK' /\ InProgress' = InProgress
          /\ \A t \in Tasks : pc'[t] = pc[t] /\ report'[t] = report[t]
          /\ expired' = expired /\ log' = log
      BY <2>1, RequestsStay
    <2>3. ConsumerTypeOK'
      <3>1. ConsumerTypeOK
        BY GatewayTypeIs DEF ProcessInv
      <3> QED BY <2>1, <2>2, <3>1 DEF ConsumerTypeOK, consumerVars
    <2>4. GatewayTypeOK'
      BY <2>1, <2>2, <2>3, ProcessStays, GatewayTypeNext
    <2>5. MainInv' /\ ArrivalInv'
      BY <2>1, <2>2 DEF ProcessInv, MainInv, ArrivalInv, Alive, Live, processVars, consumerVars,
                        Consumer!NoMessage
    <2>6. OrderlyExitCutsNobody' /\ PoolClosedLast' /\ DroppedWereGivenUp'
      BY <2>1, <2>2 DEF ProcessInv, IntakeInv, OrderlyExitCutsNobody, PoolClosedLast,
                        DroppedWereGivenUp, GatewayTypeOK, processVars, consumerVars,
                        Consumer!NoMessage
    <2> QED BY <2>2, <2>4, <2>5, <2>6 DEF ProcessInv
  <1>2. CASE MainOnly
    BY <1>2, MainKeeps
  <1>3. CASE ConsumerStep
    BY <1>3, ConsumerKeeps
  <1>4. CASE Kill \/ Exit \/ ConsumerPanics
    BY <1>4, EndKeeps
  <1>5. ASSUME NEW t \in Tasks, Handle(t) PROVE ProcessInv'
    BY <1>5, HandleKeeps
  <1> QED BY <1>1, <1>2, <1>3, <1>4, <1>5
          DEF GatewayNext, MainStep, ServerStep, MainOnly, ConsumerStep, Consume, HandlerReturns

-----------------------------------------------------------------------------
(* The invariant of a process of the gateway, from its start to its end.   *)
THEOREM ProcessInvariant == GatewaySpec => []ProcessInv
  BY InitProcessInv, NextProcessInv, PTL DEF GatewaySpec

(* The variables of the process and of its consumer keep to their types;   *)
(* in particular the server's errors fit the channel that Notify returns.  *)
THEOREM GatewayTypeCorrect == GatewaySpec => []GatewayTypeOK
  <1>1. ProcessInv => GatewayTypeOK
    BY DEF ProcessInv
  <1> QED BY <1>1, ProcessInvariant, PTL

(* No request is in progress without a bucket to store its file in.        *)
THEOREM BucketBeforeRequests == GatewaySpec => []ServesWithBucket
  <1>1. ProcessInv => ServesWithBucket
    BY DEF ProcessInv, MainInv, ArrivalInv, ServesWithBucket, InProgress, Running
  <1> QED BY <1>1, ProcessInvariant, PTL

(* An orderly exit within the shutdown timeout cuts no request off.        *)
THEOREM OrderlyExitsCutNobody == GatewaySpec => []OrderlyExitCutsNobody
  <1>1. ProcessInv => OrderlyExitCutsNobody
    BY DEF ProcessInv
  <1> QED BY <1>1, ProcessInvariant, PTL

(* The pool is closed after the last event and the last request.           *)
THEOREM PoolIsClosedLast == GatewaySpec => []PoolClosedLast
  <1>1. ProcessInv => PoolClosedLast
    BY DEF ProcessInv
  <1> QED BY <1>1, ProcessInvariant, PTL

(* What is dropped with the producer's queue at an orderly exit belongs to *)
(* requests that were refused at their deadline.                           *)
THEOREM DroppedCommandsWereGivenUp == GatewaySpec => []DroppedWereGivenUp
  <1>1. ProcessInv => DroppedWereGivenUp
    BY DEF ProcessInv
  <1> QED BY <1>1, ProcessInvariant, PTL

(* What a request is promised, in a process: no query on a closed pool, no *)
(* shutdown and no end of the process breaks the promise.                  *)
LEMMA NextPromiseInProcess ==
  ProcessInv /\ [GatewayNext]_gatewayVars => [Promise!Next]_(Promise!vars)
  <1> SUFFICES ASSUME ProcessInv, [GatewayNext]_gatewayVars
               PROVE  [Promise!Next]_(Promise!vars)
    OBVIOUS
  <1>1. CASE UNCHANGED intakeVars
    BY <1>1, NextPromise DEF ProcessInv
  <1>2. CASE MainOnly
    BY <1>1, <1>2, MainKeepsRequests
  <1>3. CASE ConsumerStep
    BY <1>1, <1>3 DEF ConsumerStep, Consuming, StopConsumer
  <1>4. CASE Kill \/ Exit \/ ConsumerPanics
    <2>1. /\ \A t \in Tasks : pc'[t] = IF t \in InProgress THEN "crashed" ELSE pc[t]
          /\ UNCHANGED <<stored, rows, log>>
      BY <1>4 DEF Kill, Exit, ConsumerPanics, ProcessEnds, InProgress
    <2>2. InProgress \in SUBSET Tasks /\ \A t \in InProgress : pc[t] \in Running
      BY DEF InProgress
    <2> QED BY <2>1, <2>2, EndShows
  <1>5. ASSUME NEW t \in Tasks, Handle(t) PROVE [Promise!Next]_(Promise!vars)
    <2>1. CASE QueryFails(t)
      <3>1. /\ OnlyFor(t) /\ UNCHANGED <<stored, rows, log>>
            /\ \/ pc[t] = "insert" /\ pc'[t] = "undo_db"
               \/ pc[t] = "record" /\ pc'[t] = "undo_kafka"
        BY <2>1 DEF QueryFails, Goto, OnlyFor, ProcessInv, IntakeInv, IntakeTypeOK
      <3>2. AnswerOf(pc[t])' = AnswerOf(pc[t])
        BY <3>1 DEF AnswerOf, Refusals
      <3>3. PartsOf(t)' = PartsOf(t)
        BY <3>1 DEF PartsOf, Published, IsIn, Command
      <3> QED BY <3>1, <3>2, <3>3, ShowsNothing
    <2>2. CASE Serve(t) \/ Deliver(t) \/ Expire(t)
      <3>1. IntakeInv /\ IntakeNext
        BY <2>2 DEF ProcessInv, IntakeNext, IntakeStep
      <3> QED BY <3>1, NextPromise
    <2> QED BY <1>5, <2>1, <2>2, HandleIsIntake
  <1>6. CASE UNCHANGED gatewayVars
    BY <1>1, <1>6 DEF gatewayVars
  <1> QED BY <1>2, <1>3, <1>4, <1>5, <1>6
          DEF GatewayNext, MainStep, ServerStep, MainOnly, ConsumerStep, Consume, HandlerReturns

(* The process keeps CreateTask's promise to the caller, from its start to *)
(* its end, however it ends.                                               *)
THEOREM PromiseHoldsInProcess == GatewaySpec => KeepsPromise
  <1>1. GatewayInit => Promise!Init
    BY InitPromise DEF GatewayInit
  <1> QED BY <1>1, ProcessInvariant, NextPromiseInProcess, PTL
          DEF GatewaySpec, KeepsPromise, Promise!Spec

(* What TaskIntake shows of a request holds in the process, too, although  *)
(* the pool is closed and the process ends under it.                       *)
THEOREM IntakeHoldsInProcess == GatewaySpec => [](AcceptedIsWhole /\ OneCommand)
  <1>1. ProcessInv => AcceptedIsWhole /\ OneCommand
    BY DEF ProcessInv, IntakeInv, RequestInv, AcceptedIsWhole, WithFile, WithRow
  <1> QED BY <1>1, ProcessInvariant, PTL
-----------------------------------------------------------------------------
(* What a refusal leaves behind in a process.  The pool is closed only when *)
(* all requests have ended or the shutdown has timed out, and only then may *)
(* a failed publication go unrecorded before the deadline.                  *)
ProcessRefusals ==
    /\ \A t \in Tasks : LeftBehind(t)
    /\ ~timedOut => IntakeRefusals

LEMMA HandleKeepsLeftBehind ==
  ASSUME IntakeInv, \A t \in Tasks : LeftBehind(t), NEW u \in Tasks,
         QueryFails(u) \/ Serve(u) \/ Deliver(u) \/ Expire(u)
  PROVE  (\A t \in Tasks : LeftBehind(t))'
  <1>1. CASE Serve(u) \/ Deliver(u) \/ Expire(u)
    BY <1>1, NextLeftBehind DEF IntakeNext, IntakeStep
  <1>2. CASE QueryFails(u)
    BY <1>2, OthersKeepLeftBehind
       DEF QueryFails, IntakeInv, IntakeTypeOK, OnlyFor, LeftBehind, GaveUp, Published, Goto, Live
  <1> QED BY <1>1, <1>2

LEMMA NextProcessRefusals ==
  ProcessInv /\ ProcessRefusals /\ [GatewayNext]_gatewayVars => ProcessRefusals'
  <1> SUFFICES ASSUME ProcessInv, ProcessRefusals, [GatewayNext]_gatewayVars
               PROVE  ProcessRefusals'
    OBVIOUS
  <1>1. ASSUME UNCHANGED intakeVars, ~timedOut' => ~timedOut PROVE ProcessRefusals'
    <2>1. (\A t \in Tasks : LeftBehind(t))'
      BY <1>1 DEF ProcessRefusals, LeftBehind, intakeVars, Live, Published, IsIn, Command
    <2>2. ~timedOut => IntakeRefusals'
      BY <1>1, NextIntakeRefusals DEF ProcessInv, ProcessRefusals
    <2> QED BY <1>1, <2>1, <2>2 DEF ProcessRefusals
  <1>2. CASE MainOnly
    <2>1. timedOut' = timedOut \/ timedOut' = TRUE
      BY <1>2 DEF MainOnly, ConnectDatabase, ProbeBucket, MakeBucket, OtherMakesBucket, WireUp,
                  LaunchConsumer, StartServer, TrapSignals, Signal, BeginDrain, Drained,
                  DrainTimesOut, JoinServer, ClosePool, Listen, ListenEnds, ReportFailure
    <2>2. ~timedOut' => ~timedOut
      BY <2>1, Zenon
    <2> QED BY <1>1, <1>2, <2>2, MainKeepsRequests
  <1>3. CASE ConsumerStep
    BY <1>1, <1>3 DEF ConsumerStep, Consuming, StopConsumer, processVars
  <1>4. CASE Kill \/ Exit \/ ConsumerPanics
    <2>1. /\ \A t \in Tasks : pc'[t] = IF t \in InProgress THEN "crashed" ELSE pc[t]
          /\ UNCHANGED <<expired, stored, rows, report, log, timedOut>>
      BY <1>4 DEF Kill, Exit, ConsumerPanics, ProcessEnds, InProgress
    <2>2. (\A t \in Tasks : LeftBehind(t))'
      BY <2>1 DEF ProcessRefusals, LeftBehind, GaveUp, Live, Published, IsIn, Command
    <2>3. ~timedOut => IntakeRefusals'
      BY <2>1 DEF ProcessRefusals, IntakeRefusals, RefusalInv, LeftBehind, Recorded, GaveUp, Live, Published, IsIn,
                  Command
    <2> QED BY <2>1, <2>2, <2>3 DEF ProcessRefusals
  <1>5. ASSUME NEW t \in Tasks, Handle(t) PROVE ProcessRefusals'
    <2>1. /\ UNCHANGED processVars /\ Alive
          /\ QueryFails(t) \/ Serve(t) \/ Deliver(t) \/ Expire(t)
      BY <1>5, HandleIsIntake
    <2>2. (\A u \in Tasks : LeftBehind(u))'
      BY <2>1, HandleKeepsLeftBehind DEF ProcessInv, ProcessRefusals
    <2>3. CASE QueryFails(t)
      <3>1. t \in InProgress /\ pool = "closed"
        BY <2>3 DEF QueryFails, Goto, InProgress, Running
      <3>2. timedOut
        BY <3>1 DEF ProcessInv, PoolClosedLast
      <3> QED BY <2>1, <2>2, <3>2 DEF ProcessRefusals, processVars
    <2>4. CASE Serve(t) \/ Deliver(t) \/ Expire(t)
      <3>1. IntakeInv /\ IntakeNext
        BY <2>4 DEF ProcessInv, IntakeNext, IntakeStep
      <3>2. ~timedOut => IntakeRefusals'
        BY <3>1, NextIntakeRefusals DEF ProcessRefusals
      <3> QED BY <2>1, <2>2, <3>2 DEF ProcessRefusals, processVars
    <2> QED BY <2>1, <2>3, <2>4
  <1>6. CASE UNCHANGED gatewayVars
    BY <1>1, <1>6 DEF gatewayVars, processVars
  <1> QED BY <1>2, <1>3, <1>4, <1>5, <1>6
          DEF GatewayNext, MainStep, ServerStep, MainOnly, ConsumerStep, Consume, HandlerReturns

(* In a process, too, a refused request leaves no file behind and its      *)
(* command is not in the topic, but for the reasons that TaskIntake names;  *)
(* a failed publication is recorded unless the shutdown has timed out, when *)
(* the pool may be closed before the record.                                *)
THEOREM RefusalsInProcess ==
  GatewaySpec => [](/\ RefusedLeavesNoFile /\ LateCommandNeedsTimeout
                    /\ ~timedOut => RefusalRecordedInTime)
  <1>1. GatewayInit => ProcessRefusals
    BY DEF GatewayInit, IntakeInit, ProcessRefusals, IntakeRefusals, RefusalInv, LeftBehind, Recorded, GaveUp
  <1>2. ProcessRefusals => /\ RefusedLeavesNoFile /\ LateCommandNeedsTimeout
                           /\ ~timedOut => RefusalRecordedInTime
    BY DEF ProcessRefusals, IntakeRefusals, RefusalInv, LeftBehind, Recorded, GaveUp, Live,
           RefusedLeavesNoFile, LateCommandNeedsTimeout, RefusalRecordedInTime
  <1> QED BY <1>1, <1>2, ProcessInvariant, NextProcessRefusals, PTL DEF GatewaySpec
=============================================================================
