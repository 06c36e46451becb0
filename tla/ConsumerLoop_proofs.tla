------------------------- MODULE ConsumerLoop_proofs ------------------------
(***************************************************************************)
(* Proofs about ConsumerLoop, for every number of messages, every capacity *)
(* of the channel and every size of the batches: no handled message gets   *)
(* lost between the two goroutines, no commit covers an event whose handler *)
(* was cut short by the shutdown, and the goroutines together implement    *)
(* ConsumerPromise.                                                        *)
(***************************************************************************)
EXTENDS ConsumerLoop, TLAPS

In(q) == {q[i] : i \in DOMAIN q}
Rising(q) == \A i, j \in DOMAIN q : i < j => q[i] < q[j]
Below(S, n) == \A x \in S : x < n

Committing == committer \in {"commit", "last"}
Loaded == poll \in {"handle", "send"}

(* The pipeline: the messages in the batch, in the channel and at pollLoop *)
(* are in their order, and below the next offset of the client.            *)
OrderInv ==
    /\ Rising(togo) /\ Rising(batch) /\ Rising(chan)
    /\ In(togo) \subseteq In(batch)
    /\ \A x \in In(batch), y \in In(chan) : x < y
    /\ \A x \in In(batch) \union In(chan) : x <= cur
    /\ Loaded => Below(In(batch) \union In(chan), cur) /\ cur \in Offsets
    /\ cur < pos
    /\ committed <= pos
    /\ ~Committing => togo = << >>
    /\ committer \in {"off", "select"} => Len(batch) < BatchSize

(* Without automatic commits: nothing in the pipeline is committed yet,    *)
(* and what a drain leaves behind is, unless its commit failed.            *)
CommitInv ==
    ~auto =>
        /\ \A x \in In(togo) \union In(chan) : committed <= x
        /\ ~Committing => \A x \in In(batch) : committed <= x
        /\ Loaded => committed <= cur
        /\ Committing =>
              \A x \in In(batch) : x < committed \/ x \in In(togo) \/ x \in failed

(* An event cut short by the shutdown is the last one that was read. *)
CutoffInv ==
    cutoff # {} =>
        /\ cancelled /\ poll \in {"select", "done"}
        /\ \A m \in cutoff : m = cur /\ Below(In(batch) \union In(chan), m)

(* Who is where while the consumer is started and stopped. *)
StopInv ==
    /\ main # "run" \/ starter = "stop" \/ stopper # "none" \/ closed => cancelled
    /\ stopper = "none" => stage = "close_chan"
    /\ stage = "close_chan" => client = "open"
    /\ stage = "wait" => client = "closed"
    /\ stopper = "over" => stage = "wait" /\ poll \in {"off", "select", "done"}
    /\ main = "done" => stopper = "over"
    /\ starter \in {"subscribe", "spawn"} => poll = "off" /\ committer = "off"

LoopInv ==
    /\ TypeOK
    /\ OrderInv
    /\ CommitInv
    /\ CutoffInv
    /\ StopInv
    /\ HandledIsOnItsWay
    /\ ShutdownLosesNothing

-----------------------------------------------------------------------------
LEMMA InSeqIsIn ==
  ASSUME NEW m, NEW q
  PROVE  InSeq(m, q) <=> m \in In(q)
  BY DEF InSeq, In

(* What the operations on a queue do to its elements and their order. *)
LEMMA EmptyQueue == << >> \in Seq(Offsets) /\ Len(<< >>) = 0 /\ In(<< >>) = {} /\ Rising(<< >>)
  BY DEF In, Rising

LEMMA QueueIsOfOffsets ==
  ASSUME NEW q \in Seq(Offsets)
  PROVE  In(q) \subseteq Offsets /\ Len(q) \in Nat
  BY DEF In

LEMMA AppendToQueue ==
  ASSUME NEW q \in Seq(Offsets), NEW m \in Offsets
  PROVE  /\ Append(q, m) \in Seq(Offsets)
         /\ Len(Append(q, m)) = Len(q) + 1
         /\ In(Append(q, m)) = In(q) \union {m}
         /\ Rising(q) /\ Below(In(q), m) => Rising(Append(q, m))
  <1>1. /\ Append(q, m) \in Seq(Offsets)
        /\ Len(q) \in Nat /\ DOMAIN q = 1..Len(q)
        /\ Len(Append(q, m)) = Len(q) + 1
        /\ DOMAIN Append(q, m) = 1..(Len(q) + 1)
        /\ \A i \in 1..Len(q) : Append(q, m)[i] = q[i]
        /\ Append(q, m)[Len(q) + 1] = m
    OBVIOUS
  <1>2. In(Append(q, m)) = In(q) \union {m}
    BY <1>1 DEF In
  <1>3. ASSUME Rising(q), Below(In(q), m) PROVE Rising(Append(q, m))
    BY <1>1, <1>3 DEF Rising, Below, In
  <1> QED BY <1>1, <1>2, <1>3

LEMMA HeadOfQueue ==
  ASSUME NEW q \in Seq(Offsets), q # << >>
  PROVE  /\ Tail(q) \in Seq(Offsets) /\ Head(q) \in Offsets
         /\ Len(Tail(q)) = Len(q) - 1
         /\ In(q) = {Head(q)} \union In(Tail(q))
         /\ Rising(q) => Rising(Tail(q)) /\ \A m \in In(Tail(q)) : Head(q) < m
  <1>1. /\ Tail(q) \in Seq(Offsets) /\ Head(q) \in Offsets
        /\ Len(q) \in Nat \ {0} /\ DOMAIN q = 1..Len(q) /\ Head(q) = q[1]
        /\ Len(Tail(q)) = Len(q) - 1
        /\ DOMAIN Tail(q) = 1..(Len(q) - 1)
        /\ \A i \in 1..(Len(q) - 1) : Tail(q)[i] = q[i + 1]
    OBVIOUS
  <1>2. \A i \in 2..Len(q) : i - 1 \in 1..(Len(q) - 1) /\ Tail(q)[i - 1] = q[i]
    BY <1>1
  <1>3. In(q) = {Head(q)} \union In(Tail(q))
    <2>1. In(Tail(q)) \subseteq In(q) /\ Head(q) \in In(q)
      BY <1>1 DEF In
    <2>2. In(q) \subseteq {Head(q)} \union In(Tail(q))
      <3> SUFFICES ASSUME NEW i \in DOMAIN q PROVE q[i] \in {Head(q)} \union In(Tail(q))
        BY DEF In
      <3>1. i = 1 \/ i \in 2..Len(q)
        BY <1>1
      <3> QED BY <1>1, <1>2, <3>1 DEF In
    <2> QED BY <2>1, <2>2
  <1>4. ASSUME Rising(q)
        PROVE  Rising(Tail(q)) /\ \A m \in In(Tail(q)) : Head(q) < m
    BY <1>1, <1>4 DEF Rising, In
  <1> QED BY <1>1, <1>3, <1>4

-----------------------------------------------------------------------------
LEMMA InitLoopInv == Init => LoopInv
  <1> SUFFICES ASSUME Init PROVE LoopInv
    OBVIOUS
  <1>0. auto \in BOOLEAN /\ cancelled \in BOOLEAN /\ closed \in BOOLEAN
    BY DEF Init
  <1>1. TypeOK
    BY <1>0, ConsumerLoopAssumption, EmptyQueue DEF Init, TypeOK, Offsets
  <1>2. OrderInv
    BY ConsumerLoopAssumption, EmptyQueue DEF Init, OrderInv, Committing, Loaded, Below
  <1>3. CommitInv /\ CutoffInv
    BY EmptyQueue DEF Init, CommitInv, CutoffInv, Committing, Loaded
  <1>4. StopInv /\ HandledIsOnItsWay /\ ShutdownLosesNothing
    BY DEF Init, StopInv, HandledIsOnItsWay, ShutdownLosesNothing
  <1> QED BY <1>1, <1>2, <1>3, <1>4 DEF LoopInv

(* The message that commitLoop takes lies between the batch and what is    *)
(* left in the channel; a drain commits the first of what is to go.        *)
LEMMA TakeMoves ==
  ASSUME LoopInv, Take
  PROVE  /\ chan' \in Seq(Offsets) /\ batch' \in Seq(Offsets)
         /\ Len(chan') = Len(chan) - 1 /\ Len(batch') = Len(batch) + 1
         /\ Len(chan) \in Nat /\ Len(batch) \in Nat
         /\ Rising(chan') /\ Rising(batch')
         /\ \E m \in Offsets :
              /\ In(chan) = {m} \union In(chan') /\ In(batch') = In(batch) \union {m}
              /\ Below(In(batch), m) /\ \A x \in In(chan') : m < x
  <1>1. chan \in Seq(Offsets) /\ batch \in Seq(Offsets) /\ chan # << >>
    BY DEF LoopInv, TypeOK, Take
  <1>2. chan' = Tail(chan) /\ batch' = Append(batch, Head(chan))
    BY DEF Take
  <1>3. PICK m : m = Head(chan)
    OBVIOUS
  <1>4. /\ chan' \in Seq(Offsets) /\ m \in Offsets /\ Len(chan') = Len(chan) - 1
        /\ In(chan) = {m} \union In(chan')
        /\ Rising(chan') /\ \A x \in In(chan') : m < x
    BY <1>1, <1>2, <1>3, HeadOfQueue DEF LoopInv, OrderInv
  <1>5. Below(In(batch), m) /\ Rising(batch)
    BY <1>4 DEF LoopInv, OrderInv, Below
  <1>6. /\ batch' \in Seq(Offsets) /\ Len(batch') = Len(batch) + 1
        /\ In(batch') = In(batch) \union {m} /\ Rising(batch')
    BY <1>1, <1>2, <1>3, <1>4, <1>5, AppendToQueue
  <1> QED BY <1>1, <1>4, <1>5, <1>6, QueueIsOfOffsets

CommitResult(m) ==
    \/ client = "open" /\ committed' = m + 1 /\ failed' = failed
    \/ committed' = committed /\ failed' = failed \union {m}

LEMMA CommitMoves ==
  ASSUME LoopInv, CommitMessage
  PROVE  /\ togo' \in Seq(Offsets) /\ Rising(togo')
         /\ \E m \in Offsets :
              /\ CommitResult(m)
              /\ In(togo) = {m} \union In(togo') /\ \A x \in In(togo') : m < x
  <1>1. togo \in Seq(Offsets) /\ togo # << >> /\ togo' = Tail(togo) /\ Rising(togo)
    BY DEF LoopInv, TypeOK, OrderInv, CommitMessage
  <1> QED BY <1>1, HeadOfQueue DEF CommitMessage, CommitResult

LEMMA NextTypeOK ==
  ASSUME LoopInv, Next
  PROVE  TypeOK'
  <1> USE DEF LoopInv, historyVars, OrderInv, TypeOK, PollStep, Drain
  <1>1. auto' \in BOOLEAN /\ cancelled' \in BOOLEAN /\ closed' \in BOOLEAN
    BY Zenon DEF Next, Subscribe, Spawn, StartAwaitsContext, Signal, StopSteps, EnterStop,
           CloseChan, CloseClient, WaitGoroutines, LeaveStop, PollLoop, PollSelect, ReadMessage,
           ReadTimesOut, ReadFails, BackoffEnds, HandleOK, HandleFails, Send, SendPanics,
           CommitLoop, Take, Tick, CommitterEnds, CommitMessage, DrainEnds, AutoCommits
  <1>2. CASE Subscribe \/ Spawn \/ StartAwaitsContext \/ Signal \/ AutoCommits
    BY <1>1, <1>2 DEF Subscribe, Spawn, StartAwaitsContext, Signal, AutoCommits,
                      loopVars, commitVars, stopVars
  <1>3. CASE StopSteps
    BY <1>1, <1>3 DEF StopSteps, EnterStop, CloseChan, CloseClient, WaitGoroutines, LeaveStop,
                      loopVars, commitVars, stopVars
  <1>4. CASE PollSelect \/ ReadTimesOut \/ ReadFails \/ BackoffEnds \/ SendPanics
    BY <1>1, <1>4 DEF PollSelect, ReadTimesOut, ReadFails, BackoffEnds, SendPanics,
                      loopVars, commitVars, stopVars
  <1>5. CASE ReadMessage
    BY <1>1, <1>5, ConsumerLoopAssumption DEF ReadMessage, Offsets, commitVars, stopVars
  <1>6. CASE HandleOK \/ HandleFails
    BY <1>1, <1>6 DEF HandleOK, HandleFails, Loaded, commitVars, stopVars
  <1>7. CASE Send
    BY <1>1, <1>7, AppendToQueue, QueueIsOfOffsets, ConsumerLoopAssumption
       DEF Send, Loaded, commitVars, stopVars
  <1>8. CASE Take
    <2>1. /\ chan' \in Seq(Offsets) /\ Len(chan') <= ChanCap
          /\ batch' \in Seq(Offsets) /\ Len(batch') <= BatchSize
      BY <1>8, TakeMoves, ConsumerLoopAssumption DEF Take
    <2>2. togo' \in Seq(Offsets) /\ committer' \in {"select", "commit"}
      BY <1>8, <2>1 DEF Take
    <2> QED BY <1>1, <1>8, <2>1, <2>2 DEF Take, loopVars, stopVars
  <1>9. CASE Tick \/ CommitterEnds
    BY <1>1, <1>9 DEF Tick, CommitterEnds, loopVars, stopVars
  <1>10. CASE CommitMessage
    <2>1. PICK m \in Offsets : togo' \in Seq(Offsets) /\ CommitResult(m)
      BY <1>10, CommitMoves
    <2>2. m + 1 \in 0..Messages
      BY ConsumerLoopAssumption DEF Offsets
    <2>3. committed' \in 0..Messages /\ failed' \subseteq Offsets
      BY <2>1, <2>2 DEF CommitResult
    <2> QED BY <1>1, <1>10, <2>1, <2>3 DEF CommitMessage, loopVars, stopVars
  <1>11. CASE DrainEnds
    BY <1>1, <1>11, EmptyQueue, ConsumerLoopAssumption DEF DrainEnds, loopVars, stopVars
  <1> QED BY <1>2, <1>3, <1>4, <1>5, <1>6, <1>7, <1>8, <1>9, <1>10, <1>11
          DEF Next, PollLoop, CommitLoop

LEMMA NextOrderInv ==
  ASSUME LoopInv, Next
  PROVE  OrderInv'
  <1> USE DEF LoopInv, historyVars, OrderInv, Committing, Loaded, Below, PollStep, Drain
  <1>1. CASE Subscribe \/ Spawn \/ StartAwaitsContext \/ Signal \/ AutoCommits
    BY <1>1 DEF Subscribe, Spawn, StartAwaitsContext, Signal, AutoCommits, StopInv,
                TypeOK, loopVars, commitVars, stopVars
  <1>2. CASE StopSteps
    BY <1>2 DEF StopSteps, EnterStop, CloseChan, CloseClient, WaitGoroutines, LeaveStop,
                TypeOK, loopVars, commitVars, stopVars
  <1>3. CASE PollSelect \/ ReadTimesOut \/ ReadFails \/ BackoffEnds \/ SendPanics \/ HandleOK \/ HandleFails
    BY <1>3 DEF PollSelect, ReadTimesOut, ReadFails, BackoffEnds, SendPanics, HandleOK, HandleFails,
                      loopVars, commitVars, stopVars
  <1>4. CASE ReadMessage
    BY <1>4, QueueIsOfOffsets, ConsumerLoopAssumption DEF ReadMessage, TypeOK, Offsets, commitVars, stopVars
  <1>5. CASE Send
    BY <1>5, AppendToQueue, QueueIsOfOffsets, ConsumerLoopAssumption
       DEF Send, TypeOK, Offsets, commitVars, stopVars
  <1>6. CASE Take
    <2>1. PICK m \in Offsets :
             /\ In(chan) = {m} \union In(chan') /\ In(batch') = In(batch) \union {m}
             /\ Below(In(batch), m) /\ \A x \in In(chan') : m < x
      BY <1>6, TakeMoves
    <2>2. togo = << >> /\ togo' \in {togo, batch'}
      BY <1>6 DEF Take
    <2>3. Rising(togo') /\ Rising(batch') /\ Rising(chan') /\ In(togo') \subseteq In(batch')
      BY <1>6, <2>2, TakeMoves, EmptyQueue
    <2>4. /\ \A x \in In(batch'), y \in In(chan') : x < y
          /\ \A x \in In(batch') \union In(chan') : x <= cur
          /\ Loaded => Below(In(batch') \union In(chan'), cur) /\ cur \in Offsets
      BY <2>1
    <2>5. ~Committing' => togo' = << >>
      BY <1>6, <2>2 DEF Take
    <2>6. committer' \in {"off", "select"} => Len(batch') < BatchSize
      BY <1>6, TakeMoves, ConsumerLoopAssumption DEF Take
    <2> QED BY <1>6, <2>3, <2>4, <2>5, <2>6 DEF Take, loopVars
  <1>7. CASE Tick \/ CommitterEnds
    BY <1>7 DEF Tick, CommitterEnds, loopVars, stopVars
  <1>8. CASE CommitMessage
    <2>1. PICK m \in Offsets :
             /\ CommitResult(m)
             /\ In(togo) = {m} \union In(togo') /\ \A x \in In(togo') : m < x
      BY <1>8, CommitMoves
    <2>2. Rising(togo') /\ In(togo') \subseteq In(batch) /\ m \in In(batch)
      BY <1>8, <2>1, CommitMoves
    <2>3. m <= cur /\ committed' <= pos
      BY <2>1, <2>2 DEF TypeOK, Offsets, CommitResult
    <2> QED BY <1>8, <2>2, <2>3 DEF CommitMessage, loopVars
  <1>9. CASE DrainEnds
    BY <1>9, EmptyQueue, ConsumerLoopAssumption DEF DrainEnds, loopVars, stopVars
  <1> QED BY <1>1, <1>2, <1>3, <1>4, <1>5, <1>6, <1>7, <1>8, <1>9
          DEF Next, PollLoop, CommitLoop

LEMMA NextCommitInv ==
  ASSUME LoopInv, Next
  PROVE  CommitInv'
  <1> USE DEF LoopInv, historyVars, CommitInv, Committing, Loaded, PollStep, Drain
  <1>1. CASE Subscribe \/ Spawn \/ StartAwaitsContext \/ Signal \/ AutoCommits
    BY <1>1 DEF Subscribe, Spawn, StartAwaitsContext, Signal, AutoCommits, StopInv,
                loopVars, commitVars
  <1>2. CASE StopSteps
    BY <1>2 DEF StopSteps, EnterStop, CloseChan, CloseClient, WaitGoroutines, LeaveStop,
                loopVars, commitVars
  <1>3. CASE \/ PollSelect \/ ReadTimesOut \/ ReadFails \/ BackoffEnds \/ SendPanics
             \/ HandleOK \/ HandleFails
    BY <1>3 DEF PollSelect, ReadTimesOut, ReadFails, BackoffEnds, SendPanics, HandleOK,
                HandleFails, commitVars
  <1>4. CASE ReadMessage
    BY <1>4 DEF ReadMessage, OrderInv, commitVars
  <1>5. CASE Send
    BY <1>5, AppendToQueue DEF Send, TypeOK, OrderInv, commitVars
  <1>6. CASE Take
    <2>1. PICK m \in Offsets :
             In(chan) = {m} \union In(chan') /\ In(batch') = In(batch) \union {m}
      BY <1>6, TakeMoves
    <2>2. togo = << >> /\ togo' \in {togo, batch'}
      BY <1>6 DEF Take, OrderInv
    <2> QED BY <1>6, <2>1, <2>2, EmptyQueue DEF Take, loopVars
  <1>7. CASE Tick \/ CommitterEnds
    BY <1>7 DEF Tick, CommitterEnds, loopVars
  <1>8. CASE CommitMessage
    <2>1. PICK m \in Offsets :
             /\ CommitResult(m)
             /\ In(togo) = {m} \union In(togo') /\ \A x \in In(togo') : m < x
      BY <1>8, CommitMoves
    <2>2. m \in In(batch) /\ In(togo') \subseteq Offsets /\ In(chan) \subseteq Offsets
      BY <1>8, <2>1, CommitMoves, QueueIsOfOffsets DEF TypeOK, OrderInv
    <2>3. In(batch) \subseteq Offsets
      BY QueueIsOfOffsets DEF TypeOK
    <2>4. \A x \in In(chan) : m < x
      BY <2>2 DEF OrderInv
    <2>5. Loaded => m < cur /\ cur \in Offsets
      BY <2>2 DEF OrderInv, Below
    <2>6. \A x \in Offsets : m < x => m + 1 <= x
      BY DEF Offsets
    <2>7. m < m + 1
      BY DEF Offsets
    <2>8. ASSUME ~auto
          PROVE  /\ \A x \in In(togo') \union In(chan) : committed' <= x
                 /\ Loaded => committed' <= cur
                 /\ \A x \in In(batch) : x < committed' \/ x \in In(togo') \/ x \in failed'
      <3>1. CASE committed' = m + 1 /\ failed' = failed
        <4>1. /\ \A x \in In(togo') \union In(chan) : committed' <= x
              /\ Loaded => committed' <= cur
          BY <2>1, <2>2, <2>4, <2>5, <2>6, <3>1
        <4>2. committed <= m
          BY <2>1, <2>8
        <4>3. ASSUME NEW x \in In(batch)
              PROVE  x < committed' \/ x \in In(togo') \/ x \in failed'
          <5>1. x < committed \/ x = m \/ x \in In(togo') \/ x \in failed
            BY <1>8, <2>1, <2>8 DEF CommitMessage
          <5> QED BY <2>1, <2>3, <2>7, <3>1, <4>2, <5>1 DEF TypeOK, Offsets
        <4> QED BY <4>1, <4>3
      <3>2. CASE committed' = committed /\ failed' = failed \union {m}
        BY <1>8, <2>1, <2>8, <3>2 DEF CommitMessage
      <3> QED BY <2>1, <3>1, <3>2 DEF CommitResult
    <2> QED BY <1>8, <2>8 DEF CommitMessage, loopVars
  <1>9. CASE DrainEnds
    BY <1>9, EmptyQueue DEF DrainEnds, loopVars
  <1> QED BY <1>1, <1>2, <1>3, <1>4, <1>5, <1>6, <1>7, <1>8, <1>9
          DEF Next, PollLoop, CommitLoop

LEMMA NextCutoffInv ==
  ASSUME LoopInv, Next
  PROVE  CutoffInv'
  <1> USE DEF LoopInv, historyVars, CutoffInv, Loaded, Below, PollStep, Drain
  <1>1. CASE Subscribe \/ Spawn \/ StartAwaitsContext \/ Signal \/ AutoCommits
    BY <1>1 DEF Subscribe, Spawn, StartAwaitsContext, Signal, AutoCommits, loopVars, commitVars
  <1>2. CASE StopSteps
    BY <1>2 DEF StopSteps, EnterStop, CloseChan, CloseClient, WaitGoroutines, LeaveStop,
                loopVars, commitVars
  <1>3. CASE \/ PollSelect \/ ReadMessage \/ ReadTimesOut \/ ReadFails \/ BackoffEnds
             \/ HandleOK \/ Send \/ SendPanics
    BY <1>3 DEF PollSelect, ReadMessage, ReadTimesOut, ReadFails, BackoffEnds, HandleOK, Send,
                SendPanics, commitVars
  <1>4. CASE HandleFails
    BY <1>4 DEF HandleFails, OrderInv, commitVars
  <1>5. CASE Take
    <2>1. In(chan') \union In(batch') = In(chan) \union In(batch)
      BY <1>5, TakeMoves
    <2> QED BY <1>5, <2>1 DEF Take, loopVars
  <1>6. CASE Tick \/ CommitterEnds \/ CommitMessage
    BY <1>6 DEF Tick, CommitterEnds, CommitMessage, loopVars
  <1>7. CASE DrainEnds
    BY <1>7, EmptyQueue DEF DrainEnds, loopVars
  <1> QED BY <1>1, <1>2, <1>3, <1>4, <1>5, <1>6, <1>7 DEF Next, PollLoop, CommitLoop

LEMMA NextStopInv ==
  ASSUME LoopInv, Next
  PROVE  StopInv'
  <1> USE DEF LoopInv, historyVars, StopInv, PollStep, Drain
  <1>1. CASE Subscribe \/ Spawn \/ StartAwaitsContext \/ Signal \/ AutoCommits
    BY <1>1 DEF Subscribe, Spawn, StartAwaitsContext, Signal, AutoCommits, TypeOK,
                loopVars, commitVars, stopVars
  <1>2. CASE StopSteps
    BY <1>2 DEF StopSteps, EnterStop, CloseChan, CloseClient, WaitGoroutines, LeaveStop, InStop,
                TypeOK, loopVars, commitVars
  <1>3. CASE PollLoop
    BY <1>3 DEF PollLoop, PollSelect, ReadMessage, ReadTimesOut, ReadFails, BackoffEnds, HandleOK,
                HandleFails, Send, SendPanics, commitVars, stopVars
  <1>4. CASE CommitLoop
    BY <1>4 DEF CommitLoop, Take, Tick, CommitterEnds, CommitMessage, DrainEnds, loopVars, stopVars
  <1> QED BY <1>1, <1>2, <1>3, <1>4 DEF Next

LEMMA NextHandled ==
  ASSUME LoopInv, Next
  PROVE  HandledIsOnItsWay'
  <1> USE DEF LoopInv, historyVars, HandledIsOnItsWay, PollStep, Drain
  <1> USE InSeqIsIn
  <1>1. CASE Subscribe \/ Spawn \/ StartAwaitsContext \/ Signal \/ AutoCommits
    BY <1>1 DEF Subscribe, Spawn, StartAwaitsContext, Signal, AutoCommits, StopInv,
                loopVars, commitVars
  <1>2. CASE StopSteps
    BY <1>2 DEF StopSteps, EnterStop, CloseChan, CloseClient, WaitGoroutines, LeaveStop,
                loopVars, commitVars
  <1>3. CASE \/ PollSelect \/ ReadMessage \/ ReadTimesOut \/ ReadFails \/ BackoffEnds
             \/ SendPanics \/ HandleOK \/ HandleFails
    BY <1>3 DEF PollSelect, ReadMessage, ReadTimesOut, ReadFails, BackoffEnds, SendPanics,
                HandleOK, HandleFails, commitVars
  <1>4. CASE Send
    <2>1. In(chan') = In(chan) \union {cur}
      BY <1>4, AppendToQueue DEF Send, TypeOK, OrderInv, Loaded
    <2> QED BY <1>4, <2>1 DEF Send, commitVars
  <1>5. CASE Take
    <2>1. In(chan') \union In(batch') = In(chan) \union In(batch)
      BY <1>5, TakeMoves
    <2> QED BY <1>5, <2>1 DEF Take, loopVars
  <1>6. CASE Tick \/ CommitterEnds
    BY <1>6 DEF Tick, CommitterEnds, loopVars
  <1>7. CASE CommitMessage
    <2>1. PICK m \in Offsets :
             /\ CommitResult(m)
             /\ In(togo) = {m} \union In(togo')
      BY <1>7, CommitMoves
    <2>2. ~auto => committed <= m
      BY <2>1 DEF CommitInv
    <2>3. ~auto => \A x \in acked : x < committed => x < committed'
      BY <2>1, <2>2 DEF TypeOK, Offsets, CommitResult
    <2>4. failed \subseteq failed'
      BY <2>1 DEF CommitResult
    <2> QED BY <1>7, <2>3, <2>4 DEF CommitMessage, loopVars
  <1>8. CASE DrainEnds
    BY <1>8, EmptyQueue DEF DrainEnds, CommitInv, Committing, loopVars
  <1> QED BY <1>1, <1>2, <1>3, <1>4, <1>5, <1>6, <1>7, <1>8 DEF Next, PollLoop, CommitLoop

LEMMA NextCutoff ==
  ASSUME LoopInv, Next
  PROVE  ShutdownLosesNothing'
  <1> USE DEF LoopInv, historyVars, ShutdownLosesNothing, PollStep, Drain
  <1>1. CASE UNCHANGED <<auto, committed, cutoff>>
    BY <1>1
  <1>2. CASE CloseClient \/ AutoCommits
    BY <1>2 DEF CloseClient, AutoCommits
  <1>3. CASE HandleFails
    BY <1>3 DEF HandleFails, CommitInv, Loaded
  <1>4. CASE CommitMessage
    <2>1. PICK m \in Offsets :
             /\ CommitResult(m)
             /\ In(togo) = {m} \union In(togo')
      BY <1>4, CommitMoves
    <2>2. \A x \in cutoff : m < x
      BY <2>1 DEF CutoffInv, OrderInv, Below
    <2>3. \A x \in cutoff : x \in Offsets /\ (m < x => m + 1 <= x)
      BY DEF TypeOK, Offsets
    <2> QED BY <1>4, <2>1, <2>2, <2>3 DEF CommitMessage, CommitResult
  <1> QED BY <1>1, <1>2, <1>3, <1>4
          DEF Next, PollLoop, CommitLoop, StopSteps, Subscribe, Spawn, StartAwaitsContext, Signal,
              EnterStop, CloseChan, WaitGoroutines, LeaveStop, PollSelect, ReadMessage,
              ReadTimesOut, ReadFails, BackoffEnds, HandleOK, Send, SendPanics, Take, Tick,
              CommitterEnds, DrainEnds

LEMMA NextLoopInv == LoopInv /\ [Next]_vars => LoopInv'
  <1> SUFFICES ASSUME LoopInv, [Next]_vars PROVE LoopInv'
    OBVIOUS
  <1>1. CASE Next
    BY <1>1, NextTypeOK, NextOrderInv, NextCommitInv, NextCutoffInv, NextStopInv, NextHandled,
       NextCutoff DEF LoopInv
  <1>2. CASE UNCHANGED vars
    <2> USE <1>2 DEF vars, historyVars, loopVars, commitVars, stopVars, LoopInv
    <2>1. TypeOK'
      BY DEF TypeOK
    <2>2. OrderInv'
      BY DEF OrderInv, Committing, Loaded
    <2>3. CommitInv' /\ CutoffInv'
      BY DEF CommitInv, CutoffInv, Committing, Loaded
    <2>4. StopInv' /\ HandledIsOnItsWay' /\ ShutdownLosesNothing'
      BY DEF StopInv, HandledIsOnItsWay, ShutdownLosesNothing
    <2> QED BY <2>1, <2>2, <2>3, <2>4
  <1> QED BY <1>1, <1>2

(* The variables keep to their types; in particular neither the channel    *)
(* nor a batch grows beyond its capacity.                                  *)
THEOREM TypeCorrect == Spec => []TypeOK
  <1>1. LoopInv => TypeOK
    BY DEF LoopInv
  <1> QED BY <1>1, InitLoopInv, NextLoopInv, PTL DEF Spec

(* Without automatic commits, a message that was handled is committed or   *)
(* on its way through the channel and the batch, unless its own commit has *)
(* failed: through every hand-over between the two goroutines, wherever    *)
(* they and Stop are.                                                      *)
THEOREM HandledStaysOnItsWay == Spec => []HandledIsOnItsWay
  <1>1. LoopInv => HandledIsOnItsWay
    BY DEF LoopInv
  <1> QED BY <1>1, InitLoopInv, NextLoopInv, PTL DEF Spec

(* Without automatic commits, an event whose handler was cut short by the  *)
(* shutdown is not covered by any commit.                                  *)
THEOREM CutOffEventsComeBack == Spec => []ShutdownLosesNothing
  <1>1. LoopInv => ShutdownLosesNothing
    BY DEF LoopInv
  <1> QED BY <1>1, InitLoopInv, NextLoopInv, PTL DEF Spec

-----------------------------------------------------------------------------
(* The refinement: a step of a goroutine is a step of the promised consumer *)
(* or none.  Seen lists what the promised consumer is made of.             *)
Seen == <<auto, cancelled, Life, InHand, pos, committed>>

LEMMA UnseenIsStutter == Seen' = Seen => UNCHANGED Promised!vars
  BY DEF Seen, Promised!vars

LEMMA LifeIs ==
  ASSUME LoopInv
  PROVE  /\ stopper # "over" => main # "done"
         /\ Loaded \/ poll = "read" => stopper # "over"
         /\ client = "open" => stopper # "over"
         /\ closed \/ main = "stop" => cancelled
         /\ InHand = IF poll = "handle" THEN cur ELSE -1
         /\ poll = "handle" => cur \in Offsets
         /\ -1 \notin Offsets
  BY DEF LoopInv, StopInv, OrderInv, Loaded, InHand, Offsets

LEMMA StartSteps ==
  ASSUME LoopInv, Subscribe \/ Spawn \/ StartAwaitsContext \/ Signal \/ StopSteps
  PROVE  [Promised!OneLifeNext]_(Promised!vars)
  <1>1. CASE Subscribe \/ Spawn \/ StartAwaitsContext
    BY <1>1, UnseenIsStutter
       DEF Subscribe, Spawn, StartAwaitsContext, Seen, Life, InHand, Panicked, loopVars,
           LoopInv, StopInv
  <1>2. CASE Signal
    BY <1>2 DEF Signal, Promised!OneLifeNext, Promised!Cancel, Life, InHand, Panicked, loopVars
  <1>3. ASSUME NEW who \in {"start", "main"}, EnterStop(who)
        PROVE  Seen' = Seen
    BY <1>3 DEF EnterStop, Seen, Life, InHand, Panicked, loopVars
  <1>4. CASE CloseChan \/ WaitGoroutines
    BY <1>4, UnseenIsStutter DEF CloseChan, WaitGoroutines, Seen, Life, InHand, Panicked, loopVars
  <1>5. CASE CloseClient
    <2>1. Life = "running" /\ Life' = Life /\ InHand' = InHand
      BY <1>5, LifeIs DEF CloseClient, InStop, Life, InHand, Panicked, loopVars
    <2>2. CASE auto
      BY <1>5, <2>1, <2>2
         DEF CloseClient, LoopInv, TypeOK, Promised!OneLifeNext, Promised!Commit, Promised!Covered
    <2>3. CASE ~auto
      BY <1>5, <2>1, <2>3, UnseenIsStutter DEF CloseClient, Seen
    <2> QED BY <2>2, <2>3
  <1>6. CASE LeaveStop
    <2>1. poll # "handle" /\ ~Panicked /\ poll' = poll
      BY <1>6 DEF LeaveStop, LoopInv, StopInv, Panicked, loopVars
    <2>2. CASE main = "stop" /\ main' = "done"
      BY <1>6, <2>1, <2>2, LifeIs
         DEF LeaveStop, Promised!OneLifeNext, Promised!Stop, Promised!NoMessage, Life, InHand,
             Panicked
    <2>3. CASE main' = main
      BY <1>6, <2>1, <2>3, UnseenIsStutter DEF LeaveStop, Seen, Life, InHand, Panicked
    <2> QED BY <1>6, <2>2, <2>3 DEF LeaveStop
  <1> QED BY <1>1, <1>2, <1>3, <1>4, <1>5, <1>6, UnseenIsStutter DEF StopSteps

LEMMA PollSteps ==
  ASSUME LoopInv, PollLoop
  PROVE  [Promised!OneLifeNext]_(Promised!vars)
  <1> USE DEF PollStep
  <1>1. main' = main /\ stopper' = stopper
    BY DEF PollLoop, PollSelect, ReadMessage, ReadTimesOut, ReadFails, BackoffEnds, HandleOK,
           HandleFails, Send, SendPanics, stopVars
  <1>2. CASE PollSelect \/ ReadTimesOut \/ ReadFails \/ BackoffEnds \/ Send
    BY <1>1, <1>2, UnseenIsStutter
       DEF PollSelect, ReadTimesOut, ReadFails, BackoffEnds, Send, Seen, Life, InHand, Panicked
  <1>3. CASE ReadMessage
    BY <1>1, <1>3, LifeIs
       DEF ReadMessage, Promised!OneLifeNext, Promised!Read, Promised!NoMessage, Life, InHand,
           Panicked
  <1>4. CASE HandleOK \/ HandleFails
    BY <1>1, <1>4, LifeIs
       DEF HandleOK, HandleFails, Promised!OneLifeNext, Promised!Finish, Promised!NoMessage, Life,
           InHand, Panicked, Loaded
  <1>5. CASE SendPanics
    BY <1>1, <1>5, LifeIs
       DEF SendPanics, Promised!OneLifeNext, Promised!Panic, Life, InHand, Panicked, Loaded
  <1> QED BY <1>2, <1>3, <1>4, <1>5 DEF PollLoop

(* An offset is committed that lies between the committed one and the      *)
(* message in the handler.                                                 *)
LEMMA CommitSteps ==
  ASSUME LoopInv, CommitLoop \/ AutoCommits
  PROVE  [Promised!OneLifeNext]_(Promised!vars)
  <1>1. Life' = Life /\ InHand' = InHand
    BY DEF CommitLoop, Take, Tick, CommitterEnds, CommitMessage, DrainEnds, AutoCommits, Life,
           InHand, Panicked, loopVars, stopVars
  <1>2. CASE Take \/ Tick \/ CommitterEnds \/ DrainEnds
    BY <1>1, <1>2, UnseenIsStutter DEF Take, Tick, CommitterEnds, DrainEnds, Seen
  <1>3. CASE CommitMessage /\ committed' = committed
    BY <1>1, <1>3, UnseenIsStutter DEF CommitMessage, Seen
  <1>4. CASE CommitMessage /\ committed' # committed
    <2>1. PICK m \in Offsets :
             client = "open" /\ committed' = m + 1 /\ In(togo) = {m} \union In(togo')
      BY <1>4, CommitMoves DEF CommitResult
    <2>2. /\ m <= cur /\ cur < pos /\ (poll = "handle" => m < cur)
          /\ cur \in Offsets \union {-1} /\ pos \in 0..Messages /\ committed \in 0..Messages
      BY <2>1 DEF LoopInv, OrderInv, Loaded, Below, TypeOK
    <2>3. ~auto => committed' >= committed
      <3>1. ~auto => committed <= m
        BY <2>1 DEF LoopInv, CommitInv
      <3> QED BY <2>1, <2>2, <3>1 DEF Offsets
    <2>4. committed' \in 0..Promised!Covered
      BY <2>1, <2>2 DEF Promised!Covered, Promised!NoMessage, InHand, Offsets
    <2>5. Life = "running"
      BY <1>4, <2>1, LifeIs DEF CommitMessage, Life
    <2> QED BY <1>1, <1>4, <2>3, <2>4, <2>5
            DEF CommitMessage, Promised!OneLifeNext, Promised!Commit
  <1>5. CASE AutoCommits
    <2>1. Life = "running"
      BY <1>5, LifeIs DEF AutoCommits, Life
    <2> QED BY <1>1, <1>5, <2>1
            DEF AutoCommits, LoopInv, TypeOK, Promised!OneLifeNext, Promised!Commit,
                Promised!Covered
  <1> QED BY <1>2, <1>3, <1>4, <1>5 DEF CommitLoop

(* Start, pollLoop, commitLoop and Stop, called from two places, are       *)
(* together a consumer that handles its messages one after the other in    *)
(* their order, commits without automatic commits forward only and never   *)
(* beyond the message in its handler, neither stops nor panics before the  *)
(* context is cancelled, and rests once Stop has returned to main.         *)
THEOREM ConsumerIsAsPromised == Spec => KeepsConsumerPromise
  <1>1. Init => Promised!Init
    BY ConsumerLoopAssumption
       DEF Init, Promised!Init, Promised!NoOffset, Promised!NoMessage, Life, InHand, Panicked
  <1>2. LoopInv /\ [Next]_vars => [Promised!OneLifeNext]_(Promised!vars)
    <2>1. ASSUME UNCHANGED vars PROVE UNCHANGED Promised!vars
      BY <2>1, UnseenIsStutter DEF vars, loopVars, stopVars, Seen, Life, InHand, Panicked
    <2> QED BY <2>1, StartSteps, PollSteps, CommitSteps DEF Next
  <1> QED BY <1>1, <1>2, InitLoopInv, NextLoopInv, PTL
          DEF Spec, KeepsConsumerPromise, Promised!OneLife
=============================================================================
