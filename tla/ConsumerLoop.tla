---------------------------- MODULE ConsumerLoop ----------------------------
(***************************************************************************)
(* One consumer of the gateway (pkg/kafka/consumer.go): Start and its two  *)
(* goroutines, pollLoop and commitLoop, which share the channel            *)
(* commitChain, and Stop, which both Start and main call once the context  *)
(* is cancelled (cmd/api/main.go).                                         *)
(*                                                                         *)
(*   pollLoop    select -> read -> handle -> send -> select ...            *)
(*                         \-> backoff -/                                  *)
(*   commitLoop  select -> commit (message by message) -> select ...       *)
(*   Start       subscribe -> spawn -> wait -> stop                        *)
(*   main        run -> stop                                               *)
(*   Stop        close(commitChain); client.Close(); wg.Wait(), once       *)
(*                                                                         *)
(* The messages are the offsets 0, 1, ...  A Go select with several ready  *)
(* cases takes any of them; a send on a closed channel panics, also one    *)
(* that was blocked before the channel was closed.  The Kafka client is    *)
(* modelled from its use: ReadMessage returns the next message, a timeout  *)
(* or an error; enable.auto.commit stores a message's offset when it hands *)
(* the message out and commits what is stored every now and then and on    *)
(* Close; a closed client reads and commits nothing more.  The consumer    *)
(* has the partition from its start to its end here: what a rebalance does *)
(* to several of them is in TaskLifecycle.                                 *)
(***************************************************************************)
EXTENDS Integers, Sequences

CONSTANTS Messages,     \* how many messages the partition holds
          ChanCap,      \* capacity of commitChain (1000)
          BatchSize     \* messages per batch (10)

ASSUME ConsumerLoopAssumption ==
    /\ Messages \in Nat /\ ChanCap \in Nat
    /\ BatchSize \in Nat \ {0}

VARIABLES auto,         \* the configuration: enable.auto.commit
          cancelled,    \* the context is done
          poll,         \* pollLoop: where it is
          cur,          \* pollLoop: the message it has read
          chan,         \* commitChain: the messages in it
          closed,       \* commitChain is closed
          committer,    \* commitLoop: where it is
          batch,        \* commitLoop: its batch
          togo,         \* commitLoop: what drainCommit has yet to commit
          client,       \* the Kafka client: "open" or "closed"
          starter,      \* the goroutine of Start
          main,         \* main
          stopper,      \* who is inside once.Do: "none", "start", "main", "over"
          stage,        \* where Stop is
          pos,          \* the next offset the client hands out
          committed,    \* the committed offset of the group
          acked,        \* history: the messages handled without an error
          cutoff,       \* history: those whose handler failed after the cancellation
          failed        \* history: those whose commit failed and wrote nothing

loopVars == <<poll, cur>>
commitVars == <<committer, batch, togo>>
stopVars == <<starter, main, stopper, stage>>
historyVars == <<acked, cutoff, failed>>
vars == <<auto, cancelled, loopVars, chan, closed, commitVars, client, stopVars,
          pos, committed, historyVars>>

Offsets == 0..(Messages - 1)
(* A panic ends the process: nothing happens after it. *)
Panicked == poll = "panic"

TypeOK ==
    /\ auto \in BOOLEAN /\ cancelled \in BOOLEAN /\ closed \in BOOLEAN
    /\ poll \in {"off", "select", "read", "backoff", "handle", "send", "done", "panic"}
    /\ cur \in Offsets \union {-1}
    /\ chan \in Seq(Offsets) /\ Len(chan) <= ChanCap
    /\ committer \in {"off", "select", "commit", "last", "done"}
    /\ batch \in Seq(Offsets) /\ Len(batch) <= BatchSize
    /\ togo \in Seq(Offsets)
    /\ client \in {"open", "closed"}
    /\ starter \in {"subscribe", "spawn", "wait", "stop", "done"}
    /\ main \in {"run", "stop", "done"}
    /\ stopper \in {"none", "start", "main", "over"}
    /\ stage \in {"close_chan", "close_client", "wait"}
    /\ pos \in 0..Messages /\ committed \in 0..Messages
    /\ acked \subseteq Offsets /\ cutoff \subseteq Offsets /\ failed \subseteq Offsets

(* A consumer that joins reads on from the committed offset; that its      *)
(* group has committed one before is assumed here.                         *)
Init ==
    /\ auto \in BOOLEAN
    /\ cancelled = FALSE /\ closed = FALSE
    /\ poll = "off" /\ cur = -1
    /\ chan = << >>
    /\ committer = "off" /\ batch = << >> /\ togo = << >>
    /\ client = "open"
    /\ starter = "subscribe" /\ main = "run" /\ stopper = "none" /\ stage = "close_chan"
    /\ committed \in 0..Messages /\ pos = committed
    /\ acked = {} /\ cutoff = {} /\ failed = {}

-----------------------------------------------------------------------------
(* Start: subscribe (which may fail, and does on a closed client), start    *)
(* the goroutines, wait for the context, Stop.  main's Stop may come before *)
(* the goroutines are there, and then waits for nothing.                    *)
Subscribe ==
    /\ ~Panicked
    /\ starter = "subscribe"
    /\ \/ client = "open" /\ starter' = "spawn"
       \/ starter' = "done"
    /\ UNCHANGED <<auto, cancelled, loopVars, chan, closed, commitVars, client,
                   main, stopper, stage, pos, committed, historyVars>>

Spawn ==
    /\ ~Panicked
    /\ starter = "spawn"
    /\ starter' = "wait" /\ poll' = "select" /\ committer' = "select"
    /\ UNCHANGED <<auto, cancelled, cur, chan, closed, batch, togo, client,
                   main, stopper, stage, pos, committed, historyVars>>

StartAwaitsContext ==
    /\ ~Panicked
    /\ starter = "wait" /\ cancelled
    /\ starter' = "stop"
    /\ UNCHANGED <<auto, cancelled, loopVars, chan, closed, commitVars, client,
                   main, stopper, stage, pos, committed, historyVars>>

(* main: a signal; cancel(), then (after the HTTP server) cons.Stop().      *)
Signal ==
    /\ ~Panicked
    /\ main = "run"
    /\ main' = "stop" /\ cancelled' = TRUE
    /\ UNCHANGED <<auto, loopVars, chan, closed, commitVars, client,
                   starter, stopper, stage, pos, committed, historyVars>>

(* Stop: the first caller runs the body, the other waits for it. *)
EnterStop(who) ==
    /\ ~Panicked
    /\ stopper = "none"
    /\ IF who = "main" THEN main = "stop" ELSE starter = "stop"
    /\ stopper' = who
    /\ UNCHANGED <<auto, cancelled, loopVars, chan, closed, commitVars, client,
                   starter, main, stage, pos, committed, historyVars>>

InStop == stopper \in {"start", "main"}

(* Mutant: Stop does not close the channel. *)
CloseNothing ==
    /\ ~Panicked
    /\ InStop /\ stage = "close_chan"
    /\ stage' = "close_client"
    /\ UNCHANGED <<auto, cancelled, loopVars, chan, closed, commitVars, client,
                   starter, main, stopper, pos, committed, historyVars>>

CloseChan ==
    /\ ~Panicked
    /\ InStop /\ stage = "close_chan"
    /\ closed' = TRUE
    /\ stage' = "close_client"
    /\ UNCHANGED <<auto, cancelled, loopVars, chan, commitVars, client,
                   starter, main, stopper, pos, committed, historyVars>>

CloseClient ==
    /\ ~Panicked
    /\ InStop /\ stage = "close_client"
    /\ client' = "closed"
    /\ committed' = IF auto THEN pos ELSE committed
    /\ stage' = "wait"
    /\ UNCHANGED <<auto, cancelled, loopVars, chan, closed, commitVars,
                   starter, main, stopper, pos, historyVars>>

(* Mutant: Stop waits for commitLoop only. *)
WaitForCommitter ==
    /\ ~Panicked
    /\ InStop /\ stage = "wait"
    /\ committer \in {"off", "done"}
    /\ stopper' = "over"
    /\ UNCHANGED <<auto, cancelled, loopVars, chan, closed, commitVars, client,
                   starter, main, stage, pos, committed, historyVars>>

WaitGoroutines ==
    /\ ~Panicked
    /\ InStop /\ stage = "wait"
    /\ poll \in {"off", "done"} /\ committer \in {"off", "done"}
    /\ stopper' = "over"
    /\ UNCHANGED <<auto, cancelled, loopVars, chan, closed, commitVars, client,
                   starter, main, stage, pos, committed, historyVars>>

LeaveStop ==
    /\ ~Panicked
    /\ stopper = "over"
    /\ \/ main = "stop" /\ main' = "done" /\ UNCHANGED starter
       \/ starter = "stop" /\ starter' = "done" /\ UNCHANGED main
    /\ UNCHANGED <<auto, cancelled, loopVars, chan, closed, commitVars, client,
                   stopper, stage, pos, committed, historyVars>>

-----------------------------------------------------------------------------
PollStep(from, to) == poll = from /\ poll' = to

(* Mutant: the context is looked at only in the waits after an error. *)
PollAlways ==
    /\ PollStep("select", "read")
    /\ UNCHANGED <<auto, cancelled, cur, chan, closed, commitVars, client,
                   stopVars, pos, committed, historyVars>>

PollSelect ==
    /\ IF cancelled THEN PollStep("select", "done") ELSE PollStep("select", "read")
    /\ UNCHANGED <<auto, cancelled, cur, chan, closed, commitVars, client,
                   stopVars, pos, committed, historyVars>>

(* ReadMessage(100ms). *)
ReadMessage ==
    /\ PollStep("read", "handle")
    /\ client = "open"
    /\ pos < Messages
    /\ cur' = pos /\ pos' = pos + 1
    /\ UNCHANGED <<auto, cancelled, chan, closed, commitVars, client, stopVars,
                   committed, historyVars>>

ReadTimesOut ==
    /\ PollStep("read", "select")
    /\ client = "open"
    /\ UNCHANGED <<auto, cancelled, cur, chan, closed, commitVars, client, stopVars,
                   pos, committed, historyVars>>

(* The brokers are down, or any other error, a closed client among them:    *)
(* wait, for a time that grows with the failures or for a second.           *)
ReadFails ==
    /\ PollStep("read", "backoff")
    /\ UNCHANGED <<auto, cancelled, cur, chan, closed, commitVars, client, stopVars,
                   pos, committed, historyVars>>

(* select on the context and the timer. *)
BackoffEnds ==
    /\ \/ PollStep("backoff", "select")
       \/ cancelled /\ PollStep("backoff", "done")
    /\ UNCHANGED <<auto, cancelled, cur, chan, closed, commitVars, client,
                   stopVars, pos, committed, historyVars>>

(* The handler; an error (always possible: the database, a bad message, the *)
(* cancelled context, which the handler shares) skips the message.          *)
HandleOK ==
    /\ PollStep("handle", "send")
    /\ acked' = acked \union {cur}
    /\ UNCHANGED <<auto, cancelled, cur, chan, closed, commitVars, client,
                   stopVars, pos, committed, cutoff, failed>>

HandleFails ==
    /\ PollStep("handle", "select")
    /\ cutoff' = IF cancelled THEN cutoff \union {cur} ELSE cutoff
    /\ UNCHANGED <<auto, cancelled, cur, chan, closed, commitVars, client,
                   stopVars, pos, committed, acked, failed>>

(* c.commitChain <- msg: blocks while the channel is full. *)
Send ==
    /\ ~closed
    /\ Len(chan) < ChanCap
    /\ PollStep("send", "select")
    /\ chan' = Append(chan, cur)
    /\ UNCHANGED <<auto, cancelled, cur, closed, commitVars, client, stopVars,
                   pos, committed, historyVars>>

SendPanics ==
    /\ closed
    /\ PollStep("send", "panic")
    /\ UNCHANGED <<auto, cancelled, cur, chan, closed, commitVars, client,
                   stopVars, pos, committed, historyVars>>

-----------------------------------------------------------------------------
(* The batch goes to drainCommit; committer says what comes after it. *)
Drain(after) ==
    /\ togo' = batch
    /\ committer' = after

(* Mutant: a batch is committed only once it is over the size. *)
TakeOver ==
    /\ ~Panicked
    /\ committer = "select" /\ chan # << >>
    /\ chan' = Tail(chan)
    /\ batch' = Append(batch, Head(chan))
    /\ IF Len(batch') > BatchSize
       THEN togo' = batch' /\ committer' = "commit"
       ELSE UNCHANGED <<togo, committer>>
    /\ UNCHANGED <<auto, cancelled, loopVars, closed, client, stopVars, pos, committed, historyVars>>

(* Mutant: the batch is emptied before it is committed. *)
TakeAndReset ==
    /\ ~Panicked
    /\ committer = "select" /\ chan # << >>
    /\ chan' = Tail(chan)
    /\ IF Len(batch) + 1 >= BatchSize
       THEN togo' = << >> /\ batch' = << >> /\ committer' = "commit"
       ELSE batch' = Append(batch, Head(chan)) /\ UNCHANGED <<togo, committer>>
    /\ UNCHANGED <<auto, cancelled, loopVars, closed, client, stopVars, pos, committed, historyVars>>

(* A message from the channel: a full batch is committed. *)
Take ==
    /\ ~Panicked
    /\ committer = "select" /\ chan # << >>
    /\ chan' = Tail(chan)
    /\ batch' = Append(batch, Head(chan))
    /\ IF Len(batch') >= BatchSize
       THEN togo' = batch' /\ committer' = "commit"
       ELSE UNCHANGED <<togo, committer>>
    /\ UNCHANGED <<auto, cancelled, loopVars, closed, client, stopVars, pos, committed, historyVars>>

Tick ==
    /\ ~Panicked
    /\ committer = "select" /\ batch # << >>
    /\ Drain("commit")
    /\ UNCHANGED <<auto, cancelled, loopVars, chan, closed, batch, client, stopVars,
                   pos, committed, historyVars>>

(* The context is done, or the channel is closed and empty: commit the rest *)
(* and return.  On ctx.Done what is still in the channel stays there.       *)
CommitterEnds ==
    /\ ~Panicked
    /\ committer = "select"
    /\ cancelled \/ (closed /\ chan = << >>)
    /\ Drain("last")
    /\ UNCHANGED <<auto, cancelled, loopVars, chan, closed, batch, client, stopVars,
                   pos, committed, historyVars>>

(* drainCommit: CommitMessage, message by message.  An error (the broker    *)
(* does not answer, the client is closed) is logged, the next message is    *)
(* committed, and the failed one leaves with the batch.                     *)
CommitMessage ==
    /\ ~Panicked
    /\ committer \in {"commit", "last"} /\ togo # << >>
    /\ togo' = Tail(togo)
    /\ \/ client = "open" /\ committed' = Head(togo) + 1 /\ UNCHANGED failed
       \/ failed' = failed \union {Head(togo)} /\ UNCHANGED committed
    /\ UNCHANGED <<auto, cancelled, loopVars, chan, closed, committer, batch, client,
                   stopVars, pos, acked, cutoff>>

DrainEnds ==
    /\ ~Panicked
    /\ committer \in {"commit", "last"} /\ togo = << >>
    /\ committer' = IF committer = "commit" THEN "select" ELSE "done"
    /\ batch' = << >>
    /\ UNCHANGED <<auto, cancelled, loopVars, chan, closed, togo, client, stopVars,
                   pos, committed, historyVars>>

(* librdkafka's own commit. *)
AutoCommits ==
    /\ ~Panicked
    /\ auto /\ client = "open"
    /\ committed' = pos
    /\ UNCHANGED <<auto, cancelled, loopVars, chan, closed, commitVars, client, stopVars,
                   pos, historyVars>>

-----------------------------------------------------------------------------
PollLoop ==
    \/ PollSelect \/ ReadMessage \/ ReadTimesOut \/ ReadFails \/ BackoffEnds
    \/ HandleOK \/ HandleFails \/ Send \/ SendPanics

CommitLoop == Take \/ Tick \/ CommitterEnds \/ CommitMessage \/ DrainEnds

StopSteps ==
    \/ \E who \in {"start", "main"} : EnterStop(who)
    \/ CloseChan \/ CloseClient \/ WaitGoroutines \/ LeaveStop

Next ==
    \/ Subscribe \/ Spawn \/ StartAwaitsContext \/ Signal \/ StopSteps
    \/ PollLoop \/ CommitLoop \/ AutoCommits

(* The Go scheduler runs every goroutine that can run. *)
Fairness ==
    /\ WF_vars(PollLoop) /\ WF_vars(CommitLoop)
    /\ WF_vars(Subscribe) /\ WF_vars(Spawn) /\ WF_vars(StartAwaitsContext) /\ WF_vars(StopSteps)

Spec == Init /\ [][Next]_vars /\ Fairness

-----------------------------------------------------------------------------
InSeq(m, q) == \E i \in DOMAIN q : q[i] = m

(* Without automatic commits: a message that was handled is on its way to   *)
(* being committed, or covered already, through every hand-over between the *)
(* two goroutines; only a commit that fails can keep it from it, and what   *)
(* follows it in the channel and the batches still gets its turn.           *)
HandledIsOnItsWay ==
    ~auto =>
        \A m \in acked :
            \/ m < committed
            \/ InSeq(m, chan) \/ InSeq(m, batch)
            \/ cur = m /\ poll \in {"send", "panic"}
            \/ m \in failed

(* Without automatic commits: an event whose handler was cut short by the   *)
(* shutdown (it shares the cancelled context) is not covered by any commit  *)
(* and will be delivered again; nothing is read, handled and committed      *)
(* after it.                                                                *)
ShutdownLosesNothing == ~auto => \A m \in cutoff : committed <= m

(* A cancelled consumer comes to an end, unless it panics: main does not    *)
(* hang in Stop, even if pollLoop is blocked on the full channel after      *)
(* commitLoop has gone.                                                     *)
StopReturns == cancelled ~> (main = "done" \/ Panicked)

(* The test of the graceful shutdown, and main's last message, take it that *)
(* after the cancellation the consumer is stopped in an orderly way.        *)
ShutdownIsGraceful == ~Panicked

-----------------------------------------------------------------------------
(* The consumer as the rest of the gateway sees it. *)
Life == IF Panicked THEN "panicked" ELSE IF main = "done" THEN "stopped" ELSE "running"
InHand == IF poll = "handle" THEN cur ELSE -1

Promised == INSTANCE ConsumerPromise WITH end <- Messages, life <- Life, hand <- InHand

(* Two goroutines, a channel, batches and a Stop that two callers race for  *)
(* are, from outside, a consumer that handles one message after the other   *)
(* and is at rest once Stop has returned to main.                           *)
KeepsConsumerPromise == Promised!OneLife
=============================================================================
