---------------------------- MODULE TaskLifecycle ---------------------------
(***************************************************************************)
(* The life of a task from the request to its final status: the intake of  *)
(* TaskIntake, a worker that answers commands with status events in the    *)
(* same topic, and the gateway's replicas, which consume the topic as one  *)
(* group and write every event into the table                              *)
(* (HandleTaskStatusLLM, TaskLLMUC.UpdateTaskStatus).                      *)
(*                                                                         *)
(* UpdateTaskStatus reads the row, compares, and updates it with a second  *)
(* statement, so a replica that has lost the partition in between still    *)
(* writes.  The consumer's inner life (poll and commit goroutines, Stop)   *)
(* is ConsumerLoop; what it lets the rest of the system see is here: the   *)
(* owner's position, each process's messages that are handled and not yet  *)
(* committed (channel and batch), and the committed offset.  The consumer  *)
(* has no rebalance callback, so a process that loses the partition keeps  *)
(* those messages and commits them later, whatever the new owner has done  *)
(* by then.  The topic has one partition: messages of one task share a     *)
(* key, hence a partition.                                                 *)
(*                                                                         *)
(* Hiccups says what else may happen on this side:                         *)
(*   "db_fails"   a SELECT or an UPDATE of UpdateTaskStatus fails          *)
(*   "restart"    a replica dies and starts again, or leaves               *)
(*   "rebalance"  the partition is assigned anew, no process ending         *)
(*   "overtaken"  also while its owner is handling a message                *)
(*   "no_status"  the worker's final event lacks the "status" header       *)
(*   "no_payload" it lacks the result, or the error message                *)
(***************************************************************************)
EXTENDS TaskIntake

CONSTANTS Replicas,     \* the gateway's replicas, one consumer each
          Hiccups,      \* the extra faults of this model
          AutoCommit,   \* enable.auto.commit of the consumers
          NewGroup,     \* the group has never committed an offset
          MaxAttempts,  \* bound: how often the worker takes up one command
          MaxMoves      \* bound: how often the partition is assigned anew

AllHiccups == {"db_fails", "restart", "rebalance", "overtaken", "no_status", "no_payload"}

ASSUME LifecycleAssumption ==
    /\ Hiccups \subseteq AllHiccups
    /\ AutoCommit \in BOOLEAN /\ NewGroup \in BOOLEAN
    /\ MaxAttempts \in Nat
    /\ MaxMoves \in Nat

VARIABLES attempts,     \* task -> how often the worker has taken it up
          busy,         \* the tasks the worker is at
          owner,        \* the replica that has the partition
          pos,          \* the owner's position: the next message is pos + 1
          read,         \* the owner has read since the partition was assigned
          batch,        \* replica -> the messages it has yet to commit
          committed,    \* the group's committed offset, or NoOffset
          job,          \* replica -> the message being handled, and how far
          moves,        \* assignments so far
          handled,      \* history: the farthest message whose handler returned
          evicted,      \* history: a live process lost the partition at work
          passed,       \* history: the messages an assignment has passed over
          dropped       \* history: those whose handler met a failing database

workerVars == <<attempts, busy>>
groupVars == <<owner, pos, read, committed, moves>>
historyVars == <<handled, evicted, passed, dropped>>
lifeVars == <<intakeVars, workerVars, groupVars, batch, job, historyVars>>

May(hiccup) == hiccup \in Hiccups
NoJob == [phase |-> "idle", msg |-> 0]
NoOffset == -1

LifeTypeOK ==
    /\ IntakeTypeOK
    /\ attempts \in [Tasks -> Nat]
    /\ busy \subseteq Tasks
    /\ owner \in Replicas
    /\ pos \in 0..Len(log) /\ read \in BOOLEAN
    /\ committed \in 0..Len(log) \union {NoOffset}
    /\ batch \in [Replicas -> Seq(DOMAIN log)]
    /\ job \in [Replicas -> [phase : {"idle", "got", "write"}, msg : 0..Len(log)]]
    /\ \A r \in Replicas : job[r].phase # "idle" => job[r].msg \in DOMAIN log
    /\ moves \in Nat
    /\ handled \in 0..Len(log) /\ evicted \in BOOLEAN
    /\ passed \subseteq DOMAIN log /\ dropped \subseteq DOMAIN log

LifeInit ==
    /\ IntakeInit
    /\ attempts = [t \in Tasks |-> 0]
    /\ busy = {}
    /\ owner \in Replicas
    /\ pos = 0 /\ read = FALSE
    /\ committed = IF NewGroup THEN NoOffset ELSE 0
    /\ batch = [r \in Replicas |-> << >>]
    /\ job = [r \in Replicas |-> NoJob]
    /\ moves = 0
    /\ handled = 0 /\ evicted = FALSE /\ passed = {} /\ dropped = {}

-----------------------------------------------------------------------------
(* The worker, external.  It announces PROCESSING, reads the file, and      *)
(* ends with COMPLETED, or with FAILED (always, if the file is gone).  A    *)
(* command may reach it again: after a crash, a failure or a redelivery.    *)
WorkerTakes(t) ==
    /\ Published(t)
    /\ attempts[t] < MaxAttempts
    /\ attempts' = [attempts EXCEPT ![t] = @ + 1]
    /\ busy' = busy \union {t}
    /\ log' = Append(log, [task |-> t, status |-> "PROCESSING", payload |-> NotGiven])
    /\ UNCHANGED <<pc, expired, stored, rows, outbox, report, groupVars, batch, job, historyVars>>

WorkerEnds(t) ==
    /\ t \in busy
    /\ busy' = busy \ {t}
    /\ \E s \in {"FAILED"} \union (IF t \in stored THEN {"COMPLETED"} ELSE {})
                \union (IF May("no_status") THEN {NoStatus} ELSE {}),
          p \in {Given} \union (IF May("no_payload") THEN {NotGiven} ELSE {}) :
          log' = Append(log, [task |-> t, status |-> s, payload |-> p])
    /\ UNCHANGED <<pc, expired, stored, rows, outbox, report, attempts,
                   groupVars, batch, job, historyVars>>

-----------------------------------------------------------------------------
(* pollLoop: ReadMessage, by the partition's owner, one message at a time. *)
Poll(r) ==
    /\ owner = r
    /\ job[r].phase = "idle"
    /\ pos < Len(log)
    /\ pos' = pos + 1 /\ read' = TRUE
    /\ job' = [job EXCEPT ![r] = [phase |-> "got", msg |-> pos + 1]]
    /\ UNCHANGED <<intakeVars, workerVars, owner, committed, moves, batch, historyVars>>

(* Mutant: a status that is not stated is taken for the next regular one. *)
TargetGuessed(m) ==
    IF m.status = NoStatus THEN "COMPLETED" ELSE FromKafkaCode(ToKafkaCode(m.status))

(* The status that UpdateTaskStatus is asked for: the header's code was    *)
(* parsed into a status and is turned into a code and back on the way.     *)
Target(m) == FromKafkaCode(ToKafkaCode(m.status))

(* The handler returns, and the poll loop goes to the next message.        *)
Returns(r) ==
    /\ job' = [job EXCEPT ![r] = NoJob]
    /\ handled' = Greatest(handled, job[r].msg)

(* Without an error the message is sent to commitLoop. *)
Handled(r) ==
    /\ Returns(r)
    /\ batch' = [batch EXCEPT ![r] = Append(@, job[r].msg)]
    /\ UNCHANGED dropped

(* Mutant: a message whose handling failed is handled again. *)
RejectedRetries(r, losses) == UNCHANGED <<job, handled, batch, dropped>>

(* An error is logged, and the message never committed by itself. *)
Rejected(r, losses) ==
    /\ Returns(r)
    /\ dropped' = dropped \union losses
    /\ UNCHANGED batch

DatabaseFails(r) == May("db_fails") /\ Rejected(r, {job[r].msg})

(* UpdateTaskStatus up to its UPDATE.  PENDING (the gateway's own command) *)
(* and CANCELLED are skipped; GetByID fails on a missing row; a status     *)
(* that the row already has is answered with a TaskAlready... error.       *)
Decide(r) ==
    LET m == log[job[r].msg]
        s == Target(m)
    IN /\ job[r].phase = "got"
       /\ \/ s \in {"PENDING", "CANCELLED"} /\ Handled(r)
          \/ /\ s \in {"PROCESSING"} \union FinalStatuses
             /\ \/ DatabaseFails(r)
                \/ (rows[m.task] = NoRow \/ rows[m.task].status = s) /\ Rejected(r, {})
                \/ /\ rows[m.task] # NoRow /\ rows[m.task].status # s
                   /\ job' = [job EXCEPT ![r].phase = "write"]
                   /\ UNCHANGED <<batch, handled, dropped>>
       /\ UNCHANGED <<intakeVars, workerVars, groupVars, evicted, passed>>

(* The result of the event, or its error message, is written as it is:     *)
(* NULL, or the empty text, if the event has none.                         *)
Updated(row, s, payload) ==
    CASE s = "PROCESSING" -> UpdateWithStatus(row, s, Now)
      [] s = "COMPLETED"  -> UpdateWithResult(row, s, payload, Now)
      [] s = "FAILED"     -> UpdateWithError(row, s, payload, Now)

(* The UPDATE, on the row as it is by now. *)
Write(r) ==
    LET m == log[job[r].msg]
    IN /\ job[r].phase = "write"
       /\ \/ /\ rows' = [rows EXCEPT ![m.task] = Updated(@, Target(m), m.payload)]
             /\ Handled(r)
          \/ DatabaseFails(r) /\ UNCHANGED rows
       /\ UNCHANGED <<pc, expired, stored, outbox, report, log, workerVars, groupVars,
                      evicted, passed>>

(* Mutant: the manual commit takes the reading position. *)
CommitPosition(r) ==
    /\ batch[r] # << >>
    /\ batch' = [batch EXCEPT ![r] = Tail(@)]
    /\ committed' = pos \/ UNCHANGED committed

(* commitLoop's CommitMessage of the next message, by the owner or by one  *)
(* that was it; its error is logged, and the message forgotten.            *)
Commit(r) ==
    /\ batch[r] # << >>
    /\ batch' = [batch EXCEPT ![r] = Tail(@)]
    /\ committed' = Head(batch[r]) \/ UNCHANGED committed

(* librdkafka's automatic one covers every message it has handed out. *)
AutoCommits ==
    /\ AutoCommit /\ read
    /\ committed' = pos
    /\ UNCHANGED batch

CommitNext ==
    /\ AutoCommits \/ \E r \in Replicas : Commit(r)
    /\ UNCHANGED <<intakeVars, workerVars, owner, pos, read, moves, job, historyVars>>

(* All the owner has handled since the partition was assigned to it. *)
Covered == IF job[owner].phase = "idle" THEN pos ELSE job[owner].msg - 1

(* Mutant: reading resumes after the next message. *)
AssignPast(n) ==
    /\ moves < MaxMoves
    /\ moves' = moves + 1
    /\ owner' = n
    /\ pos' = (IF committed = NoOffset THEN Len(log) ELSE committed) + 1
    /\ read' = FALSE
    /\ passed' = passed \union (Covered + 1)..(pos' - 1)

(* The partition goes to replica n, which reads on from the committed      *)
(* offset or, if there is none, from the end of the log: main leaves       *)
(* auto.offset.reset at its default, "latest".                             *)
AssignTo(n) ==
    /\ moves < MaxMoves
    /\ moves' = moves + 1
    /\ owner' = n
    /\ pos' = IF committed = NoOffset THEN Len(log) ELSE committed
    /\ read' = FALSE
    /\ passed' = passed \union (Covered + 1)..pos'

(* A process ends, and what it had in its channel and its batch with it.   *)
(* If it had the partition, that is assigned to whoever is there then.     *)
Restart(r) ==
    /\ May("restart")
    /\ IF owner = r
       THEN \E n \in Replicas : AssignTo(n)
       ELSE moves < MaxMoves /\ UNCHANGED <<owner, pos, read, moves, passed>>
    /\ job' = [job EXCEPT ![r] = NoJob]
    /\ batch' = [batch EXCEPT ![r] = << >>]
    /\ UNCHANGED <<intakeVars, workerVars, committed, handled, evicted, dropped>>

(* The partition is taken from its owner, and may be given back to it: the *)
(* default assignors revoke everything first.  Nothing tells pollLoop or   *)
(* commitLoop of it.                                                       *)
Rebalance ==
    /\ May("rebalance")
    /\ job[owner].phase = "idle" \/ May("overtaken")
    /\ \E n \in Replicas : AssignTo(n)
    /\ evicted' = (evicted \/ batch[owner] # << >> \/ job[owner].phase # "idle")
    /\ UNCHANGED <<intakeVars, workerVars, committed, batch, job, handled, dropped>>

Consume(r) == Poll(r) \/ Decide(r) \/ Write(r)

LifeNext ==
    \/ IntakeNext /\ UNCHANGED <<workerVars, groupVars, batch, job, historyVars>>
    \/ \E t \in Tasks : WorkerTakes(t) \/ WorkerEnds(t)
    \/ \E r \in Replicas : Consume(r) \/ Restart(r)
    \/ CommitNext
    \/ Rebalance

(* The worker takes up every command once at least and ends what it began; *)
(* the poll loop keeps polling and handling.                               *)
LifeFairness ==
    /\ IntakeFairness
    /\ \A t \in Tasks :
          WF_lifeVars(attempts[t] = 0 /\ WorkerTakes(t)) /\ WF_lifeVars(WorkerEnds(t))
    /\ \A r \in Replicas : WF_lifeVars(Consume(r))

LifeSpec == LifeInit /\ [][LifeNext]_lifeVars /\ LifeFairness

-----------------------------------------------------------------------------
Events(t) == {i \in DOMAIN log : log[i].task = t /\ log[i].status # "PENDING"}

(* Every message in the topic is about a task that has its row: no status   *)
(* event can be lost to "task not found", however early the worker answers  *)
(* and whatever became of the request.                                      *)
MessagesHaveRows == \A i \in DOMAIN log : rows[log[i].task] # NoRow

(* The status a client reads was caused: by an event in the topic that asks *)
(* for it, or, FAILED, by CreateTask recording a failed publication; a      *)
(* result comes from a COMPLETED event only.                                *)
StatusIsCaused ==
    \A t \in Tasks :
        LET Asked(s) == \E i \in Events(t) : log[i].status = s
        IN rows[t] # NoRow =>
            /\ rows[t].status = "PROCESSING" => Asked("PROCESSING")
            /\ rows[t].status = "COMPLETED" \/ rows[t].result => Asked("COMPLETED")
            /\ rows[t].status = "FAILED" =>
                  \/ Asked("FAILED") \/ Asked(NoStatus)
                  \/ pc[t] \in {"undo_kafka", "kafka_error", "crashed"}
            /\ rows[t].status # "CANCELLED"

(* An event that the gateway lost, and its offset with it. *)
Lost(i) == i \in passed \union dropped

(* When the topic has been read to its end and nothing is being handled,   *)
(* a task shows the status of its last event: none was overtaken by an     *)
(* older one, in spite of all redelivery after restarts, late commits and  *)
(* failed ones.  Only if that event itself was passed over by an           *)
(* assignment, or met a failing database, the row may show an older one    *)
(* (when the former can happen is what GroupKeepsPromise says).            *)
Settled == pos = Len(log) /\ \A r \in Replicas : job[r].phase = "idle"

SettledShowsLastEvent ==
    Settled =>
        \A t \in Tasks : \A i \in Events(t) :
            (\A j \in Events(t) : j <= i) /\ ~Lost(i) => rows[t].status = Target(log[i])

(* An accepted task comes to rest in a final status, COMPLETED or FAILED,   *)
(* unless the gateway loses one of its events.                             *)
AcceptedComesToRest ==
    \A t \in Tasks :
        (pc[t] = "accepted") ~>
            \/ \E i \in Events(t) : Lost(i)
            \/ [](rows[t] # NoRow /\ rows[t].status \in FinalStatuses)

-----------------------------------------------------------------------------
(* The owner of the partition as a consumer. *)
InHand == IF job[owner].phase = "idle" THEN -1 ELSE job[owner].msg - 1

Promised == INSTANCE GroupPromise WITH
               auto <- AutoCommit, end <- Len(log), cancelled <- FALSE, life <- "running",
               hand <- InHand, done <- handled, moved <- evicted

(* The replicas together are one consumer over all the lives of their       *)
(* processes, which passes over an event only for the reasons that the      *)
(* promise names: what the processes commit late, or fail to commit, and    *)
(* what they forget at their end leaves no other gap.  (While a partition   *)
(* moves away from under a handler two of them are at work, and no such     *)
(* promise holds.)                                                          *)
GroupKeepsPromise == Promised!Group

-----------------------------------------------------------------------------
(* What the migration says of the column status:                           *)
(* "PENDING -> PROCESSING -> COMPLETED | FAILED".  A status never goes     *)
(* back along that arrow.                                                  *)
Rank == [s \in {"PENDING", "PROCESSING", "COMPLETED", "FAILED"} |->
            CASE s = "PENDING" -> 0 [] s = "PROCESSING" -> 1 [] OTHER -> 2]

StatusMovesForward ==
    [][\A t \in Tasks : rows[t] # NoRow => Rank[rows'[t].status] >= Rank[rows[t].status]]_lifeVars
=============================================================================
