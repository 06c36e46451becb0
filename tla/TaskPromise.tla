----------------------------- MODULE TaskPromise ----------------------------
(***************************************************************************)
(* What POST /api/v1/tasks/{filename} promises its caller, without saying  *)
(* how: a task has three parts, the file in the object storage, the row in *)
(* the table and the command in the topic, and an answer "accepted" means  *)
(* that all three are there and stay there.                                *)
(*                                                                         *)
(*   - the parts come into being in the order file, row, command, so that  *)
(*     a worker never sees a command whose task is not recorded;           *)
(*   - a row and a command, once there, stay;                              *)
(*   - only a request that is not answered yet, or never will be accepted, *)
(*     may lose its file, and then never gets it back;                     *)
(*   - a command may still appear after the request has been refused (the  *)
(*     broker's answer was too late), and appears once;                    *)
(*   - where a process ends, its requests get no answer, and nothing more  *)
(*     happens for them.                                                   *)
(***************************************************************************)
CONSTANT Tasks

VARIABLES answer,       \* task -> "none", "accepted", "refused" or "lost"
          parts         \* task -> the parts that exist

vars == <<answer, parts>>

Parts == {"file", "row", "command"}

TypeOK ==
    /\ answer \in [Tasks -> {"none", "accepted", "refused", "lost"}]
    /\ parts \in [Tasks -> SUBSET Parts]

Init ==
    /\ answer = [t \in Tasks |-> "none"]
    /\ parts = [t \in Tasks |-> {}]

Add(t, p) ==
    /\ p \notin parts[t]
    /\ parts' = [parts EXCEPT ![t] = @ \union {p}]

Store(t)   == answer[t] = "none" /\ parts[t] = {} /\ Add(t, "file") /\ UNCHANGED answer
Record(t)  == answer[t] = "none" /\ parts[t] = {"file"} /\ Add(t, "row") /\ UNCHANGED answer
Publish(t) == answer[t] \in {"none", "refused"} /\ "row" \in parts[t] /\ Add(t, "command") /\ UNCHANGED answer

Accept(t) ==
    /\ answer[t] = "none"
    /\ parts[t] = Parts
    /\ answer' = [answer EXCEPT ![t] = "accepted"]
    /\ UNCHANGED parts

(* A refusal may find the file stored although the upload was reported as *)
(* failed, and may or may not manage to take the file away.               *)
Refuse(t) ==
    /\ answer[t] = "none"
    /\ answer' = [answer EXCEPT ![t] = "refused"]
    /\ \/ UNCHANGED parts
       \/ parts' = [parts EXCEPT ![t] = @ \ {"file"}]
       \/ parts[t] = {} /\ parts' = [parts EXCEPT ![t] = {"file"}]

(* A process ends: the requests it serves stay as they are. *)
Lose(T) ==
    /\ \A t \in T : answer[t] = "none"
    /\ answer' = [t \in Tasks |-> IF t \in T THEN "lost" ELSE answer[t]]
    /\ UNCHANGED parts

Next ==
    \/ \E t \in Tasks : Store(t) \/ Record(t) \/ Publish(t) \/ Accept(t) \/ Refuse(t)
    \/ \E T \in SUBSET Tasks : Lose(T)

Spec == Init /\ [][Next]_vars
=============================================================================
