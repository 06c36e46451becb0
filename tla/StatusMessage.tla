---------------------------- MODULE StatusMessage ---------------------------
(***************************************************************************)
(* What a Kafka message tells UpdateTaskStatus: the path from the header   *)
(* bytes to the status code (internal/handlers/broker), and the headers    *)
(* that commands and status events carry (internal/entity/domain).         *)
(*                                                                         *)
(* Two parsers of the headers exist.  HandleTaskStatusLLM, which is in     *)
(* use, takes the status from a loop over all headers;                     *)
(* ValidateTaskStatusLLM, which nothing calls, from a search for the first *)
(* "status" header.                                                        *)
(***************************************************************************)
EXTENDS TaskStatus, Sequences

CONSTANTS HeaderValues, \* the values a header of a foreign message may have
          MaxHeaders    \* bound on the headers of such a message

(* A value is what was sent, and what base64 decoding makes of it:          *)
(* NotBase64 if it does not decode.                                         *)
NotBase64 == "not base64"
Garbage == "garbage"
Plain(text) == [raw |-> text, decoded |-> NotBase64]
Encoded(text) == [raw |-> "base64", decoded |-> text]
Ambiguous(text) == [raw |-> text, decoded |-> Garbage]  \* plain, yet decodable
Empty == [raw |-> "", decoded |-> ""]

ASSUME StatusMessageAssumption ==
    /\ HeaderValues \subseteq [raw : STRING, decoded : STRING]
    /\ MaxHeaders \in Nat

VARIABLES msg,          \* the message handed to Handle
          sent,         \* the task it was made from by this code, or Foreign
          verdict       \* what Handle made of it

vars == <<msg, sent, verdict>>

Foreign == [status |-> NoStatus]

(* Mutant: header values are expected in base64. *)
DecodeBase64Only(v) == v.decoded

(* decodeHeaderValue. *)
DecodeHeaderValue(v) == IF v.decoded = NotBase64 THEN v.raw ELSE v.decoded

(* strconv.Atoi and uuid.Parse on the texts that occur. *)
Numeral == [x \in {"0", "1", "2", "3", "4", "5", "6"} |->
              CASE x = "0" -> 0 [] x = "1" -> 1 [] x = "2" -> 2 [] x = "3" -> 3
                [] x = "4" -> 4 [] x = "5" -> 5 [] x = "6" -> 6]
IsUUID(text) == text = "uuid"

StatusCodeOK(text) == text \in DOMAIN Numeral /\ IsKafkaCode(Numeral[text])

Text(h) == DecodeHeaderValue(h.value)
Having(hs, key) == {i \in DOMAIN hs : hs[i].key = key}
Last(I) == CHOOSE i \in I : \A j \in I : j <= i
First(I) == CHOOSE i \in I : \A j \in I : i <= j

Rejected == [ok |-> FALSE, code |-> 0]
Accepted(code) == [ok |-> TRUE, code |-> code]

(* parseTaskStatusHeaders: every status and trace_id header must be well    *)
(* formed, the last status wins, and without one the status stays "".       *)
HeadersOK(hs) ==
    /\ \A i \in Having(hs, "status") : StatusCodeOK(Text(hs[i]))
    /\ \A i \in Having(hs, "trace_id") : Text(hs[i]) = "" \/ IsUUID(Text(hs[i]))

ParsedStatus(hs) ==
    IF Having(hs, "status") = {}
    THEN NoStatus
    ELSE FromKafkaCode(Numeral[Text(hs[Last(Having(hs, "status"))])])

(* Mutant: an event without a body is refused. *)
HandleNeedsBody(m) ==
    IF m.keyOK /\ m.body = "object" /\ HeadersOK(m.headers)
    THEN Accepted(ToKafkaCode(ParsedStatus(m.headers)))
    ELSE Rejected

(* HandleTaskStatusLLM up to its call of UpdateTaskStatus. *)
HandleTaskStatusLLM(m) ==
    IF m.keyOK /\ m.body # "bad" /\ HeadersOK(m.headers)
    THEN Accepted(ToKafkaCode(ParsedStatus(m.headers)))
    ELSE Rejected

(* validateStatus and ValidateTaskStatusLLM. *)
ValidStatus(hs) ==
    /\ Having(hs, "status") # {}
    /\ StatusCodeOK(Text(hs[First(Having(hs, "status"))]))

ValidateTaskStatusLLM(m) ==
    IF m.keyOK /\ ValidStatus(m.headers) /\ m.body # "bad" /\ HeadersOK(m.headers)
    THEN Accepted(Numeral[Text(m.headers[First(Having(m.headers, "status"))])])
    ELSE Rejected

(* The dispatch on the topic: analysis tasks are accepted and not handled. *)
Handle(m) ==
    CASE m.topic = "tasks_llm"      -> HandleTaskStatusLLM(m)
      [] m.topic = "tasks_analysis" -> [ok |-> TRUE, code |-> 0]
      [] OTHER                      -> Rejected

-----------------------------------------------------------------------------
(* TaskContractHeaders.ToMap: unset fields give no header.  The version is  *)
(* one of them: nothing in this code sets it.                               *)
Digit(code) == CHOOSE x \in DOMAIN Numeral : Numeral[x] = code

ToMap(task) ==
    {h \in {[key |-> "status",    value |-> Plain(Digit(ToKafkaCode(task.status)))],
            [key |-> "trace_id",  value |-> task.trace],
            [key |-> "worker_id", value |-> task.worker]} :
        h.value # Empty}

(* headersToBroker ranges over a Go map: any order. *)
Orders(H) ==
    {hs \in UNION {[1..n -> H] : n \in 0..3} :
        /\ \A h \in H : \E i \in DOMAIN hs : hs[i] = h
        /\ \A i, j \in DOMAIN hs : hs[i] = hs[j] => i = j}

Headers == [key : {"status", "trace_id", "worker_id", "version"}, value : HeaderValues]

(* A message made from a task by NewTaskLLMCommand or NewTaskLLMStatusEvent. *)
Tasks == [status : Statuses, trace : {Empty, Plain("uuid")},
          worker : {Empty, Plain("worker-1"), Ambiguous("worker01")}]

SendOwn(task) ==
    /\ sent' = task
    /\ \E hs \in Orders(ToMap(task)) :
          msg' = [topic |-> "tasks_llm", keyOK |-> TRUE, body |-> "object", headers |-> hs]

SendForeign ==
    /\ sent' = Foreign
    /\ \E n \in 0..MaxHeaders : \E hs \in [1..n -> Headers] :
       \E topic \in {"tasks_llm", "tasks_analysis", "other"}, keyOK \in BOOLEAN,
          body \in {"empty", "object", "bad"} :
          /\ n > 1 => topic = "tasks_llm" /\ keyOK /\ body = "object"
          /\ msg' = [topic |-> topic, keyOK |-> keyOK, body |-> body, headers |-> hs]

NoMessage == [topic |-> "none", keyOK |-> FALSE, body |-> "empty", headers |-> << >>]
Unhandled == [ok |-> FALSE, code |-> -1]

Init == msg = NoMessage /\ sent = Foreign /\ verdict = Unhandled

Receive ==
    /\ msg = NoMessage
    /\ (\E task \in Tasks : SendOwn(task)) \/ SendForeign
    /\ UNCHANGED verdict

HandleMessage ==
    /\ msg # NoMessage /\ verdict = Unhandled
    /\ verdict' = Handle(msg)
    /\ UNCHANGED <<msg, sent>>

Next == Receive \/ HandleMessage

Spec == Init /\ [][Next]_vars

-----------------------------------------------------------------------------
Done == verdict # Unhandled

(* What this code sends it also understands: a command comes back as        *)
(* PENDING (and is skipped), a status event with the status of its task,    *)
(* whatever the order of the headers and whatever base64 decoding does to   *)
(* the worker's name.                                                       *)
OwnMessagesComeBack ==
    Done /\ sent # Foreign => verdict = Accepted(ToKafkaCode(sent.status))

(* The two parsers agree where a message states one status at most, so that *)
(* ValidateTaskStatusLLM could take the place of the one in use; with       *)
(* several status headers they may differ.                                  *)
ParsersAgree ==
    Done /\ msg.topic = "tasks_llm" /\ ValidateTaskStatusLLM(msg).ok
        => /\ verdict.ok
           /\ \/ verdict = ValidateTaskStatusLLM(msg)
              \/ \E i, j \in Having(msg.headers, "status") : i # j

(* validateStatus says of a message without a status: it is invalid.       *)
MissingStatusRejected ==
    Done /\ msg.topic = "tasks_llm" /\ Having(msg.headers, "status") = {} => ~verdict.ok
=============================================================================
