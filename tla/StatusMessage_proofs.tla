------------------------- MODULE StatusMessage_proofs -----------------------
(***************************************************************************)
(* Proofs about StatusMessage, for every set of header values and every    *)
(* number of headers: what this code sends it also understands, and the two *)
(* parsers agree on messages that state one status at most.                *)
(***************************************************************************)
EXTENDS StatusMessage, TLAPS

(* A sequence of headers. *)
IsHeaders(hs) == \E n \in Nat : DOMAIN hs = 1..n

(* The message that SendOwn makes of a task, in whatever order its headers *)
(* are.                                                                    *)
IsOwn(m, task) ==
    /\ task \in Tasks
    /\ \E hs \in Orders(ToMap(task)) :
          m = [topic |-> "tasks_llm", keyOK |-> TRUE, body |-> "object", headers |-> hs]

MessageInv ==
    /\ verdict = Unhandled \/ (msg # NoMessage /\ verdict = Handle(msg))
    /\ msg = NoMessage \/ sent = Foreign \/ IsOwn(msg, sent)
    /\ IsHeaders(msg.headers)

-----------------------------------------------------------------------------
(* The only status header is the first one and the last one. *)
LEMMA OnlyOne ==
  ASSUME NEW I, NEW i \in I, I \subseteq Int, \A j \in I : j = i
  PROVE  Last(I) = i /\ First(I) = i
  <1>1. i \in Int /\ i <= i
    OBVIOUS
  <1>2. Last(I) \in I
    <2>1. \E k \in I : \A j \in I : j <= k
      BY <1>1
    <2> QED BY <2>1 DEF Last
  <1>3. First(I) \in I
    <2>1. \E k \in I : \A j \in I : k <= j
      BY <1>1
    <2> QED BY <2>1 DEF First
  <1> QED BY <1>2, <1>3

(* The numerals stand for different numbers, and a code is written as one. *)
LEMMA Numerals ==
  /\ DOMAIN Numeral = {"0", "1", "2", "3", "4", "5", "6"}
  /\ \A x \in DOMAIN Numeral : Numeral[x] \in 0..6 /\ Digit(Numeral[x]) = x
  /\ \A code \in 1..5 : Digit(code) \in DOMAIN Numeral /\ Numeral[Digit(code)] = code
  <1>1. /\ DOMAIN Numeral = {"0", "1", "2", "3", "4", "5", "6"}
        /\ Numeral["0"] = 0 /\ Numeral["1"] = 1 /\ Numeral["2"] = 2 /\ Numeral["3"] = 3
        /\ Numeral["4"] = 4 /\ Numeral["5"] = 5 /\ Numeral["6"] = 6
    BY DEF Numeral
  <1>2. \A code \in 0..6 : \E x \in DOMAIN Numeral :
           Numeral[x] = code /\ \A y \in DOMAIN Numeral : Numeral[y] = code => y = x
    BY <1>1
  <1>3. \A code \in 0..6 : Digit(code) \in DOMAIN Numeral /\ Numeral[Digit(code)] = code
    BY <1>2 DEF Digit
  <1>4. \A x \in DOMAIN Numeral : Numeral[x] \in 0..6
    BY <1>1
  <1>5. \A x \in DOMAIN Numeral : Digit(Numeral[x]) = x
    BY <1>2, <1>3, <1>4
  <1> QED BY <1>1, <1>3, <1>4, <1>5

(* The code of a status, and the status of a code. *)
LEMMA Codes ==
  /\ \A s \in Statuses : ToKafkaCode(s) \in 1..5 /\ FromKafkaCode(ToKafkaCode(s)) = s
  /\ \A code \in 1..5 : ToKafkaCode(FromKafkaCode(code)) = code
  <1>1. \A code \in 1..5 : \E s \in Statuses : ToKafkaCode(s) = code
    BY DEF Statuses, ToKafkaCode
  <1>2. \A s, s2 \in Statuses : ToKafkaCode(s) = ToKafkaCode(s2) => s = s2
    BY DEF Statuses, ToKafkaCode
  <1>3. \A s \in Statuses : ToKafkaCode(s) \in 1..5
    BY DEF Statuses, ToKafkaCode
  <1>4. \A code \in 1..5 : /\ FromKafkaCode(code) \in Statuses
                           /\ ToKafkaCode(FromKafkaCode(code)) = code
    BY <1>1 DEF FromKafkaCode, IsKafkaCode
  <1> QED BY <1>2, <1>3, <1>4

-----------------------------------------------------------------------------
(* What the parser makes of headers that it accepts, if one states a        *)
(* status.                                                                  *)
LEMMA ParsedIsStated ==
  ASSUME NEW hs, IsHeaders(hs), HeadersOK(hs),
         NEW i \in Having(hs, "status"), \A j \in Having(hs, "status") : j = i
  PROVE  /\ Text(hs[i]) \in DOMAIN Numeral
         /\ ToKafkaCode(ParsedStatus(hs)) = Numeral[Text(hs[i])]
         /\ First(Having(hs, "status")) = i
  <1>1. Last(Having(hs, "status")) = i /\ First(Having(hs, "status")) = i
    <2>1. Having(hs, "status") \subseteq Int
      BY DEF IsHeaders, Having
    <2> QED BY <2>1, OnlyOne
  <1>2. Text(hs[i]) \in DOMAIN Numeral /\ Numeral[Text(hs[i])] \in 1..5
    BY DEF HeadersOK, StatusCodeOK, IsKafkaCode
  <1>3. ParsedStatus(hs) = FromKafkaCode(Numeral[Text(hs[i])])
    BY <1>1 DEF ParsedStatus
  <1> QED BY <1>1, <1>2, <1>3, Codes

(* The headers of an own message: one says the status, and they are         *)
(* accepted in any order.                                                   *)
LEMMA OwnHeaders ==
  ASSUME NEW task \in Tasks, NEW hs \in Orders(ToMap(task))
  PROVE  /\ IsHeaders(hs) /\ HeadersOK(hs)
         /\ \E i \in Having(hs, "status") :
               /\ \A j \in Having(hs, "status") : j = i
               /\ Text(hs[i]) = Digit(ToKafkaCode(task.status))
  <1>s. PICK digit : digit = Digit(ToKafkaCode(task.status))
    OBVIOUS
  <1>h. PICK h : h = [key |-> "status", value |-> Plain(digit)]
    OBVIOUS
  <1>1. task.status \in Statuses
    BY DEF Tasks
  <1>2. StatusCodeOK(digit)
    BY <1>s, <1>1, Codes, Numerals DEF StatusCodeOK, IsKafkaCode
  <1>3. /\ h \in ToMap(task)
        /\ \A g \in ToMap(task) : g.key = "status" => g = h
        /\ \A g \in ToMap(task) : g.key = "trace_id" => g.value = Plain("uuid")
    <2>1. Plain(digit) # Empty
      BY DEF Plain, Empty, NotBase64
    <2>2. task.trace \in {Empty, Plain("uuid")}
      BY DEF Tasks
    <2> QED BY <1>s, <1>h, <2>1, <2>2 DEF ToMap
  <1>4. PICK n \in 0..3 : hs \in [1..n -> ToMap(task)]
    BY DEF Orders
  <1>5. /\ \A g \in ToMap(task) : \E i \in DOMAIN hs : hs[i] = g
        /\ \A i, j \in DOMAIN hs : hs[i] = hs[j] => i = j
        /\ \A i \in DOMAIN hs : hs[i] \in ToMap(task)
        /\ n \in Nat /\ DOMAIN hs = 1..n
    BY <1>4 DEF Orders
  <1>6. PICK i \in DOMAIN hs : hs[i] = h
    BY <1>3, <1>5
  <1>7. i \in Having(hs, "status") /\ \A j \in Having(hs, "status") : j = i
    BY <1>h, <1>3, <1>5, <1>6 DEF Having
  <1>8. \A text : DecodeHeaderValue(Plain(text)) = text
    BY DEF DecodeHeaderValue, Plain
  <1>9. Text(hs[i]) = digit
    BY <1>h, <1>6, <1>8 DEF Text
  <1>10. \A j \in Having(hs, "trace_id") : IsUUID(Text(hs[j]))
    BY <1>3, <1>5, <1>8 DEF Having, Text, IsUUID
  <1>11. HeadersOK(hs)
    BY <1>2, <1>7, <1>9, <1>10 DEF HeadersOK
  <1> QED BY <1>s, <1>5, <1>7, <1>9, <1>11 DEF IsHeaders

(* The handler gives an own message back the code of its task. *)
LEMMA OwnIsUnderstood ==
  ASSUME NEW task, NEW m, IsOwn(m, task)
  PROVE  Handle(m) = Accepted(ToKafkaCode(task.status))
  <1>1. PICK hs \in Orders(ToMap(task)) :
           m = [topic |-> "tasks_llm", keyOK |-> TRUE, body |-> "object", headers |-> hs]
    BY DEF IsOwn
  <1>2. task \in Tasks /\ task.status \in Statuses
    BY DEF IsOwn, Tasks
  <1>3. IsHeaders(hs) /\ HeadersOK(hs)
    BY <1>2, OwnHeaders
  <1>4. PICK i \in Having(hs, "status") :
           /\ \A j \in Having(hs, "status") : j = i
           /\ Text(hs[i]) = Digit(ToKafkaCode(task.status))
    BY <1>2, OwnHeaders
  <1>5. ToKafkaCode(ParsedStatus(hs)) = ToKafkaCode(task.status)
    <2>1. ToKafkaCode(ParsedStatus(hs)) = Numeral[Text(hs[i])]
      BY <1>3, <1>4, ParsedIsStated
    <2> QED BY <1>2, <1>4, <2>1, Codes, Numerals
  <1>6. m.topic = "tasks_llm" /\ m.keyOK /\ m.body # "bad" /\ m.headers = hs
    BY <1>1
  <1> QED BY <1>3, <1>5, <1>6 DEF Handle, HandleTaskStatusLLM

-----------------------------------------------------------------------------
LEMMA InitMessageInv == Init => MessageInv
  <1>1. IsHeaders(<< >>)
    <2>1. DOMAIN << >> = 1..0 /\ 0 \in Nat
      OBVIOUS
    <2> QED BY <2>1 DEF IsHeaders
  <1> QED BY <1>1 DEF Init, MessageInv, NoMessage

LEMMA NextMessageInv == MessageInv /\ [Next]_vars => MessageInv'
  <1> SUFFICES ASSUME MessageInv, [Next]_vars PROVE MessageInv'
    OBVIOUS
  <1>1. CASE HandleMessage
    BY <1>1 DEF HandleMessage, MessageInv
  <1>2. CASE UNCHANGED vars
    BY <1>2 DEF vars, MessageInv
  <1>3. ASSUME Receive, NEW task \in Tasks, SendOwn(task) PROVE MessageInv'
    <2>1. IsOwn(msg', task) /\ sent' = task
      BY <1>3 DEF SendOwn, IsOwn
    <2>2. PICK hs \in Orders(ToMap(task)) : msg'.headers = hs
      BY <1>3 DEF SendOwn
    <2>3. IsHeaders(msg'.headers)
      BY <2>2, OwnHeaders
    <2>4. verdict' = Unhandled
      BY <1>3 DEF Receive, MessageInv
    <2> QED BY <2>1, <2>3, <2>4 DEF MessageInv
  <1>4. CASE Receive /\ SendForeign
    <2>1. PICK n \in 0..MaxHeaders : \E hs \in [1..n -> Headers] : msg'.headers = hs
      BY <1>4 DEF SendForeign
    <2>2. n \in Nat
      BY <2>1, StatusMessageAssumption
    <2>3. IsHeaders(msg'.headers)
      BY <2>1, <2>2 DEF IsHeaders
    <2>4. verdict' = Unhandled /\ sent' = Foreign
      BY <1>4 DEF Receive, SendForeign, MessageInv
    <2> QED BY <2>3, <2>4 DEF MessageInv
  <1> QED BY <1>1, <1>2, <1>3, <1>4 DEF Next, Receive

(* A verdict is what Handle makes of the message, and a message that this   *)
(* code has sent has its task's headers, in some order.                     *)
THEOREM MessageInvariant == Spec => []MessageInv
  BY InitMessageInv, NextMessageInv, PTL DEF Spec

(* A command comes back as PENDING, a status event with the status of its   *)
(* task: whatever the order of the headers.                                 *)
THEOREM OwnMessagesAreUnderstood == Spec => []OwnMessagesComeBack
  <1>1. MessageInv => OwnMessagesComeBack
    <2> SUFFICES ASSUME MessageInv, Done, sent # Foreign
                 PROVE  verdict = Accepted(ToKafkaCode(sent.status))
      BY DEF OwnMessagesComeBack
    <2>1. verdict = Handle(msg) /\ IsOwn(msg, sent)
      BY DEF MessageInv, Done
    <2> QED BY <2>1, OwnIsUnderstood
  <1> QED BY <1>1, MessageInvariant, PTL

(* What ValidateTaskStatusLLM accepts the handler accepts, too, and with    *)
(* the same status, unless the message states several.                      *)
THEOREM TheParsersAgree == Spec => []ParsersAgree
  <1>1. MessageInv => ParsersAgree
    <2> SUFFICES ASSUME MessageInv, Done, msg.topic = "tasks_llm", ValidateTaskStatusLLM(msg).ok
                 PROVE  /\ verdict.ok
                        /\ \/ verdict = ValidateTaskStatusLLM(msg)
                           \/ \E i, j \in Having(msg.headers, "status") : i # j
      BY DEF ParsersAgree
    <2>h. PICK hs : hs = msg.headers
      OBVIOUS
    <2>1. verdict = HandleTaskStatusLLM(msg) /\ IsHeaders(hs)
      BY <2>h DEF MessageInv, Done, Handle
    <2>2. /\ msg.keyOK /\ msg.body # "bad" /\ HeadersOK(hs) /\ Having(hs, "status") # {}
          /\ ValidateTaskStatusLLM(msg)
                = Accepted(Numeral[Text(hs[First(Having(hs, "status"))])])
      BY <2>h DEF ValidateTaskStatusLLM, ValidStatus, Accepted, Rejected
    <2>3. verdict = Accepted(ToKafkaCode(ParsedStatus(hs)))
      BY <2>h, <2>1, <2>2 DEF HandleTaskStatusLLM
    <2>4. ASSUME \A i, j \in Having(hs, "status") : i = j
          PROVE  verdict = ValidateTaskStatusLLM(msg)
      <3>1. PICK i \in Having(hs, "status") : \A j \in Having(hs, "status") : j = i
        BY <2>2, <2>4
      <3>2. /\ ToKafkaCode(ParsedStatus(hs)) = Numeral[Text(hs[i])]
            /\ First(Having(hs, "status")) = i
        BY <2>1, <2>2, <3>1, ParsedIsStated
      <3> QED BY <2>2, <2>3, <3>2
    <2> QED BY <2>h, <2>3, <2>4 DEF Accepted
  <1> QED BY <1>1, MessageInvariant, PTL
=============================================================================
