--------------------------- MODULE ConsumerPromise --------------------------
(***************************************************************************)
(* What the rest of the gateway may rely on of its Kafka consumer, without *)
(* its goroutines and channels: what main needs for an orderly end, and    *)
(* what the table needs so that no event is lost.                          *)
(*                                                                         *)
(*   - the messages are handled one at a time, in their order, without a   *)
(*     gap, from the position at which the partition was assigned;         *)
(*   - without automatic commits the committed offset only moves forward,  *)
(*     and never past the message in the handler;                          *)
(*   - once Stop has returned no message is in the handler, none is read   *)
(*     and no offset is committed any more;                                *)
(*   - it neither stops nor panics before the context is cancelled.        *)
(***************************************************************************)
EXTENDS Integers

VARIABLES auto,         \* the configuration: enable.auto.commit
          end,          \* messages in the partition
          cancelled,    \* the consumer's context is done
          life,         \* "running", "stopped" (Stop has returned) or "panicked"
          hand,         \* the message in the handler, or NoMessage
          pos,          \* the next offset to be read
          committed     \* the committed offset of the group, or NoOffset

vars == <<auto, end, cancelled, life, hand, pos, committed>>

NoMessage == -1
NoOffset == -1

Init ==
    /\ auto \in BOOLEAN
    /\ end \in Nat
    /\ cancelled = FALSE
    /\ life = "running"
    /\ hand = NoMessage
    /\ committed \in 0..end \union {NoOffset}
    /\ pos = IF committed = NoOffset THEN end ELSE committed

(* The topic grows. *)
Publish ==
    /\ end' > end
    /\ UNCHANGED <<auto, cancelled, life, hand, pos, committed>>

Read ==
    /\ life = "running"
    /\ hand = NoMessage /\ pos < end
    /\ hand' = pos /\ pos' = pos + 1
    /\ UNCHANGED <<auto, end, cancelled, life, committed>>

(* The handler returns, with or without an error. *)
Finish ==
    /\ hand # NoMessage
    /\ hand' = NoMessage
    /\ UNCHANGED <<auto, end, cancelled, life, pos, committed>>

(* How far an offset may be committed. *)
Covered == IF hand # NoMessage /\ ~auto THEN hand ELSE pos

Commit ==
    /\ life = "running"
    /\ committed' \in 0..Covered
    /\ auto \/ committed' >= committed
    /\ UNCHANGED <<auto, end, cancelled, life, hand, pos>>

Cancel ==
    /\ cancelled' = TRUE
    /\ UNCHANGED <<auto, end, life, hand, pos, committed>>

Stop ==
    /\ cancelled /\ life = "running"
    /\ hand = NoMessage
    /\ life' = "stopped"
    /\ UNCHANGED <<auto, end, cancelled, hand, pos, committed>>

(* The process ends in a panic. *)
Panic ==
    /\ cancelled /\ life = "running"
    /\ life' = "panicked"
    /\ UNCHANGED <<auto, end, cancelled, hand, pos, committed>>

(* One process.  Over several of them see GroupPromise. *)
OneLifeNext == Publish \/ Read \/ Finish \/ Commit \/ Cancel \/ Stop \/ Panic
OneLife == Init /\ [][OneLifeNext]_vars
=============================================================================
