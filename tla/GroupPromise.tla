---------------------------- MODULE GroupPromise ----------------------------
(***************************************************************************)
(* What the table may rely on of the consumer group, over all the lives of *)
(* all its processes: a ConsumerPromise, continued wherever the partition  *)
(* is assigned anew.                                                       *)
(*                                                                         *)
(*   - the messages are handled one at a time, in their order, without a   *)
(*     gap, from the offset that was committed at the assignment;          *)
(*   - as long as no process lives on that has lost the partition with     *)
(*     messages still to be committed, a manual commit only moves forward  *)
(*     and never past what has been handled since; later it may be any     *)
(*     message whose handler has once returned;                            *)
(*   - hence an assignment passes over a message, reading on after it      *)
(*     though it has not been handled since the last one, only because of  *)
(*     an automatic commit, of such a late one, or for want of a committed *)
(*     offset.                                                             *)
(*                                                                         *)
(* done and passed name a message by the offset that a commit of it would  *)
(* write, which is one more than its own.                                  *)
(***************************************************************************)
EXTENDS ConsumerPromise

VARIABLES done,         \* the farthest message whose handler has returned
          moved,        \* a process that lost the partition may still commit
          passed        \* the messages that an assignment has passed over

groupVars == <<vars, done, moved, passed>>

(* Everything before it has been handled since the last assignment. *)
Past == IF hand = NoMessage THEN pos ELSE hand

GroupInit ==
    /\ Init
    /\ done = pos /\ moved = FALSE /\ passed = {}

(* The handler returns. *)
Return ==
    /\ Finish
    /\ done' = IF hand + 1 > done THEN hand + 1 ELSE done
    /\ UNCHANGED <<moved, passed>>

CommitLimit ==
    IF auto /\ pos > done THEN pos
    ELSE IF auto \/ moved THEN done ELSE Past

GroupCommit ==
    /\ committed' \in 0..CommitLimit
    /\ auto \/ moved \/ committed' >= committed
    /\ UNCHANGED <<auto, end, cancelled, life, hand, pos, done, moved, passed>>

(* The partition is assigned anew: it is read on from the committed offset *)
(* or, without one, from the end.                                          *)
Rejoin ==
    /\ hand' = NoMessage
    /\ pos' = IF committed = NoOffset THEN end ELSE committed
    /\ passed' = passed \union (Past + 1)..pos'
    /\ moved => moved'
    /\ UNCHANGED <<auto, end, cancelled, life, committed, done>>

GroupNext ==
    \/ (Publish \/ Read) /\ UNCHANGED <<done, moved, passed>>
    \/ Return \/ GroupCommit \/ Rejoin

Group == GroupInit /\ [][GroupNext]_groupVars
=============================================================================
