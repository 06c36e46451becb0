----------------------------- MODULE TaskStatus -----------------------------
(***************************************************************************)
(* The life-cycle states of a task and the integer codes that stand for   *)
(* them in the "status" header of a Kafka message                          *)
(* (internal/entity/domain/task.go).                                       *)
(***************************************************************************)
EXTENDS Integers

Statuses == {"PENDING", "PROCESSING", "COMPLETED", "FAILED", "CANCELLED"}

(* The zero value of the Go type: what a parser returns that saw no status. *)
NoStatus == ""

FinalStatuses == {"COMPLETED", "FAILED"}

(* ToKafkaCode: the default branch gives the code of FAILED. *)
ToKafkaCode(s) ==
    CASE s = "PENDING"    -> 1
      [] s = "PROCESSING" -> 2
      [] s = "COMPLETED"  -> 3
      [] s = "FAILED"     -> 4
      [] s = "CANCELLED"  -> 5
      [] OTHER            -> 4

(* FromKafkaCode returns (status, ok). *)
IsKafkaCode(code) == code \in 1..5

FromKafkaCode(code) ==
    IF IsKafkaCode(code)
    THEN CHOOSE s \in Statuses : ToKafkaCode(s) = code
    ELSE "FAILED"
=============================================================================
