----------------------------- MODULE MCTaskIntake ---------------------------
EXTENDS TaskIntake, TLC
CONSTANTS t1, t2
MCTasks == {t1, t2}
(* The faults that no property excuses: with these, each of them says what  *)
(* it says.  The others are in the run of the whole life of a task.         *)
MCFaults == {"crash", "insert_lost", "upload_lost"}
MCPlainFaults == {"crash"}
=============================================================================
