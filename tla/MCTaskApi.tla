------------------------------ MODULE MCTaskApi -----------------------------
EXTENDS TaskApi, TLC
CONSTANTS t1, r1, r2
MCTasks == {t1}
MCReplicas == {r1, r2}
MCAllFaults == AllFaults
MCAllHiccups == AllHiccups
(* The replicas differ in nothing but their names, and no liveness property *)
(* is checked with them interchanged.                                       *)
MCSymmetry == Permutations(MCReplicas)
(* No property of the run is about the histories, and what is committed    *)
(* after the last assignment has no effect any more.                       *)
MCView ==
    <<intakeVars, workerVars, owner, pos, moves, job, polled, shown,
      IF moves < MaxMoves THEN <<read, committed, batch>> ELSE << >>>>
=============================================================================
