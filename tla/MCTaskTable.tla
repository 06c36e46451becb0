----------------------------- MODULE MCTaskTable ----------------------------
EXTENDS TaskTable, TLC
CONSTANTS t1, s1, s2
MCTasks == {t1}
MCSessions == {s1, s2}
MCSymmetry == Permutations(MCSessions)
=============================================================================
