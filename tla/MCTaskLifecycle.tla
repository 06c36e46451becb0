--------------------------- MODULE MCTaskLifecycle --------------------------
EXTENDS TaskLifecycle, TLC
CONSTANTS t1, r1, r2
MCOneTask == {t1}
MCReplicas == {r1, r2}
MCOneReplica == {r1}
MCNone == {}
MCLossless == {"update_fails", "delete_fails", "crash"}
MCRestart == {"restart"}
MCMoves == {"restart", "rebalance", "db_fails"}
=============================================================================
