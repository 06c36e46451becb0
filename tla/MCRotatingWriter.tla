-------------------------- MODULE MCRotatingWriter --------------------------
EXTENDS RotatingWriter
MCLengths == {1, 2, 4}
(* No, one, two and three rotated files (rotate keeps one where none is    *)
(* asked for); the two properties about losses and sizes are about the     *)
(* configurations without the failures that they exclude.                  *)
MCConfigs ==
    {[maxFiles |-> 0, clearOnStart |-> FALSE, failures |-> AllFailures \ {"shift", "write"}],
     [maxFiles |-> 1, clearOnStart |-> FALSE, failures |-> AllFailures \ {"shift", "write"}],
     [maxFiles |-> 2, clearOnStart |-> TRUE, failures |-> AllFailures],
     [maxFiles |-> 3, clearOnStart |-> FALSE, failures |-> AllFailures \ {"shift", "write"}]}
=============================================================================
