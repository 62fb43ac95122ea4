------------------------------ MODULE MCPidLock ------------------------------
(* Three instances and one stop command.                                   *)
EXTENDS PidLock, TLC

CONSTANTS i1, i2, i3, s1

Three == {i1, i2, i3}
OneStopper == {s1}
CrashOrClean == {"crash", "clean"}
Symmetry == Permutations(Instances)

=============================================================================
