----------------------------- MODULE MCSbusReader -----------------------------
(* All channels alike: at their least, in the middle, at their greatest.   *)
EXTENDS SbusReader

TheFrames ==
    {[channels |-> [i \in 0..15 |-> v], flags |-> 0] : v \in {172, 992, 1811}}

=============================================================================
