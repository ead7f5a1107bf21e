----------------------------- MODULE MCLanePool -----------------------------
(* Small instances of LanePool for TLC. *)
EXTENDS LanePool, TLC

CONSTANTS r1, r2, r3, o1

\* Three requests to one server.
OneServer == [r \in Requests |-> o1]

Alike == Permutations(Requests)

=============================================================================
