------------------------------ MODULE MCRooms ------------------------------
(* Small instances of Rooms for TLC. *)
EXTENDS Rooms, TLC

CONSTANTS u1, u2, u3

\* u2 continues u1; u3 is another client's.
MCRequires == [u \in Updates |-> IF u = u2 /\ u1 \in Updates THEN {u1} ELSE {}]

\* Sessions and room allocations are interchangeable.
Symmetry == Permutations(Sessions) \cup Permutations(RoomIds)
=============================================================================
