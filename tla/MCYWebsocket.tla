---------------------------- MODULE MCYWebsocket ----------------------------
(* Small instances of YWebsocket for TLC. *)
EXTENDS YWebsocket, TLC

CONSTANTS u1, u2, u3

\* Nobody's edit builds on another one.
Flat == [u \in Updates |-> {}]

\* u2 builds on u1, whoever makes them.
Chain == [u \in Updates |-> IF u = u2 THEN {u1} ELSE {}]

\* Clients with the same rights are interchangeable.
Symmetry == Permutations(Clients \ Readers)
=============================================================================
