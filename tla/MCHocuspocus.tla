---------------------------- MODULE MCHocuspocus ----------------------------
(* Small instances of Hocuspocus for TLC.  Its liveness is checked without   *)
(* symmetry, so documents and updates are told apart.  Two edits compete for *)
(* the one a document has room for; the other document competes for the      *)
(* seat, the outbox and the socket.                                          *)
EXTENDS Hocuspocus, TLC

CONSTANTS d1, d2, u1, u2

OneEdited == (d1 :> {u1, u2}) @@ (d2 :> {})
=============================================================================
