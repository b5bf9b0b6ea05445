----------------------------- MODULE MCMetering -----------------------------
(* A small instance of Metering for TLC. Its documents and admissions are      *)
(* interchangeable, but liveness is not checked under symmetry.                *)
EXTENDS Metering
=============================================================================
