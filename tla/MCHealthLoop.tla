---------------------------- MODULE MCHealthLoop ----------------------------
(* A model-checking instance of HealthLoop on its own.                     *)
EXTENDS HealthLoop

CONSTANTS c1, c2, o1, o2

MCCallers == {c1, c2}
MCClients == {o1, o2}
=============================================================================
