----------------------------- MODULE MCDiscovery -----------------------------
(* Model-checking instances of Discovery.                                  *)
EXTENDS Discovery

CONSTANTS loop, sub, n1

MCNudges == {n1}
=============================================================================
