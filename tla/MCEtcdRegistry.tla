---------------------------- MODULE MCEtcdRegistry ----------------------------
(* Model-checking instance of EtcdRegistry.                                *)
EXTENDS EtcdRegistry

CONSTANTS a1, a2, l1, l2, l3, w1, w2

MCAddresses == {a1, a2}
MCLeases == {l1, l2, l3}
MCLoops == {w1, w2}
=============================================================================
