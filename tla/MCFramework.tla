------------------------------ MODULE MCFramework ------------------------------
(* Model-checking instances of Framework.                                  *)
EXTENDS Framework

CONSTANTS k1, k2, k3

MCComponents == {k1, k2, k3}
MCEnabled == {k1, k2}
(* One server, one data store and metrics besides the logger.              *)
MCConfigured == {"logger", "metrics", "grpcServer", "redis"}
=============================================================================
