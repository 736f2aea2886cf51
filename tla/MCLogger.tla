------------------------------ MODULE MCLogger ------------------------------
(* Model-checking instances of Logger.                                     *)
EXTENDS Logger

CONSTANTS g1, g2, l1, l2

MCGoroutines == {g1, g2}
MCLoggers == {l1, l2}
MCMaxEntries == [g \in MCGoroutines |-> IF g = g1 THEN 2 ELSE 1]
=============================================================================
