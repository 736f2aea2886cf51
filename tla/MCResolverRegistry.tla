-------------------------- MODULE MCResolverRegistry --------------------------
(* Model-checking instances of ResolverRegistry.                           *)
EXTENDS ResolverRegistry, TLC

CONSTANTS m1, m2, cl1, cl2, d1, d2, d3, keyA, keyB

MCManagers == {m1, m2}
MCClients == {cl1, cl2}
MCDiscoveries == {d1, d2, d3}
(* Two discoveries of one configuration and one of another.                *)
MCKeyOf == [d \in MCDiscoveries |-> IF d = d3 THEN keyB ELSE keyA]
Symmetry == Permutations(MCManagers) \cup Permutations(MCClients)
             \cup Permutations({d1, d2})
=============================================================================
