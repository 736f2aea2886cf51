------------------------------- MODULE MCClients -------------------------------
(***************************************************************************)
(* Model-checking instances of the client side of gRPC: the registrations  *)
(* of resolvers, the client manager and the stand-alone client.  They are  *)
(* checked one at a time: `part' says which of them a behaviour is about,  *)
(* and the others stay in their initial states.                            *)
(***************************************************************************)
EXTENDS ResolverRegistry, TLC

CONSTANTS
  Services, Getters, Connectors, Pools, MaxGeneration, MaxFlights,
  Objects, ConfigOf, Callers, MaxConns

VARIABLES
  part,
  services, clientPools, generation, poolState, flights, calls, connects, doomed,
  outside, shut,
  entry, discoveries, stage, own, lent, conn, open, dialled, call, stranded,
  overtaken

CM == INSTANCE ClientManager
GC == INSTANCE GrpcClient

ASSUME ManagerFits == CM!ManagerAssumption
ASSUME ClientFits == GC!ClientAssumption

managerVars == <<services, clientPools, generation, poolState, flights, calls, connects, doomed,
                 outside, shut>>
clientVars == <<entry, discoveries, stage, own, lent, conn, open, dialled, call,
                stranded, overtaken>>

ModelInit ==
  /\ part \in {"resolvers", "manager", "client"}
  /\ Init /\ CM!Init /\ GC!Init

ModelNext ==
  /\ UNCHANGED part
  /\ \/ part = "resolvers" /\ Next /\ UNCHANGED <<managerVars, clientVars>>
     \/ part = "manager" /\ CM!Next /\ UNCHANGED <<vars, clientVars>>
     \/ part = "client" /\ GC!Next /\ UNCHANGED <<vars, managerVars>>

ModelSpec == ModelInit /\ [][ModelNext]_<<part, vars, managerVars, clientVars>>

NoPoolLeaks == CM!NoPoolLeaks
NoPoolFromThePast == CM!NoPoolFromThePast
ReturnedClientIsOfItsCall == CM!ReturnedClientIsOfItsCall
ReferencesBalanced == GC!ReferencesBalanced
ConnectionsAreOwned == GC!ConnectionsAreOwned

CONSTANTS m1, m2, cl1, cl2, d1, d2, d3, keyA, keyB, s1, g1, g2, x1, p1, p2, p3, o1, o2, o3

MCManagers == {m1, m2}
MCClientIds == {cl1, cl2}
MCDiscoveries == {d1, d2, d3}
(* Two discoveries of one configuration and one of another.                *)
MCKeyOf == [d \in MCDiscoveries |-> IF d = d3 THEN keyB ELSE keyA]
MCServices == {s1}
MCGetters == {g1, g2}
MCConnectors == {x1}
MCPools == {p1, p2, p3}
MCObjects == {o1, o2, o3}
(* Two stand-alone clients of one configuration and one of another.        *)
MCConfigOf == [o \in MCObjects |-> IF o = o3 THEN keyB ELSE keyA]

Symmetry == Permutations(MCGetters) \cup Permutations(MCPools)
=============================================================================
