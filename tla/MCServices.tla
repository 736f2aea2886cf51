------------------------------ MODULE MCServices ------------------------------
(***************************************************************************)
(* Model-checking instances of the framework's lifecycle and of the        *)
(* subsystems a program runs on: the servers, the data stores, the load    *)
(* balancer, the rate limiters and the retry loop.  They are checked one   *)
(* at a time: `part' says which of them a behaviour is about, and the      *)
(* others stay in one of their initial states.                             *)
(***************************************************************************)
EXTENDS Servers, Integers, TLC

CONSTANTS
  Components, Enabled, Configured,
  Boot, Names, NoName, Configs, Replicas, MaxClients,
  Addresses, Weights, maxServiceWeight,
  Capacity, Rate, Window, Amounts, MaxTime,
  MaxAttempts, InitialDelays, MaxDelays, Largest

VARIABLES
  part,
  initializing, initialized, started, frameworkStopped, stopping,
  handles, componentOrder, initializedComponentOrder, op, todo, stopFailed, up, runningUnits,
  storeKind, configs, allow, phase, clients, unavailable, closed, made, open, stuck, lost,
  storePc, name, own, slaves, slaveDialectors, storeTaken, result,
  configured, ready, current, picks,
  limiterKind, now, tokens, lastRefill, timestamps, waiting, granted,
  initial, max, jitter, attempt, outcomes, delay, waits, cancelled, retryResult

frameworkVars == <<initializing, initialized, started, frameworkStopped, stopping, handles,
                   componentOrder, initializedComponentOrder, op, todo, stopFailed, up,
                   runningUnits>>
storeVars == <<storeKind, configs, allow, phase, clients, unavailable, closed, made, open, stuck,
               lost, storePc, name, own, slaves, slaveDialectors, storeTaken, result>>
balancerVars == <<configured, ready, current, picks>>
limiterVars == <<limiterKind, now, tokens, lastRefill, timestamps, waiting, granted>>
retryVars == <<initial, max, jitter, attempt, outcomes, delay, waits, cancelled, retryResult>>
allVars == <<part, vars, frameworkVars, storeVars, balancerVars, limiterVars, retryVars>>

FW == INSTANCE Framework WITH
  stopped <- frameworkStopped, failed <- stopFailed, running <- runningUnits
DS == INSTANCE DataStores WITH kind <- storeKind, pc <- storePc, taken <- storeTaken
Bal == INSTANCE Balancer WITH Configured <- Weights
RL == INSTANCE RateLimiters WITH kind <- limiterKind
Rt == INSTANCE Retry WITH result <- retryResult

(* Where a component has many initial states, the behaviours that are not  *)
(* about it take one of them.                                              *)
ModelInit ==
  /\ part \in {"framework", "servers", "stores", "balancer", "limiters", "retry"}
  /\ FW!Init
  /\ Init /\ (part = "servers" \/ kind = "http")
  /\ DS!Init /\ (part = "stores" \/ (storeKind = "redis" /\ configs = <<>> /\ ~allow))
  /\ RL!Init /\ (part = "limiters" \/ limiterKind = "bucket")
  /\ Rt!Init /\ (part = "retry" \/ (initial = 1 /\ max = 2 /\ ~jitter))
  /\ Bal!Init /\ (part = "balancer" \/ \A a \in Addresses : configured[a] = 1)

ModelNext ==
  /\ UNCHANGED part
  /\ \/ /\ part = "framework" /\ FW!Next
        /\ UNCHANGED <<vars, storeVars, balancerVars, limiterVars, retryVars>>
     \/ /\ part = "servers" /\ Next
        /\ UNCHANGED <<frameworkVars, storeVars, balancerVars, limiterVars, retryVars>>
     \/ /\ part = "stores" /\ DS!Next
        /\ UNCHANGED <<frameworkVars, vars, balancerVars, limiterVars, retryVars>>
     \/ /\ part = "balancer" /\ Bal!Next
        /\ UNCHANGED <<frameworkVars, vars, storeVars, limiterVars, retryVars>>
     \/ /\ part = "limiters" /\ RL!Next
        /\ UNCHANGED <<frameworkVars, vars, storeVars, balancerVars, retryVars>>
     \/ /\ part = "retry" /\ Rt!Next
        /\ UNCHANGED <<frameworkVars, vars, storeVars, balancerVars, limiterVars>>

ModelSpec == ModelInit /\ [][ModelNext]_allVars

ASSUME ServicesAssumption == FW!LifecycleAssumption
ASSUME StoresFit == DS!StoreAssumption
ASSUME LimiterFits == RL!LimiterAssumption
ASSUME BalancerFits == Bal!BalancerAssumption
ASSUME RetryFits == Rt!RetryAssumption

NothingLeftBehind == FW!NothingLeftBehind
NoDoubleStopNoDoubleInit == FW!NoDoubleStopNoDoubleInit
StopsComponentsInReverse == FW!StopsComponentsInReverse
ClientsAreKept == DS!ClientsAreKept
CloseTellsTheTruth == DS!CloseTellsTheTruth
SharesAreFair == Bal!SharesAreFair
NobodyLags == Bal!NobodyLags
LimitHolds == RL!LimitHolds
LoopFollowsBackoff == Rt!LoopFollowsBackoff

CONSTANTS k1, k2, k3, c1, c2, n1, n2, r1, r2

MCComponents == {k1, k2, k3}
MCEnabled == {k1, k2}
(* One server, one data store and metrics besides the logger.              *)
MCConfigured == {"logger", "metrics", "grpcServer", "redis"}
MCCallers == {c1, c2}
MCNames == {n1, n2}
MCConfigs == {<<>>, <<n1>>, <<n1, n2>>, <<n1, n1>>, <<n1, NoName>>}
MCReplicas == {r1, r2}
MCSymmetry == Permutations(MCCallers) \cup Permutations(MCReplicas)
MCAddresses == 1..4
MCWeights == -1..5
MCAmounts == 0..3
MCInitial == {1, 3, 4}
MCMax == {2, 5, 12}
=============================================================================
