------------------------------ MODULE MCLifecycle ------------------------------
(***************************************************************************)
(* Model-checking instances of what runs beside the requests of a program: *)
(* the shutdown manager, the health checker and the client manager's       *)
(* health-check loop.  They are checked one at a time: `part' says which   *)
(* of them a behaviour is about, and the others stay in their initial      *)
(* states.                                                                 *)
(***************************************************************************)
EXTENDS ShutdownManager

CONSTANTS Users, Checks, MaxConcurrent, MaySay, Clients, MaxLoops

VARIABLES
  part,
  checks, slots, job, said, stray, lastResult, ready,
  started, cancelling, cancelled, ended, at, taken, joined, link, unhealthy

healthVars == <<checks, slots, job, said, stray, lastResult, ready>>
loopVars == <<started, cancelling, cancelled, ended, at, taken, joined, link, unhealthy>>
allVars == <<part, vars, healthVars, loopVars>>

H == INSTANCE HealthChecker WITH Callers <- Users
L == INSTANCE HealthLoop WITH Callers <- Users, current <- cancelling

ASSUME HealthFits == H!HealthAssumption

ModelInit ==
  /\ part \in {"shutdown", "health", "loop"}
  /\ Init /\ H!Init /\ L!Init

InShutdown(A) == part = "shutdown" /\ A /\ UNCHANGED <<part, healthVars, loopVars>>
InHealth(A) == part = "health" /\ A /\ UNCHANGED <<part, vars, loopVars>>
InLoop(A) == part = "loop" /\ A /\ UNCHANGED <<part, vars, healthVars>>

ModelNext ==
  \/ part = "shutdown" /\ Next /\ UNCHANGED <<part, healthVars, loopVars>>
  \/ part = "health" /\ H!Next /\ UNCHANGED <<part, vars, loopVars>>
  \/ part = "loop" /\ L!Next /\ UNCHANGED <<part, vars, healthVars>>

(* The fairness of each component, for its own behaviours.                 *)
ModelFairness ==
  /\ WF_allVars(InShutdown(StartHook)) /\ WF_allVars(InShutdown(HookTimesOut))
  /\ WF_allVars(InShutdown(Finish))
  /\ \A g \in Goroutines :
       WF_allVars(InShutdown(EnterOnce(g))) /\ WF_allVars(InShutdown(Return(g)))
  /\ \A w \in Waiters : WF_allVars(InShutdown(SeeDone(w)))
  /\ \A c \in Users :
       /\ WF_allVars(InHealth(H!Publish(c)))
       /\ \A n \in Checks : WF_allVars(InHealth(H!Progress(c, n)))
  /\ \A p \in Users :
       WF_allVars(InLoop(L!Cancel(p))) /\ WF_allVars(InLoop(L!Wait(p) \/ L!Return(p)))
  /\ \A l \in L!Loops : WF_allVars(InLoop(L!LoopEnds(l))) /\ WF_allVars(InLoop(L!Tick(l)))

ModelSpec == ModelInit /\ [][ModelNext]_allVars /\ ModelFairness

RunningBounded == H!RunningBounded
ReadyIsEarned == H!ReadyIsEarned
ChecksReturn == H!ChecksReturn
OneLoopToCancel == L!OneLoopToCancel
LoopServes == L!LoopServes

CONSTANTS h1, h2, h3, c1, c2, w1, w2, k1, k2, o1

MCHooks == {h1, h2, h3}
(* Two hooks of one priority and one that goes before them.                *)
MCPriority == [h \in MCHooks |-> IF h = h1 THEN 0 ELSE 1]
MCCallers == {c1}
MCWaiters == {w1, w2}
MCUsers == {c1, c2}
MCChecks == {k1, k2}
(* One check that may leave its status out, and one that grades it.        *)
MCMaySay == [k \in MCChecks |-> IF k = k1 THEN {"unknown"} ELSE {"healthy", "degraded"}]
MCClients == {o1}
=============================================================================
