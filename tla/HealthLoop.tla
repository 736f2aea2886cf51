------------------------------ MODULE HealthLoop ------------------------------
(***************************************************************************)
(* The background health check of the client manager (grpc_client.go):     *)
(* StartHealthCheck and StopHealthCheck, called by several goroutines, the *)
(* loops they start and cancel, and what a loop does with the clients of a *)
(* pool.                                                                   *)
(*                                                                         *)
(* StopHealthCheck gives up m.mu before it waits, and it waits on a        *)
(* WaitGroup that all loops share: a StartHealthCheck in between adds a    *)
(* loop that the waiting Stop has not cancelled.                           *)
(***************************************************************************)
EXTENDS Naturals, FiniteSets

CONSTANTS
  Callers,     \* goroutines that start and stop the check
  Clients,     \* the clients of the pool
  MaxLoops     \* bound: loops started in a behaviour

Loops == 1..MaxLoops

VARIABLES
  started,     \* loops started so far
  current,     \* the loop m.healthCheckCancel cancels, 0 when none is running
  cancelled,   \* loops whose context is cancelled
  ended,       \* loops that have returned
  at,          \* per caller: "idle", "taken", "cancelled", "waiting" or "woken"
  taken,       \* per caller: the loop it has taken the cancel function of
  joined,      \* callers on whose WaitGroup a loop was added before it let them go
  link,        \* the connection of each client: "ready", "idle", "shutdown"
  unhealthy    \* pool.unhealthy

loops == <<started, current, cancelled, ended>>
stops == <<at, taken, joined>>
pool == <<link, unhealthy>>
vars == <<loops, stops, pool>>

Init ==
  /\ started = 0 /\ current = 0 /\ cancelled = {} /\ ended = {}
  /\ at = [p \in Callers |-> "idle"] /\ taken = [p \in Callers |-> 0] /\ joined = {}
  /\ link = [c \in Clients |-> "ready"] /\ unhealthy = {}

running == current # 0

(* The WaitGroup's counter: loops that have not returned.                  *)
Alive == 1..started \ ended

(* StartHealthCheck, with an interval above zero.                          *)
MayStartAlways == TRUE
MayStart == ~running

StartHealthCheck(p) ==
  /\ at[p] = "idle"
  /\ MayStart /\ started < MaxLoops
  /\ started' = started + 1 /\ current' = started + 1
  /\ joined' = joined \cup {q \in Callers : at[q] \in {"taken", "cancelled", "waiting"}}
  /\ UNCHANGED <<cancelled, ended, at, taken, pool>>

(* StopHealthCheck takes the cancel function under the lock, then calls    *)
(* it, then waits; a Wait that finds the counter at zero returns at once.  *)
StopHealthCheck(p) ==
  /\ at[p] = "idle" /\ running
  /\ current' = 0
  /\ taken' = [taken EXCEPT ![p] = current]
  /\ at' = [at EXCEPT ![p] = "taken"]
  /\ UNCHANGED <<started, cancelled, ended, joined, pool>>
CancelCurrent(p) ==
  /\ at[p] = "taken"
  /\ cancelled' = cancelled \cup ({current} \ {0})
  /\ at' = [at EXCEPT ![p] = "cancelled"]
  /\ UNCHANGED <<started, current, ended, taken, joined, pool>>
Cancel(p) ==
  /\ at[p] = "taken"
  /\ cancelled' = cancelled \cup {taken[p]}
  /\ at' = [at EXCEPT ![p] = "cancelled"]
  /\ UNCHANGED <<started, current, ended, taken, joined, pool>>
Return(p) ==
  /\ at[p] = "woken" \/ (at[p] = "cancelled" /\ Alive = {})
  /\ at' = [at EXCEPT ![p] = "idle"]
  /\ taken' = [taken EXCEPT ![p] = 0]
  /\ joined' = joined \ {p}
  /\ UNCHANGED <<loops, pool>>
Wait(p) ==
  /\ at[p] = "cancelled" /\ Alive # {}
  /\ at' = [at EXCEPT ![p] = "waiting"]
  /\ UNCHANGED <<loops, taken, joined, pool>>

(* healthCheckLoop: a cancelled loop returns; it may tick once more before *)
(* it does, as select takes either of two ready cases.  The loop that      *)
(* brings the counter to zero wakes every waiter in the same moment.       *)
Woken(alive) == IF alive = {} THEN {p \in Callers : at[p] = "waiting"} ELSE {}

LoopEnds(l) ==
  /\ l \in Alive \cap cancelled
  /\ ended' = ended \cup {l}
  /\ at' = [p \in Callers |-> IF p \in Woken(Alive \ {l}) THEN "woken" ELSE at[p]]
  /\ UNCHANGED <<started, current, cancelled, taken, joined, pool>>

(* checkPoolHealth, under the lock of the pool: clients that can never be  *)
(* used again are noted; one that is merely idle is asked to connect.      *)
Unusable == {c \in Clients : link[c] = "shutdown"}
Reconnecting == {c \in Clients : link[c] = "idle"}

Tick(l) ==
  /\ l \in Alive
  /\ unhealthy' = Unusable
  /\ \E back \in SUBSET Reconnecting :
        link' = [c \in Clients |-> IF c \in back THEN "ready" ELSE link[c]]
  /\ UNCHANGED <<loops, stops>>

(* A connection goes idle or loses its server; or somebody closes it.      *)
LinkFails(c) ==
  /\ \/ link[c] = "ready" /\ link' = [link EXCEPT ![c] = "idle"]
     \/ link[c] # "shutdown" /\ link' = [link EXCEPT ![c] = "shutdown"]
  /\ UNCHANGED <<loops, stops, unhealthy>>

Next ==
  \/ \E p \in Callers :
        StartHealthCheck(p) \/ StopHealthCheck(p) \/ Cancel(p) \/ Wait(p) \/ Return(p)
  \/ \E l \in Loops : LoopEnds(l) \/ Tick(l)
  \/ \E c \in Clients : LinkFails(c)

Spec == Init /\ [][Next]_vars

(* A stop that has begun goes on, a ticker ticks, and a loop sees that its *)
(* context is cancelled (the ticks left to it are finite).  Nobody has to  *)
(* start or stop anything, and connections need not fail.                  *)
Fairness ==
  /\ \A p \in Callers : WF_vars(Cancel(p)) /\ WF_vars(Wait(p) \/ Return(p))
  /\ \A l \in Loops : WF_vars(LoopEnds(l)) /\ WF_vars(Tick(l))

FairSpec == Spec /\ Fairness

----------------------------------------------------------------------------
(* However starts and stops overlap: the only loop that is neither         *)
(* cancelled nor about to be is the one the next Stop will cancel, and     *)
(* there is one exactly while the check is on.  A loop that nobody can     *)
(* cancel would tick for ever.  (grpc_client.go:632-672.)                  *)
OneLoopToCancel ==
  1..started \ (cancelled \cup {taken[p] : p \in Callers}) = {current} \ {0}

(* A stop returns, and then its own loop has ended, unless another loop    *)
(* was started while it waited: that one it has not cancelled and may have *)
(* to wait for as long as it runs.  (grpc_client.go:655-672.)              *)
StopReturns ==
  \A p \in Callers : (at[p] # "idle") ~> (at[p] = "idle" \/ p \in joined)

(* A connection that can never be used again is noted, for as long as the  *)
(* check stays on.  (grpc_client.go:705-730.)                              *)
UnusableIsNoted ==
  \A c \in Clients : (link[c] = "shutdown" /\ running) ~> (c \in unhealthy \/ ~running)

(* The check comes to its ends: a stop returns, a dead connection is noted.*)
LoopServes == StopReturns /\ UnusableIsNoted

(* A woken Wait finds the counter still at zero: where a start has added a *)
(* loop in between, Go's WaitGroup panics ("WaitGroup is reused before     *)
(* previous Wait has returned").  StopHealthCheck is said to stop the      *)
(* check.  (grpc_client.go:654 and 670.)                                   *)
WaitGroupNotReused == \A p \in Callers : at[p] = "woken" => Alive = {}
=============================================================================
