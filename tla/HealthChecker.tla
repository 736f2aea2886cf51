---------------------------- MODULE HealthChecker ----------------------------
(***************************************************************************)
(* HealthChecker of lifecycle/health.go: callers of Check, CheckOne and    *)
(* IsReady run the registered checks, at most MaxConcurrent at a time over *)
(* all calls.  Each check runs in a goroutine that holds a slot until it   *)
(* returns; the call that started it waits no longer than the timeout, and *)
(* a check that ignores its context runs on as a stray with its slot.      *)
(***************************************************************************)
EXTENDS Integers, FiniteSets

CONSTANTS
  Callers, Checks, MaxConcurrent,
  MaySay   \* the statuses that each check, code of the program's user, may return

(* "unknown" is the zero value: a check that fills in no status says so.   *)
Statuses == {"unknown", "healthy", "degraded", "unhealthy"}

HealthAssumption == MaxConcurrent \in Nat /\ MaySay \in [Checks -> SUBSET Statuses]

VARIABLES
  checks,      \* the registered checks
  slots,       \* the slots in use
  job,         \* of each call and check: "none", "todo", "waiting", "running" or a status
  said,        \* history: what the check itself said in this call, or "nothing"
  stray,       \* of each check, how many run on unwatched
  lastResult,
  ready        \* what IsReady made of the results: "asking", "yes", "no"

vars == <<checks, slots, job, said, stray, lastResult, ready>>

Init ==
  /\ checks = {} /\ slots = 0
  /\ job = [c \in Callers |-> [n \in Checks |-> "none"]]
  /\ said = [c \in Callers |-> [n \in Checks |-> "nothing"]]
  /\ stray = [n \in Checks |-> 0]
  /\ lastResult = [n \in Checks |-> "none"]
  /\ ready = [c \in Callers |-> "asking"]

Asked(c) == {n \in Checks : job[c][n] # "none"}
Idle(c) == Asked(c) = {}
Answered(c) == \A n \in Asked(c) : job[c][n] \in Statuses
Set(c, n, s) == job' = [job EXCEPT ![c][n] = s]

-----------------------------------------------------------------------------
Register(n) ==
  /\ checks' = checks \cup {n}
  /\ UNCHANGED <<slots, job, said, stray, lastResult, ready>>

(* Check and IsReady take a snapshot of the checks, CheckOne one of them.  *)
Check(c) ==
  /\ Idle(c)
  /\ \E asked \in {checks} \cup {{n} : n \in checks} :
       job' = [job EXCEPT ![c] = [n \in Checks |-> IF n \in asked THEN "todo" ELSE "none"]]
  /\ ready' = [ready EXCEPT ![c] = "asking"]
  /\ UNCHANGED <<checks, slots, said, stray, lastResult>>

(* A call has no more workers than there are slots.                        *)
Busy(c) == {n \in Checks : job[c][n] \in {"waiting", "running"}}
Begin(c, n) ==
  /\ job[c][n] = "todo" /\ Cardinality(Busy(c)) < MaxConcurrent
  /\ Set(c, n, "waiting")
  /\ UNCHANGED <<checks, slots, said, stray, lastResult, ready>>

(* runCheck: the slot, or the timeout.                                     *)
Acquire(c, n) ==
  /\ job[c][n] = "waiting" /\ slots < MaxConcurrent
  /\ slots' = slots + 1
  /\ Set(c, n, "running")
  /\ UNCHANGED <<checks, said, stray, lastResult, ready>>

(* Mutant: what is not known to have failed is not unhealthy.              *)
LateIsDegraded == "degraded"
Late == "unhealthy"

NoSlot(c, n) ==
  /\ job[c][n] = "waiting"
  /\ Set(c, n, Late)
  /\ UNCHANGED <<checks, slots, said, stray, lastResult, ready>>

(* The check returns in time, or panics, which makes it unhealthy.         *)
Returns(c, n) ==
  /\ job[c][n] = "running"
  /\ \E s \in MaySay[n] \cup {"unhealthy"} : Set(c, n, s) /\ said' = [said EXCEPT ![c][n] = s]
  /\ slots' = slots - 1
  /\ UNCHANGED <<checks, stray, lastResult, ready>>

(* Its time is up.  Mutants: the call gives the slot back; it waits.       *)
SlotGivenBack == slots' = slots - 1
SlotKept == UNCHANGED slots

TimesOutNever(c, n) == FALSE
TimesOut(c, n) == job[c][n] = "running"

Timeout(c, n) ==
  /\ TimesOut(c, n)
  /\ Set(c, n, Late)
  /\ stray' = [stray EXCEPT ![n] = @ + 1]
  /\ SlotKept
  /\ UNCHANGED <<checks, said, lastResult, ready>>

StrayReturns(n) ==
  /\ stray[n] > 0
  /\ stray' = [stray EXCEPT ![n] = @ - 1]
  /\ slots' = slots - 1
  /\ UNCHANGED <<checks, job, said, lastResult, ready>>

(* All have answered: the cache is updated and the call returns.  IsReady  *)
(* looks for an unhealthy result only.                                     *)
IsReady(c) == \A n \in Asked(c) : job[c][n] # "unhealthy"
Publish(c) ==
  /\ ~Idle(c) /\ Answered(c)
  /\ lastResult' = [n \in Checks |-> IF n \in Asked(c) THEN job[c][n] ELSE lastResult[n]]
  /\ ready' = [ready EXCEPT ![c] = IF IsReady(c) THEN "yes" ELSE "no"]
  /\ job' = [job EXCEPT ![c] = [n \in Checks |-> "none"]]
  /\ said' = [said EXCEPT ![c] = [n \in Checks |-> "nothing"]]
  /\ UNCHANGED <<checks, slots, stray>>

Progress(c, n) == Begin(c, n) \/ Acquire(c, n) \/ NoSlot(c, n) \/ Timeout(c, n)
Next ==
  \/ \E n \in Checks : Register(n) \/ StrayReturns(n)
  \/ \E c \in Callers : Check(c) \/ Publish(c)
  \/ \E c \in Callers, n \in Checks : Progress(c, n) \/ Returns(c, n)

Spec == Init /\ [][Next]_vars

(* Workers work and timers fire; checks need never return.                 *)
Fairness ==
  \A c \in Callers :
    WF_vars(Publish(c)) /\ \A n \in Checks : WF_vars(Progress(c, n))

FairSpec == Spec /\ Fairness

-----------------------------------------------------------------------------
(* MaxConcurrent bounds the checks that really run, those that outlive     *)
(* their call included, and no slot is lost: what is in use is held by a   *)
(* check that has not returned.                                            *)
Watched == {p \in Callers \X Checks : job[p[1]][p[2]] = "running"}
Strays == {p \in Checks \X (1..MaxConcurrent) : p[2] <= stray[p[1]]}

RunningBounded ==
  /\ slots <= MaxConcurrent
  /\ slots = Cardinality(Watched) + Cardinality(Strays)
  /\ \A n \in Checks : stray[n] <= MaxConcurrent

(* A check that hangs, or finds no slot because others hang, makes nobody  *)
(* ready: each check asked has itself answered within this call, and has   *)
(* not said that it is unhealthy.  (A check that says nothing of its       *)
(* status, the zero value, does not stand in the way:                      *)
(* lifecycle/health.go:302-313.)                                           *)
ReadyIsEarned ==
  [][ \A c \in Callers : (ready'[c] = "yes" /\ ready[c] # "yes") =>
        \A n \in Asked(c) : said[c][n] \in {"unknown", "healthy", "degraded"} ]_vars

(* Every call returns, though checks hang and hold all slots for ever.     *)
ChecksReturn == \A c \in Callers : ~Idle(c) ~> Idle(c)
=============================================================================
