---------------------------- MODULE CircuitBreaker ----------------------------
(***************************************************************************)
(* The circuit breaker of resilience/circuitbreaker.go and the gRPC client *)
(* interceptors of resilience/interceptor.go that consult it.              *)
(*                                                                         *)
(* Every method of CircuitBreaker runs under cb.mu, so each is one step.   *)
(* The calls it guards run outside the lock: between the Allow of a call   *)
(* and the verdict the call records, the breaker may have changed state    *)
(* any number of times.  That gap is what this module is about.            *)
(*                                                                         *)
(* A unary call (Execute) records one verdict and ends.  A stream may meet *)
(* several terminal events (SendMsg, RecvMsg, CloseSend), of which only    *)
(* the first is recorded (sync.Once), and a stream nobody reads to its end *)
(* records none; neither does a unary call whose function panics.          *)
(***************************************************************************)
EXTENDS Naturals, FiniteSets

CONSTANTS
  Calls,             \* the concurrent callers; each makes one call after another
  FailureThreshold,  \* consecutive failures that open the circuit
  SuccessThreshold,  \* successes in half-open that close it
  HalfOpenMaxReqs,   \* probes admitted at a time in half-open
  OpenDuration,      \* clock ticks the circuit stays open
  MayAbandon         \* whether calls may end without recording a verdict

(* NewCircuitBreaker replaces every non-positive setting by a default.     *)
ASSUME ConfigAssumption ==
  /\ IsFiniteSet(Calls)
  /\ FailureThreshold \in Nat \ {0}
  /\ SuccessThreshold \in Nat \ {0}
  /\ HalfOpenMaxReqs \in Nat \ {0}
  /\ OpenDuration \in Nat \ {0}
  /\ MayAbandon \in BOOLEAN

VARIABLES
  state,         \* "closed", "open" or "halfOpen"
  failureCount,  \* consecutive failures seen while closed
  successCount,  \* successes seen in this half-open period
  halfOpenReqs,  \* probes the breaker believes to be in flight
  elapsed,       \* time since lastStateTime, as far as OpenDuration
  pc,            \* pc[c]: the call c is making, if any
  verdicts,      \* verdicts[c]: results c's call has recorded so far
  lost,          \* history: probes of this half-open period that will never report
  old,           \* history: calls admitted before the last state change
  tainted,       \* history: an old call recorded its verdict in this half-open period
  healthy        \* environment: the backend no longer fails

breaker == <<state, failureCount, successCount, halfOpenReqs, elapsed>>
vars == <<breaker, pc, verdicts, lost, old, tainted, healthy>>

Kinds == {"unary", "stream"}
Running == {c \in Calls : pc[c] \in Kinds}

(* The calls in flight that were admitted in this period and have not      *)
(* reported yet.                                                           *)
Probes == {c \in Running : c \notin old /\ verdicts[c] = 0}

Init ==
  /\ state = "closed"
  /\ failureCount = 0 /\ successCount = 0 /\ halfOpenReqs = 0 /\ elapsed = 0
  /\ pc = [c \in Calls |-> "idle"]
  /\ verdicts = [c \in Calls |-> 0]
  /\ lost = 0 /\ old = {} /\ tainted = FALSE /\ healthy = FALSE

-----------------------------------------------------------------------------
(* State changes of the breaker.                                           *)

(* Mutant: the probes in flight are carried into the open state.           *)
toOpenKeepingProbes ==
  /\ state' = "open" /\ elapsed' = 0
  /\ successCount' = 0 /\ UNCHANGED halfOpenReqs

toOpen ==
  /\ state' = "open" /\ elapsed' = 0
  /\ successCount' = 0 /\ halfOpenReqs' = 0

(* Mutant: the call that ends the open state takes no place.               *)
toHalfOpenUncounted ==
  /\ state' = "halfOpen" /\ elapsed' = 0
  /\ successCount' = 0 /\ failureCount' = 0 /\ halfOpenReqs' = 0

(* toHalfOpen, and the halfOpenReqs++ of the call that caused it.          *)
toHalfOpenWithProbe ==
  /\ state' = "halfOpen" /\ elapsed' = 0
  /\ successCount' = 0 /\ failureCount' = 0 /\ halfOpenReqs' = 1

toClosed ==
  /\ state' = "closed" /\ elapsed' = 0
  /\ failureCount' = 0 /\ successCount' = 0 /\ halfOpenReqs' = 0

Allow ==
  \/ /\ state = "closed"
     /\ UNCHANGED breaker
  \/ /\ state = "open" /\ elapsed >= OpenDuration
     /\ toHalfOpenWithProbe
  \/ /\ state = "halfOpen" /\ halfOpenReqs < HalfOpenMaxReqs
     /\ halfOpenReqs' = halfOpenReqs + 1
     /\ UNCHANGED <<state, failureCount, successCount, elapsed>>

Rejecting ==
  \/ state = "open" /\ elapsed < OpenDuration
  \/ state = "halfOpen" /\ halfOpenReqs >= HalfOpenMaxReqs

(* Mutant: a verdict gives no place back.                                  *)
ProbeNotFinished == halfOpenReqs

(* finishHalfOpenRequest: the counter never goes below zero.               *)
ProbeFinished == IF halfOpenReqs > 0 THEN halfOpenReqs - 1 ELSE halfOpenReqs

RecordSuccess ==
  \/ /\ state = "closed"
     /\ failureCount' = 0
     /\ UNCHANGED <<state, successCount, halfOpenReqs, elapsed>>
  \/ /\ state = "halfOpen" /\ successCount + 1 < SuccessThreshold
     /\ halfOpenReqs' = ProbeFinished
     /\ successCount' = successCount + 1
     /\ UNCHANGED <<state, failureCount, elapsed>>
  \/ /\ state = "halfOpen" /\ successCount + 1 >= SuccessThreshold
     /\ toClosed
  \/ /\ state = "open"
     /\ UNCHANGED breaker

RecordFailure ==
  \/ /\ state = "closed" /\ failureCount + 1 < FailureThreshold
     /\ failureCount' = failureCount + 1
     /\ UNCHANGED <<state, successCount, halfOpenReqs, elapsed>>
  \/ /\ state = "closed" /\ failureCount + 1 >= FailureThreshold
     /\ failureCount' = failureCount + 1
     /\ toOpen
  \/ /\ state = "halfOpen"
     /\ toOpen
     /\ UNCHANGED failureCount
  \/ /\ state = "open"
     /\ UNCHANGED breaker

(* isFailure and recordCircuitResult: the error's class decides; a backend *)
(* that is healthy yields successes only.                                  *)
recordCircuitResult == RecordSuccess \/ (~healthy /\ RecordFailure)

-----------------------------------------------------------------------------
(* History: a state change makes every running call old, and forgets the   *)
(* lost ones, whose share of the counter it has reset.                     *)

Changed == state' # state
NewPeriod == IF Changed THEN 0 ELSE lost

-----------------------------------------------------------------------------
(* The calls.                                                              *)

(* Allow returned nil: c goes ahead with a unary call or opens a stream.   *)
Admit(c) ==
  /\ pc[c] = "idle"
  /\ Allow
  /\ \E kind \in Kinds : pc' = [pc EXCEPT ![c] = kind]
  /\ verdicts' = [verdicts EXCEPT ![c] = 0]
  /\ old' = IF Changed THEN Running ELSE old
  /\ lost' = NewPeriod
  /\ tainted' = (tainted /\ ~Changed)
  /\ UNCHANGED healthy

(* Allow returned ErrCircuitOpen: the caller gets the error at once.       *)
Reject(c) ==
  /\ pc[c] = "idle"
  /\ Rejecting
  /\ UNCHANGED vars

(* The history of a verdict by c, whose call then is at next.              *)
Verdict(c, next) ==
  /\ recordCircuitResult
  /\ pc' = [pc EXCEPT ![c] = next]
  /\ verdicts' = [verdicts EXCEPT ![c] = verdicts[c] + 1]
  /\ old' = {d \in IF Changed THEN Running ELSE old : pc'[d] \in Kinds}
  /\ lost' = NewPeriod
  /\ tainted' = (~Changed /\ (tainted \/ (state = "halfOpen" /\ c \in old)))
  /\ UNCHANGED healthy

(* Execute after fn returned, or a streamer that failed to open a stream.  *)
Finish(c) ==
  /\ pc[c] \in Kinds
  /\ verdicts[c] = 0
  /\ Verdict(c, "idle")

(* A terminal event of a stream: once.Do records the first of them only.   *)
StreamEvent(c) ==
  /\ pc[c] = "stream"
  /\ verdicts[c] = 0
  /\ Verdict(c, "stream")

(* The caller drops a stream that has had its verdict.                     *)
StreamEnd(c) ==
  /\ pc[c] = "stream" /\ verdicts[c] > 0
  /\ pc' = [pc EXCEPT ![c] = "idle"]
  /\ old' = old \ {c}
  /\ UNCHANGED <<breaker, verdicts, lost, tainted, healthy>>

(* fn panics, or the stream is dropped before any terminal event: nothing  *)
(* is recorded.  A lost probe keeps its share of halfOpenReqs until the    *)
(* next state change; elsewhere nothing is left of the call.               *)
Abandon(c) ==
  /\ MayAbandon
  /\ pc[c] \in Kinds /\ verdicts[c] = 0
  /\ pc' = [pc EXCEPT ![c] = "idle"]
  /\ lost' = IF state = "halfOpen" /\ c \notin old THEN lost + 1 ELSE lost
  /\ old' = old \ {c}
  /\ UNCHANGED <<breaker, verdicts, tainted, healthy>>

Tick ==
  /\ elapsed < OpenDuration
  /\ elapsed' = elapsed + 1
  /\ UNCHANGED <<state, failureCount, successCount, halfOpenReqs,
                 pc, verdicts, lost, old, tainted, healthy>>

Heal ==
  /\ ~healthy
  /\ healthy' = TRUE
  /\ UNCHANGED <<breaker, pc, verdicts, lost, old, tainted>>

Next ==
  \/ \E c \in Calls : \/ Admit(c) \/ Reject(c) \/ Finish(c)
                      \/ StreamEvent(c) \/ StreamEnd(c) \/ Abandon(c)
  \/ Tick
  \/ Heal

Spec == Init /\ [][Next]_vars

(* Time passes, every call that was admitted returns, every stream meets a *)
(* terminal event and is dropped, and traffic goes on: some caller tries   *)
(* again whenever one is idle.                                             *)
Fairness ==
  /\ WF_vars(Tick)
  /\ WF_vars(\E c \in Calls : Admit(c))
  /\ \A c \in Calls : WF_vars(Finish(c)) /\ WF_vars(StreamEnd(c))

FairSpec == Spec /\ Fairness

-----------------------------------------------------------------------------
(* Every variable keeps its type.                                          *)
TypeOK ==
  /\ state \in {"closed", "open", "halfOpen"}
  /\ failureCount \in 0..FailureThreshold
  /\ successCount \in 0..SuccessThreshold
  /\ halfOpenReqs \in 0..HalfOpenMaxReqs
  /\ elapsed \in 0..OpenDuration
  /\ pc \in [Calls -> Kinds \cup {"idle"}]
  /\ verdicts \in [Calls -> Nat]
  /\ lost \in Nat
  /\ old \subseteq Running
  /\ tainted \in BOOLEAN /\ healthy \in BOOLEAN

(* The counters a state does not use are those its entry reset, and the    *)
(* ones it uses are below the threshold that would have left the state:    *)
(* whatever calls of earlier periods report, no period starts with counts  *)
(* left over from another (toOpen, toHalfOpen, toClosed).                  *)
NoLeftoverCounts ==
  /\ state # "halfOpen" => successCount = 0 /\ halfOpenReqs = 0
  /\ state = "closed" => failureCount < FailureThreshold
  /\ state = "halfOpen" => failureCount = 0 /\ successCount < SuccessThreshold

(* In half-open, halfOpenReqs never counts a probe that is not out there,  *)
(* and as long as no call of an earlier period has reported (tainted) it   *)
(* counts exactly the probes that have not reported, those that will never *)
(* report (lost) included: each Allow takes one place, each verdict gives  *)
(* one back, and the transition from open takes one for the call that      *)
(* caused it (Allow, finishHalfOpenRequest).                               *)
ProbeAccounting ==
  state = "halfOpen" =>
    /\ halfOpenReqs <= Cardinality(Probes) + lost
    /\ ~tainted => halfOpenReqs = Cardinality(Probes) + lost

(* Unless a call of an earlier period has reported in this half-open       *)
(* period, no more than HalfOpenMaxReqs probes are in flight at once.      *)
ProbesBoundedUnlessTainted ==
  (state = "halfOpen" /\ ~tainted) => Cardinality(Probes) <= HalfOpenMaxReqs

(* The places of a half-open period and the calls that take them: the      *)
(* counter is right, and so is the limit it is there for.                  *)
(* (resilience/circuitbreaker.go:102-218.)                                 *)
ProbesAreExact == ProbeAccounting /\ ProbesBoundedUnlessTainted

(* The limit as the configuration's comment states it (circuitbreaker.go,  *)
(* HalfOpenMaxReqs): the number of concurrent requests in half-open.       *)
ConcurrentProbesBounded ==
  state = "halfOpen" => Cardinality(Probes) <= HalfOpenMaxReqs

(* Once the backend has healed, an open circuit is closed again for good,  *)
(* whatever state the callers were in, unless a probe is lost for good: a  *)
(* stream nobody reads to its end keeps its place in half-open, and nothing*)
(* but a state change gives it back (Allow's time check, the probe counter,*)
(* SuccessThreshold).                                                      *)
HealedCircuitCloses == <>[](healthy /\ lost = 0) => <>[](state = "closed")
=============================================================================
