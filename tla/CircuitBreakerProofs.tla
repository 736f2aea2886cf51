------------------------- MODULE CircuitBreakerProofs -------------------------
(***************************************************************************)
(* Proofs about CircuitBreaker, for any number of callers and any          *)
(* thresholds.  The inductive invariant is the conjunction of the type     *)
(* invariant, the freshness of the counters and the accounting of probes:  *)
(* the type bounds of the counters need their freshness, and the probe     *)
(* limit needs the accounting.                                             *)
(***************************************************************************)
EXTENDS CircuitBreaker, FiniteSetTheorems, TLAPS

IInv == TypeOK /\ NoLeftoverCounts /\ ProbeAccounting

LEMMA InitIInv == Init => IInv
<1> SUFFICES ASSUME Init PROVE IInv
  OBVIOUS
<1>1. TypeOK
  <2>1. pc \in [Calls -> Kinds \cup {"idle"}] /\ verdicts \in [Calls -> Nat]
    BY DEF Init
  <2>2. old \subseteq Running /\ tainted \in BOOLEAN /\ healthy \in BOOLEAN
    BY DEF Init
  <2>3. /\ state \in {"closed", "open", "halfOpen"}
        /\ failureCount \in 0..FailureThreshold
        /\ successCount \in 0..SuccessThreshold
        /\ halfOpenReqs \in 0..HalfOpenMaxReqs
        /\ elapsed \in 0..OpenDuration
        /\ lost \in Nat
    BY ConfigAssumption DEF ConfigAssumption, Init
  <2> QED  BY <2>1, <2>2, <2>3 DEF TypeOK
<1>2. NoLeftoverCounts
  BY ConfigAssumption DEF ConfigAssumption, Init, NoLeftoverCounts
<1>3. ProbeAccounting
  BY DEF Init, ProbeAccounting
<1> QED  BY <1>1, <1>2, <1>3 DEF IInv

(* The probes in flight are a finite set, so its cardinality is a number.  *)
LEMMA ProbesFinite == IsFiniteSet(Probes) /\ Cardinality(Probes) \in Nat
<1>1. Probes \subseteq Calls
  BY DEF Probes, Running
<1>2. IsFiniteSet(Probes)
  BY <1>1, ConfigAssumption, FS_Subset DEF ConfigAssumption
<1> QED  BY <1>2, FS_CardinalityType

(* A call that joins or leaves the probes changes their number by one.     *)
LEMMA ProbeJoins ==
  ASSUME NEW c, c \notin Probes, Probes' = Probes \cup {c}
  PROVE  Cardinality(Probes)' = Cardinality(Probes) + 1
BY ProbesFinite, FS_AddElement

LEMMA ProbeLeaves ==
  ASSUME NEW c, c \in Probes, Probes' = Probes \ {c}
  PROVE  Cardinality(Probes)' = Cardinality(Probes) - 1
BY ProbesFinite, FS_RemoveElement

-----------------------------------------------------------------------------
(* The counters alone: what the methods of the breaker do to them.         *)

CountersOK ==
  /\ state \in {"closed", "open", "halfOpen"}
  /\ failureCount \in 0..FailureThreshold
  /\ successCount \in 0..SuccessThreshold
  /\ halfOpenReqs \in 0..HalfOpenMaxReqs
  /\ elapsed \in 0..OpenDuration
  /\ NoLeftoverCounts

LEMMA AllowCounters == CountersOK /\ Allow => CountersOK'
BY ConfigAssumption
   DEF ConfigAssumption, CountersOK, NoLeftoverCounts, Allow, toHalfOpenWithProbe, breaker

LEMMA RecordCounters == CountersOK /\ recordCircuitResult => CountersOK'
<1> SUFFICES ASSUME CountersOK, recordCircuitResult PROVE CountersOK'
  OBVIOUS
<1> USE ConfigAssumption DEF ConfigAssumption, CountersOK, NoLeftoverCounts, breaker
<1>1. CASE RecordSuccess
  BY <1>1 DEF RecordSuccess, toClosed, ProbeFinished
<1>2. CASE RecordFailure
  BY <1>2 DEF RecordFailure, toOpen
<1> QED  BY <1>1, <1>2 DEF recordCircuitResult

LEMMA IInvSplit == IInv => TypeOK /\ CountersOK /\ ProbeAccounting
BY DEF IInv, TypeOK, CountersOK

-----------------------------------------------------------------------------
(* One lemma per kind of step.                                             *)

LEMMA AdmitIInv ==
  ASSUME IInv, NEW c \in Calls, Admit(c)
  PROVE  IInv'
<1> USE DEF Kinds
<1>0. TypeOK /\ CountersOK /\ ProbeAccounting
  BY IInvSplit
<1>1. CountersOK'
  BY <1>0, AllowCounters DEF Admit
<1>2. /\ pc' \in [Calls -> Kinds \cup {"idle"}]
      /\ verdicts' \in [Calls -> Nat] /\ verdicts'[c] = 0
      /\ pc'[c] \in Kinds
      /\ \A d \in Calls \ {c} : pc'[d] = pc[d] /\ verdicts'[d] = verdicts[d]
  BY <1>0 DEF Admit, TypeOK
<1>3. Running' = Running \cup {c} /\ c \notin Running
  BY <1>2 DEF Running, Admit
<1>4. lost' \in Nat /\ old' \subseteq Running' /\ tainted' \in BOOLEAN /\ healthy' \in BOOLEAN
  BY <1>0, <1>3 DEF Admit, TypeOK, NewPeriod
<1>5. ProbeAccounting'
  <2>1. CASE Changed
    <3>1. state' = "halfOpen" /\ halfOpenReqs' = 1 /\ lost' = 0
      BY <2>1 DEF Admit, Allow, Changed, toHalfOpenWithProbe, breaker, NewPeriod
    <3>2. old' = Running
      BY <2>1 DEF Admit
    <3>3. Probes' = {c}
      BY <3>2, <1>2, <1>3 DEF Probes
    <3>4. Cardinality(Probes)' = 1
      BY <3>3, FS_Singleton
    <3> QED  BY <3>1, <3>4 DEF ProbeAccounting
  <2>2. CASE ~Changed
    <3>1. SUFFICES ASSUME state' = "halfOpen" PROVE ProbeAccounting'
      BY DEF ProbeAccounting
    <3>2. /\ state = "halfOpen" /\ halfOpenReqs' = halfOpenReqs + 1
          /\ lost' = lost /\ old' = old
      BY <2>2, <3>1 DEF Admit, Allow, Changed, NewPeriod
    <3>3. tainted' = tainted
      BY <2>2, <1>0 DEF Admit, TypeOK
    <3>4. Probes' = Probes \cup {c} /\ c \notin Probes
      <4>1. c \notin old /\ c \in Running'
        BY <1>0, <1>3 DEF TypeOK
      <4>2. c \in Probes' /\ c \notin Probes
        BY <4>1, <3>2, <1>2, <1>3 DEF Probes
      <4>3. \A d \in Calls \ {c} : d \in Probes' <=> d \in Probes
        BY <3>2, <1>2, <1>3 DEF Probes
      <4> QED  BY <4>2, <4>3 DEF Probes, Running
    <3>5. Cardinality(Probes)' = Cardinality(Probes) + 1
      BY <3>4, ProbeJoins
    <3>6. halfOpenReqs \in Nat /\ lost \in Nat
      BY <1>0 DEF TypeOK
    <3> QED  BY <3>2, <3>3, <3>5, <3>6, <1>0, ProbesFinite DEF ProbeAccounting
  <2> QED  BY <2>1, <2>2
<1> QED  BY <1>1, <1>2, <1>4, <1>5 DEF IInv, TypeOK, CountersOK

(* Finish and StreamEvent: the call reports, and ends or stays open.       *)
LEMMA VerdictIInv ==
  ASSUME IInv, NEW c \in Calls, pc[c] \in Kinds, verdicts[c] = 0,
         NEW next \in {"idle", pc[c]}, Verdict(c, next)
  PROVE  IInv'
<1>0. TypeOK /\ CountersOK /\ ProbeAccounting
  BY IInvSplit
<1>1. CountersOK'
  BY <1>0, RecordCounters DEF Verdict
<1>2. /\ pc' \in [Calls -> Kinds \cup {"idle"}]
      /\ verdicts' \in [Calls -> Nat] /\ verdicts'[c] = 1
      /\ \A d \in Calls \ {c} : pc'[d] = pc[d] /\ verdicts'[d] = verdicts[d]
  BY <1>0 DEF Verdict, TypeOK, Kinds
<1>3. Running' \subseteq Running /\ c \in Running
  BY <1>2 DEF Running, Kinds
<1>4. lost' \in Nat /\ tainted' \in BOOLEAN /\ healthy' \in BOOLEAN
  BY <1>0 DEF Verdict, TypeOK, NewPeriod
<1>5. old' \subseteq Running'
  BY <1>0, <1>2 DEF Verdict, TypeOK, Running
<1>6. ProbeAccounting'
  <2>1. SUFFICES ASSUME state' = "halfOpen" PROVE ProbeAccounting'
    BY DEF ProbeAccounting
  <2>2. state = "halfOpen" /\ ~Changed /\ halfOpenReqs' = ProbeFinished
    BY <2>1 DEF Verdict, recordCircuitResult, RecordSuccess, RecordFailure,
                toOpen, toClosed, Changed, breaker
  <2>3. /\ lost' = lost
        /\ \A d \in Calls \ {c} : d \in old' <=> d \in old
        /\ ~tainted' => ~tainted /\ c \notin old
    <3>1. lost' = lost /\ (~tainted' => ~tainted /\ c \notin old)
      BY <2>2 DEF Verdict, NewPeriod
    <3>2. \A d \in Calls \ {c} : d \in old => pc[d] \in Kinds
      BY <1>0 DEF TypeOK, Running
    <3>3. \A d \in Calls \ {c} : d \in old' <=> d \in old
      BY <2>2, <1>2, <3>2 DEF Verdict
    <3> QED  BY <3>1, <3>3
  <2>4. Probes' = Probes \ {c}
    <3>1. c \notin Probes'
      BY <1>2 DEF Probes
    <3>2. \A d \in Calls \ {c} : d \in Probes' <=> d \in Probes
      BY <2>3, <1>2 DEF Probes, Running
    <3> QED  BY <3>1, <3>2 DEF Probes, Running
  <2>5. halfOpenReqs \in Nat /\ lost \in Nat
    BY <1>0 DEF TypeOK
  <2>6. CASE c \in old
    <3>1. tainted' /\ c \notin Probes
      BY <2>3, <2>6 DEF Probes
    <3>2. Probes' = Probes
      BY <2>4, <3>1
    <3> QED  BY <3>1, <3>2, <2>2, <2>3, <2>5, <1>0, ProbesFinite
             DEF ProbeAccounting, ProbeFinished
  <2>7. CASE c \notin old
    <3>1. c \in Probes
      BY <2>7, <1>3 DEF Probes
    <3>2. Cardinality(Probes)' = Cardinality(Probes) - 1
      BY <3>1, <2>4, ProbeLeaves
    <3>3. Cardinality(Probes) >= 1
      BY <3>1, ProbesFinite, FS_EmptySet
    <3>4. halfOpenReqs <= Cardinality(Probes) + lost
      BY <1>0, <2>2 DEF ProbeAccounting
    <3>5. halfOpenReqs' <= Cardinality(Probes)' + lost'
      BY <3>2, <3>3, <3>4, <2>2, <2>3, <2>5, ProbesFinite DEF ProbeFinished
    <3>6. ASSUME ~tainted' PROVE halfOpenReqs' = Cardinality(Probes)' + lost'
      <4>1. halfOpenReqs = Cardinality(Probes) + lost
        BY <3>6, <2>3, <1>0, <2>2 DEF ProbeAccounting
      <4> QED  BY <4>1, <3>2, <3>3, <2>2, <2>3, <2>5, ProbesFinite DEF ProbeFinished
    <3> QED  BY <3>5, <3>6 DEF ProbeAccounting
  <2> QED  BY <2>6, <2>7
<1> QED  BY <1>1, <1>2, <1>4, <1>5, <1>6 DEF IInv, TypeOK, CountersOK

(* A call that ends without a verdict leaves the probes and joins the lost *)
(* ones, unless it was neither.                                            *)
LEMMA AbandonIInv ==
  ASSUME IInv, NEW c \in Calls, Abandon(c)
  PROVE  IInv'
<1>0. TypeOK /\ CountersOK /\ ProbeAccounting
  BY IInvSplit
<1>1. CountersOK'
  BY <1>0 DEF Abandon, CountersOK, NoLeftoverCounts, breaker
<1>2. /\ pc' \in [Calls -> Kinds \cup {"idle"}]
      /\ pc'[c] = "idle" /\ verdicts' = verdicts
      /\ \A d \in Calls \ {c} : pc'[d] = pc[d]
  BY <1>0 DEF Abandon, TypeOK, Kinds
<1>3. lost' \in Nat /\ old' \subseteq Running'
  BY <1>0, <1>2 DEF Abandon, TypeOK, Running
<1>4. ProbeAccounting'
  <2>1. SUFFICES ASSUME state = "halfOpen" PROVE ProbeAccounting'
    BY DEF ProbeAccounting, Abandon, breaker
  <2>2. Probes' = Probes \ {c}
    <3>1. c \notin Probes'
      BY <1>2 DEF Probes, Running, Kinds
    <3>2. \A d \in Calls \ {c} : d \in Probes' <=> d \in Probes
      BY <1>2 DEF Probes, Running, Abandon
    <3> QED  BY <3>1, <3>2 DEF Probes, Running
  <2>3. halfOpenReqs' = halfOpenReqs /\ lost \in Nat /\ halfOpenReqs \in Nat
    BY <1>0 DEF TypeOK, Abandon, breaker
  <2>4. tainted' = tainted
    BY DEF Abandon
  <2>5. CASE c \in old
    <3>1. Probes' = Probes /\ lost' = lost
      BY <2>2, <2>5 DEF Probes, Abandon
    <3> QED  BY <3>1, <2>1, <2>3, <2>4, <1>0 DEF ProbeAccounting, Abandon, breaker
  <2>6. CASE c \notin old
    <3>1. c \in Probes /\ lost' = lost + 1
      BY <2>1, <2>6 DEF Probes, Running, Abandon
    <3>2. Cardinality(Probes)' = Cardinality(Probes) - 1
      BY <3>1, <2>2, ProbeLeaves
    <3>3. Cardinality(Probes)' + lost' = Cardinality(Probes) + lost
      BY <3>1, <3>2, <2>3, ProbesFinite
    <3> QED  BY <3>3, <2>1, <2>3, <2>4, <1>0 DEF ProbeAccounting
  <2> QED  BY <2>5, <2>6
<1>5. tainted' \in BOOLEAN /\ healthy' \in BOOLEAN
  BY <1>0 DEF Abandon, TypeOK
<1> QED  BY <1>0, <1>1, <1>2, <1>3, <1>4, <1>5 DEF IInv, TypeOK, CountersOK

(* A stream that has had its verdict is no probe: its end disturbs nothing.*)
LEMMA StreamEndIInv ==
  ASSUME IInv, NEW c \in Calls, StreamEnd(c)
  PROVE  IInv'
<1>0. TypeOK /\ CountersOK /\ ProbeAccounting
  BY IInvSplit
<1>1. CountersOK'
  BY <1>0 DEF StreamEnd, CountersOK, NoLeftoverCounts, breaker
<1>2. /\ pc' \in [Calls -> Kinds \cup {"idle"}]
      /\ pc'[c] = "idle" /\ verdicts' = verdicts /\ verdicts[c] # 0
      /\ \A d \in Calls \ {c} : pc'[d] = pc[d]
  BY <1>0 DEF StreamEnd, TypeOK, Kinds
<1>3. old' \subseteq Running' /\ lost' \in Nat
  BY <1>0, <1>2 DEF StreamEnd, TypeOK, Running
<1>4. Probes' = Probes
  BY <1>2 DEF Probes, Running, StreamEnd
<1>5. tainted' \in BOOLEAN /\ healthy' \in BOOLEAN
  BY <1>0 DEF StreamEnd, TypeOK
<1>6. ProbeAccounting'
  BY <1>0, <1>4 DEF ProbeAccounting, StreamEnd, breaker
<1> QED  BY <1>0, <1>1, <1>2, <1>3, <1>5, <1>6 DEF IInv, TypeOK, CountersOK

LEMMA NextIInv == IInv /\ [Next]_vars => IInv'
<1> SUFFICES ASSUME IInv, [Next]_vars PROVE IInv'
  OBVIOUS
<1>1. ASSUME NEW c \in Calls, Admit(c) PROVE IInv'
  BY <1>1, AdmitIInv
<1>2. ASSUME NEW c \in Calls, Finish(c) PROVE IInv'
  BY <1>2, VerdictIInv DEF Finish
<1>3. ASSUME NEW c \in Calls, StreamEvent(c) PROVE IInv'
  <2>1. pc[c] = "stream" /\ pc[c] \in Kinds /\ verdicts[c] = 0 /\ Verdict(c, pc[c])
    BY <1>3 DEF StreamEvent, Kinds
  <2> QED  BY <2>1, VerdictIInv
<1>4. ASSUME NEW c \in Calls, StreamEnd(c) PROVE IInv'
  BY <1>4, StreamEndIInv
<1>5. ASSUME NEW c \in Calls, Abandon(c) PROVE IInv'
  BY <1>5, AbandonIInv
<1>6. CASE Tick
  BY <1>6, ConfigAssumption
     DEF IInv, TypeOK, NoLeftoverCounts, ProbeAccounting, Probes, Running, Tick,
         ConfigAssumption
<1>7. CASE Heal
  <2>1. healthy' \in BOOLEAN
    BY <1>7 DEF Heal
  <2> QED  BY <1>7, <2>1
           DEF IInv, TypeOK, NoLeftoverCounts, ProbeAccounting, Probes, Running,
               Heal, breaker
<1>8. CASE UNCHANGED vars
  BY <1>8 DEF IInv, TypeOK, NoLeftoverCounts, ProbeAccounting, Probes, Running,
              vars, breaker
<1> QED  BY <1>1, <1>2, <1>3, <1>4, <1>5, <1>6, <1>7, <1>8 DEF Next, Reject

-----------------------------------------------------------------------------
(* Every reachable state satisfies the inductive invariant.                *)
THEOREM Invariance == Spec => []IInv
BY InitIInv, NextIInv, PTL DEF Spec

(* The types of the breaker's fields hold for any thresholds; the counter  *)
(* halfOpenReqs, in particular, never exceeds HalfOpenMaxReqs (Allow).     *)
THEOREM TypeCorrect == Spec => []TypeOK
<1>1. IInv => TypeOK
  BY DEF IInv
<1> QED  BY <1>1, Invariance, PTL

(* No period of the breaker starts with the counts of another (toOpen,     *)
(* toHalfOpen, toClosed).                                                  *)
THEOREM CountsAreFresh == Spec => []NoLeftoverCounts
<1>1. IInv => NoLeftoverCounts
  BY DEF IInv
<1> QED  BY <1>1, Invariance, PTL

(* halfOpenReqs counts the unreported probes, exactly so until a call of   *)
(* an earlier period reports, and HalfOpenMaxReqs bounds the probes in     *)
(* flight in every half-open period in which none has (Allow,              *)
(* finishHalfOpenRequest).                                                 *)
THEOREM ProbesAreCounted == Spec => []ProbesAreExact
<1>1. IInv => ProbeAccounting
  BY DEF IInv
<1>2. IInv => ProbesBoundedUnlessTainted
  <2> SUFFICES ASSUME IInv, state = "halfOpen", ~tainted
               PROVE  Cardinality(Probes) <= HalfOpenMaxReqs
    BY DEF ProbesBoundedUnlessTainted
  <2>1. halfOpenReqs = Cardinality(Probes) + lost
    BY DEF IInv, ProbeAccounting
  <2>2. halfOpenReqs \in 0..HalfOpenMaxReqs /\ lost \in Nat
    BY DEF IInv, TypeOK
  <2> QED  BY <2>1, <2>2, ProbesFinite, ConfigAssumption DEF ConfigAssumption
<1>3. IInv => ProbesAreExact  BY <1>1, <1>2 DEF ProbesAreExact
<1> QED  BY <1>3, Invariance, PTL
=============================================================================
