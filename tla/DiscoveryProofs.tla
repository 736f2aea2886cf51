---------------------------- MODULE DiscoveryProofs ----------------------------
(***************************************************************************)
(* Proofs about Discovery, for any number of revisions and of ResolveNow   *)
(* calls: the public Watch implements AddressFeed, and a closed            *)
(* serviceResolver is silent.                                              *)
(*                                                                         *)
(* The invariant behind the refinement is that a list the public Watch has *)
(* read and not yet reported lies between what it reported last and the    *)
(* newest revision: it reads only when it has nothing left to report, and  *)
(* what it reads is the newest at that moment.                             *)
(*                                                                         *)
(* The silence rests on the roads the goroutines take: only that of start  *)
(* reports errors, and after Close it can do so only if the first list or  *)
(* the report itself was under way; and on stateMu, which is held while    *)
(* the ClientConn is updated.                                              *)
(***************************************************************************)
EXTENDS Discovery, TLAPS

Places == {"idle", "first", "again", "nudge", "event", "enrich", "apply", "update", "report",
           "watch", "snapshot", "open", "stream", "ended", "pause", "over"}

TypeInv ==
  /\ live \in Seq(BOOLEAN) /\ newest \in 1..MaxRev
  /\ view \in Nat
  /\ flaky \in BOOLEAN /\ accepted \in BOOLEAN
  /\ pc \in [Goroutines -> Places]
  /\ next \in [Goroutines -> Places \ {"over"}]
  /\ got \in [Goroutines -> Nat]

InBetween ==
  /\ view <= newest
  /\ pc[Sub] \in {"enrich", "apply"} => view <= got[Sub] /\ got[Sub] <= newest

(* Where the goroutines of each kind get to, and what the one of start     *)
(* goes on to after a report.                                              *)
SubPlaces == {"idle", "event", "apply", "watch", "snapshot", "open", "stream", "ended", "pause",
              "over"}
NudgePlaces == {"idle", "nudge", "enrich", "apply", "update"}
LoopPlaces == Places \ {"idle", "first", "nudge"}
Carrying == {"enrich", "apply", "update", "report"}
After == {"watch", "open", "stream", "ended", "pause"}

Roads ==
  /\ pc[Sub] \in SubPlaces /\ next[Sub] \in SubPlaces
  /\ \A n \in Nudges : pc[n] \in NudgePlaces /\ next[n] = "idle"
  /\ pc[Loop] \in LoopPlaces \cup {"idle", "first"}
  /\ pc[Loop] \in Carrying => next[Loop] \in After

IInv == TypeInv /\ InBetween /\ Roads

-----------------------------------------------------------------------------
LEMMA SubIsAGoroutine == Sub \in Goroutines
BY DEF Goroutines

LEMMA Kinds == /\ Loop # Sub /\ Loop \notin Nudges /\ Sub \notin Nudges
               /\ \A g : g \in Goroutines <=> g = Sub \/ g = Loop \/ g \in Nudges
BY DiscoveryAssumption DEF DiscoveryAssumption, Goroutines

(* A step of a goroutine to a place, with the next one noted.              *)
Goes(g, place, then) ==
  /\ pc' = [pc EXCEPT ![g] = place]
  /\ next' = [next EXCEPT ![g] = then]
  /\ place \in Places /\ then \in Places \ {"over"}
  /\ g = Sub => place \in SubPlaces /\ then \in SubPlaces
  /\ g \in Nudges => place \in NudgePlaces /\ then = "idle"
  /\ g = Loop => place \in LoopPlaces /\ (place \in Carrying => then \in After)
  /\ place = "update" => conn = "open" /\ Updating = {}
  /\ place = "report" => pc[g] = "first" \/ conn # "cancelled"

LEMMA GoesKeepsRoads ==
  ASSUME TypeInv, Roads, NEW g \in Goroutines, NEW place, NEW then, Goes(g, place, then)
  PROVE  /\ pc' \in [Goroutines -> Places] /\ next' \in [Goroutines -> Places \ {"over"}]
         /\ Roads'
<1>1. \A h \in Goroutines : /\ pc'[h] = IF h = g THEN place ELSE pc[h]
                            /\ next'[h] = IF h = g THEN then ELSE next[h]
  BY DEF Goes, TypeInv
<1>2. pc' \in [Goroutines -> Places] /\ next' \in [Goroutines -> Places \ {"over"}]
  BY DEF Goes, TypeInv
<1>3. Roads'
  BY <1>1, Kinds DEF Goes, Roads
<1> QED  BY <1>2, <1>3

(* One that leaves `next' alone.                                           *)
LEMMA GoesOn ==
  ASSUME TypeInv, Roads, NEW g \in Goroutines, NEW place \in Places \ {"report"},
         pc' = [pc EXCEPT ![g] = place], next' = next,
         g = Sub => place \in SubPlaces,
         g \in Nudges => place \in NudgePlaces,
         g = Loop => place \in LoopPlaces /\ (place \in Carrying => pc[g] \in Carrying),
         place = "update" => conn = "open" /\ Updating = {}
  PROVE  Goes(g, place, next[g])
<1>1. next' = [next EXCEPT ![g] = next[g]] /\ next[g] \in Places \ {"over"}
  BY DEF TypeInv
<1> QED  BY <1>1, Kinds DEF Goes, Roads

LEMMA StepGoes ==
  ASSUME TypeInv, Roads, NEW g \in Goroutines, Step(g) \/ LoseStream(g)
  PROVE  \E place, then : Goes(g, place, then)
<1> USE DEF sdVars, ctxVars, outVars, Goto
<1>0. /\ g = Sub => pc[g] \in SubPlaces /\ next[g] \in SubPlaces
      /\ g \in Nudges => pc[g] \in NudgePlaces /\ next[g] = "idle"
      /\ g = Loop => pc[g] \in LoopPlaces \cup {"idle", "first"}
      /\ g = Loop /\ pc[g] \in Carrying => next[g] \in After
      /\ g = Sub \/ g = Loop \/ g \in Nudges
      /\ Loop # Sub /\ Loop \notin Nudges /\ Sub \notin Nudges
      /\ next[g] \in Places \ {"over"}
  BY Kinds DEF Roads, TypeInv
<1>1. CASE Enrich(g)
  BY <1>0, <1>1, GoesOn DEF Enrich, Places, SubPlaces, NudgePlaces, LoopPlaces, Carrying
<1>2. CASE Apply(g)
  <2>1. PICK place \in {next[g], "update"} :
           pc' = [pc EXCEPT ![g] = place] /\ (place = "update" => g # Sub /\ conn = "open" /\ Updating = {})
    <3>1. next[g] # "update"
      BY <1>0, <1>2 DEF SubPlaces, After, Carrying, Apply
    <3> QED  BY <1>2, <3>1 DEF Apply, UpdatesConn
  <2>2. pc[g] = "apply" /\ next' = next
    BY <1>2 DEF Apply
  <2>3. place \in Places \ {"report"} /\ (g = Loop => place \in LoopPlaces)
    BY <1>0, <2>1, <2>2 DEF Places, SubPlaces, LoopPlaces, Carrying, After
  <2> QED  BY <1>0, <2>1, <2>2, <2>3, GoesOn DEF SubPlaces, NudgePlaces, Carrying
<1>3. CASE Update(g) \/ ReportError(g)
  <2>1. pc[g] \in {"update", "report"} /\ pc' = [pc EXCEPT ![g] = next[g]] /\ next' = next
    BY <1>3 DEF Update, ReportError
  <2>2. next[g] \in After \cup {"idle"} /\ (g = Loop => next[g] \in LoopPlaces)
    BY <1>0, <2>1 DEF SubPlaces, NudgePlaces, LoopPlaces, Places, Carrying, After
  <2> QED  BY <1>0, <2>1, <2>2, GoesOn DEF Places, SubPlaces, NudgePlaces, Carrying, After
<1>4. ASSUME NEW then \in Places \ {"over"}, CallBack(g, newest, then),
             g = Sub => then \in SubPlaces, g \in Nudges => then = "idle",
             g = Loop => then \in After
      PROVE  \E place, thn : Goes(g, place, thn)
  <2>1. PICK place \in {"enrich", "apply"} : pc' = [pc EXCEPT ![g] = place] /\ (g = Sub => place = "apply")
    BY <1>4 DEF CallBack
  <2>2. next' = [next EXCEPT ![g] = then]
    BY <1>4 DEF CallBack
  <2>3. Goes(g, place, then)
    BY <1>4, <2>1, <2>2 DEF Goes, Places, SubPlaces, NudgePlaces, LoopPlaces, Carrying
  <2> QED  BY <2>3
<1>5. CASE ResolveSucceeds(g)
  <2>1. PICK then : /\ CallBack(g, newest, then) /\ then = Resolving[pc[g]]
                    /\ pc[g] \in {"first", "again", "nudge", "event"}
    BY <1>5 DEF ResolveSucceeds, Resolving
  <2>2. then \in Places \ {"over"}
    BY <2>1 DEF Resolving, Places
  <2>3. /\ g = Sub => then \in SubPlaces
        /\ g \in Nudges => then = "idle"
        /\ g = Loop => then \in After
    BY <1>0, <2>1 DEF Resolving, Places, SubPlaces, NudgePlaces, LoopPlaces, After
  <2> QED  BY <2>1, <2>2, <2>3, <1>4
<1>6. CASE ResolveFails(g)
  <2>0. pc[g] \in {"first", "again", "nudge", "event"}
    BY <1>6 DEF ResolveFails, Resolving
  <2>1. CASE pc[g] = "first"
    <3>1. /\ pc' = [pc EXCEPT ![g] = "report"] /\ next' = [next EXCEPT ![g] = "watch"]
          /\ g = Loop
      BY <1>0, <1>6, <2>1 DEF ResolveFails, ReportsThen, Resolving, SubPlaces, NudgePlaces
    <3>2. Goes(g, "report", "watch")
      BY <1>0, <2>1, <3>1 DEF Goes, Places, LoopPlaces, After
    <3> QED  BY <3>2
  <2>2. CASE pc[g] = "event"
    <3>1. pc' = [pc EXCEPT ![g] = "ended"] /\ next' = next
      BY <1>6, <2>2 DEF ResolveFails, EndWatch
    <3> QED  BY <1>0, <2>2, <3>1, GoesOn DEF Places, SubPlaces, NudgePlaces, LoopPlaces, Carrying
  <2>3. CASE pc[g] = "again"
    <3>1. pc' = [pc EXCEPT ![g] = "watch"] /\ next' = next
      BY <1>6, <2>3 DEF ResolveFails, Resolving
    <3> QED  BY <1>0, <2>3, <3>1, GoesOn DEF Places, SubPlaces, NudgePlaces, LoopPlaces, Carrying
  <2>4. CASE pc[g] = "nudge"
    <3>1. pc' = [pc EXCEPT ![g] = "idle"] /\ next' = next
      BY <1>6, <2>4 DEF ResolveFails, Resolving
    <3> QED  BY <1>0, <2>4, <3>1, GoesOn DEF Places, SubPlaces, NudgePlaces, LoopPlaces, Carrying
  <2> QED  BY <2>0, <2>1, <2>2, <2>3, <2>4
<1>7. CASE Snapshot(g)
  <2>1. pc[g] = "snapshot" /\ CallBack(g, newest, "open")
    BY <1>7 DEF Snapshot
  <2>2. g \notin Nudges
    BY <1>0, <2>1 DEF NudgePlaces
  <2> QED  BY <2>1, <2>2, <1>4 DEF Places, SubPlaces, After
<1>8. CASE WatchStatic(g)
  <2>1. pc[g] = "watch" /\ g \notin Nudges
    BY <1>0, <1>8 DEF WatchStatic, NudgePlaces
  <2>2. CASE live[newest]
    <3>1. CallBack(g, newest, "ended")
      BY <1>8, <2>2 DEF WatchStatic
    <3> QED  BY <2>1, <3>1, <1>4 DEF Places, SubPlaces, After
  <2>3. CASE ~live[newest]
    <3>1. pc' = [pc EXCEPT ![g] = "ended"] /\ next' = next
      BY <1>8, <2>3 DEF WatchStatic
    <3> QED  BY <1>0, <2>1, <3>1, GoesOn DEF Places, SubPlaces, LoopPlaces, Carrying
  <2> QED  BY <2>2, <2>3
<1>9. CASE Ended(g)
  <2>1. pc[g] = "ended" /\ g \notin Nudges
    BY <1>0, <1>9 DEF Ended, NudgePlaces
  <2>2. CASE Over(g) \/ g = Sub
    <3>1. PICK place \in {"pause", "idle", "over"} :
             pc' = [pc EXCEPT ![g] = place] /\ (place = "idle" => g = Sub)
      BY <1>9, <2>2 DEF Ended
    <3>2. next' = next
      BY <1>9, <2>2 DEF Ended
    <3> QED  BY <1>0, <2>1, <3>1, <3>2, GoesOn DEF Places, SubPlaces, LoopPlaces, Carrying
  <2>3. CASE ~(Over(g) \/ g = Sub)
    <3>1. pc' = [pc EXCEPT ![g] = "report"] /\ next' = [next EXCEPT ![g] = "pause"] /\ g = Loop
      BY <1>0, <1>9, <2>1, <2>3 DEF Ended, ReportsThen
    <3>2. conn # "cancelled"
      BY <1>0, <2>3, <3>1 DEF Over, CtxDone
    <3>3. Goes(g, "report", "pause")
      BY <1>0, <3>1, <3>2 DEF Goes, Places, LoopPlaces, After
    <3> QED  BY <3>3
  <2> QED  BY <2>2, <2>3
<1>10. CASE Wake(g)
  <2>1. pc[g] = "pause" /\ next' = next
    BY <1>10 DEF Wake
  <2>2. PICK place \in {"over", "watch", "again"} :
           pc' = [pc EXCEPT ![g] = place] /\ (place = "again" => g # Sub)
    BY <1>10 DEF Wake
  <2> QED  BY <1>0, <2>1, <2>2, GoesOn DEF Places, SubPlaces, NudgePlaces, LoopPlaces, Carrying
<1>11. CASE Register(g) \/ SnapshotFails(g) \/ OpenStream(g) \/ Event(g) \/ LoseStream(g)
            \/ StartTooLate(g)
  <2>1. /\ pc[g] \in {"watch", "snapshot", "open", "stream", "first"} /\ next' = next
        /\ \E place \in {"ended", "snapshot", "stream", "event", "over"} : pc' = [pc EXCEPT ![g] = place]
    BY <1>11 DEF Register, SnapshotFails, OpenStream, Event, LoseStream, StartTooLate, EndWatch
  <2> QED  BY <1>0, <2>1, GoesOn DEF Places, SubPlaces, NudgePlaces, LoopPlaces, Carrying
<1> QED
  BY <1>1, <1>2, <1>3, <1>5, <1>6, <1>7, <1>8, <1>9, <1>10, <1>11 DEF Step

LEMMA InitIInv == Init => IInv
<1> SUFFICES ASSUME Init PROVE IInv
  OBVIOUS
<1>1. live \in Seq(BOOLEAN) /\ Len(live) = 1
  <2>1. live = <<TRUE>> \/ live = <<FALSE>>
    BY DEF Init
  <2>2. <<TRUE>> \in Seq(BOOLEAN) /\ <<FALSE>> \in Seq(BOOLEAN)
    OBVIOUS
  <2>3. Len(<<TRUE>>) = 1 /\ Len(<<FALSE>>) = 1
    OBVIOUS
  <2> QED  BY <2>1, <2>2, <2>3
<1>2. newest \in 1..MaxRev
  BY <1>1, DiscoveryAssumption DEF newest, DiscoveryAssumption
<1>3. TypeInv
  BY <1>1, <1>2 DEF Init, TypeInv, Places
<1>4. InBetween
  BY <1>1, SubIsAGoroutine DEF Init, InBetween, newest
<1>5. Roads
  BY Kinds DEF Init, Roads, SubPlaces, NudgePlaces, LoopPlaces, Carrying
<1> QED  BY <1>3, <1>4, <1>5 DEF IInv

(* What a step of a goroutine reads is the newest list there is; a step of *)
(* another one leaves what the public Watch has read alone.                *)
LEMMA StepIInv ==
  ASSUME IInv, NEW g \in Goroutines, Step(g) \/ LoseStream(g)
  PROVE  IInv'
<1> USE SubIsAGoroutine DEF sdVars, ctxVars, outVars, Goto
<1>0. TypeInv /\ InBetween /\ Roads
  BY DEF IInv
<1>a. PICK place, then : Goes(g, place, then)
  BY <1>0, StepGoes
<1>b. /\ pc' \in [Goroutines -> Places] /\ next' \in [Goroutines -> Places \ {"over"}]
      /\ Roads'
  BY <1>0, <1>a, GoesKeepsRoads
<1>c. pc'[Sub] = pc[Sub] \/ g = Sub
  BY <1>0, <1>a DEF Goes, TypeInv
<1> USE <1>0
<1>1. ASSUME UNCHANGED <<live, flaky>>, view' \in Nat, accepted' \in BOOLEAN,
             got' \in [Goroutines -> Nat], InBetween'
      PROVE  IInv'
  BY <1>1, <1>b DEF IInv, TypeInv, newest
<1>2. CASE Apply(g)
  <2>1. UNCHANGED <<live, flaky, got, next>> /\ pc[g] = "apply"
    BY <1>2 DEF Apply
  <2>2. CASE g = Sub
    <3>1. view' = got[Sub] /\ accepted' = TRUE
      BY <1>2, <2>2 DEF Apply
    <3> QED  BY <1>1, <2>1, <2>2, <3>1 DEF TypeInv, InBetween, newest
  <2>3. CASE g # Sub
    <3>1. view' = view /\ accepted' = accepted
      BY <1>2, <2>3 DEF Apply
    <3>2. InBetween'
      BY <1>c, <2>1, <2>3, <3>1 DEF TypeInv, InBetween, newest
    <3> QED  BY <1>1, <2>1, <3>1, <3>2 DEF TypeInv
  <2> QED  BY <2>2, <2>3
<1>3. CASE ~Apply(g)
  <2>1. UNCHANGED <<live, flaky, view, accepted>>
    BY <1>3 DEF Step, LoseStream, Enrich, Update, ReportError, ResolveSucceeds, ResolveFails,
       StartTooLate, Register, Snapshot, SnapshotFails, OpenStream, Event, WatchStatic, Ended, Wake
  <2>2. newest \in Nat /\ newest' = newest
    BY <2>1 DEF TypeInv, newest
  <2>3. CASE Enrich(g)
    <3>1. pc[g] = "enrich" /\ got' \in [Goroutines -> Nat]
          /\ got'[g] \in {newest, got[g]} /\ \A h \in Goroutines \ {g} : got'[h] = got[h]
      BY <2>2, <2>3 DEF Enrich, TypeInv
    <3>2. g # Sub
      BY <3>1 DEF Roads, SubPlaces
    <3>3. InBetween'
      BY <1>c, <2>1, <2>2, <3>1, <3>2 DEF InBetween
    <3> QED  BY <1>1, <2>1, <3>1, <3>3 DEF TypeInv
  <2>4. ASSUME NEW thn, CallBack(g, newest, thn) PROVE IInv'
    <3>1. got' \in [Goroutines -> Nat] /\ got'[g] = newest
          /\ \A h \in Goroutines \ {g} : got'[h] = got[h]
      BY <2>2, <2>4 DEF CallBack, TypeInv
    <3>2. InBetween'
      BY <1>c, <2>1, <2>2, <3>1 DEF InBetween
    <3> QED  BY <1>1, <2>1, <3>1, <3>2 DEF TypeInv
  <2>5. ASSUME got' = got,
               pc'[Sub] \in {"enrich", "apply"} => pc'[Sub] = pc[Sub]
        PROVE  IInv'
    <3>1. InBetween'
      BY <2>1, <2>2, <2>5 DEF InBetween
    <3> QED  BY <1>1, <2>1, <2>5, <3>1 DEF TypeInv
  <2>6. CASE Update(g) \/ ReportError(g)
    <3>1. pc[g] \in {"update", "report"} /\ got' = got
      BY <2>6 DEF Update, ReportError
    <3>2. g # Sub
      BY <3>1 DEF Roads, SubPlaces
    <3> QED  BY <1>c, <2>5, <3>1, <3>2
  <2>7. ASSUME got' = got, NEW p \in Places \ {"enrich", "apply"}, pc' = [pc EXCEPT ![g] = p]
        PROVE  IInv'
    <3>1. pc'[Sub] \in {pc[Sub], p}
      BY <2>7 DEF TypeInv
    <3> QED  BY <2>5, <2>7, <3>1
  <2>8. CASE ResolveSucceeds(g) \/ Snapshot(g)
    BY <2>4, <2>8 DEF ResolveSucceeds, Snapshot
  <2>9. CASE ResolveFails(g)
    <3>1. pc[g] \in {"first", "again", "nudge", "event"} /\ got' = got
      BY <2>9 DEF ResolveFails, Resolving
    <3>2. \E p \in {"ended", "report", "watch", "idle"} : pc' = [pc EXCEPT ![g] = p]
      BY <2>9, <3>1 DEF ResolveFails, Resolving, EndWatch, ReportsThen
    <3> QED  BY <2>7, <3>1, <3>2 DEF Places
  <2>10. CASE WatchStatic(g)
    <3>1. CASE live[newest]
      BY <2>4, <2>10, <3>1 DEF WatchStatic
    <3>2. CASE ~live[newest]
      BY <2>7, <2>10, <3>2 DEF WatchStatic, Places
    <3> QED  BY <3>1, <3>2
  <2>11. CASE Ended(g)
    <3>1. got' = got /\ \E p \in {"pause", "idle", "over", "report"} : pc' = [pc EXCEPT ![g] = p]
      BY <2>11 DEF Ended, ReportsThen
    <3> QED  BY <2>7, <3>1 DEF Places
  <2>12. CASE Wake(g)
    <3>1. got' = got /\ \E p \in {"over", "watch", "again"} : pc' = [pc EXCEPT ![g] = p]
      BY <2>12 DEF Wake
    <3> QED  BY <2>7, <3>1 DEF Places
  <2>13. CASE Register(g) \/ SnapshotFails(g) \/ OpenStream(g) \/ Event(g) \/ LoseStream(g)
              \/ StartTooLate(g)
    <3>1. got' = got /\ \E p \in {"ended", "snapshot", "stream", "event", "over"} : pc' = [pc EXCEPT ![g] = p]
      BY <2>13 DEF Register, SnapshotFails, OpenStream, Event, LoseStream, StartTooLate, EndWatch
    <3> QED  BY <2>7, <3>1 DEF Places
  <2> QED  BY <1>3, <2>3, <2>6, <2>8, <2>9, <2>10, <2>11, <2>12, <2>13 DEF Step
<1> QED  BY <1>2, <1>3

LEMMA NextIInv == IInv /\ [Next]_vars => IInv'
<1> SUFFICES ASSUME IInv, [Next]_vars PROVE IInv'
  OBVIOUS
<1> USE DEF sdVars, ctxVars, outVars, Goto
<1>1. ASSUME NEW g \in Goroutines, Step(g) \/ LoseStream(g) PROVE IInv'
  BY <1>1, StepIInv
<1>2. CASE Publish
  <2>1. PICK b \in BOOLEAN : live' = Append(live, b)
    BY <1>2 DEF Publish
  <2>2. live' \in Seq(BOOLEAN) /\ newest' = newest + 1 /\ newest < MaxRev
    BY <1>2, <2>1 DEF Publish, IInv, TypeInv, newest
  <2>3. UNCHANGED <<flaky, accepted, view, pc, next, got>>
    BY <1>2 DEF Publish
  <2>4. TypeInv'
    BY <2>2, <2>3, DiscoveryAssumption DEF IInv, TypeInv, DiscoveryAssumption
  <2>5. InBetween'
    BY <2>2, <2>3, SubIsAGoroutine DEF IInv, TypeInv, InBetween
  <2>6. Roads'
    BY <2>3 DEF IInv, Roads
  <2> QED  BY <2>4, <2>5, <2>6 DEF IInv
<1>3. ASSUME NEW g \in Goroutines, NEW place \in {"first", "nudge", "watch"},
             pc' = [pc EXCEPT ![g] = place],
             place = "first" => g = Loop, place = "nudge" => g \in Nudges, place = "watch" => g = Sub,
             UNCHANGED <<live, flaky, view, accepted, got, next>>
      PROVE  IInv'
  <2>1. TypeInv' /\ InBetween'
    BY <1>3, SubIsAGoroutine DEF IInv, TypeInv, InBetween, newest, Places
  <2>2. \A h \in Goroutines : pc'[h] = IF h = g THEN place ELSE pc[h]
    BY <1>3 DEF IInv, TypeInv
  <2>3. Roads'
    BY <1>3, <2>2, Kinds DEF IInv, Roads, SubPlaces, NudgePlaces, Carrying
  <2> QED  BY <2>1, <2>3 DEF IInv
<1>4. ASSUME UNCHANGED <<live, view, accepted, pc, got, next>>, flaky' \in BOOLEAN
      PROVE  IInv'
  BY <1>4 DEF IInv, TypeInv, InBetween, Roads, newest
<1>5. ASSUME NEW n \in Nudges, ResolveNow(n) PROVE IInv'
  BY <1>5, <1>3, Kinds DEF ResolveNow
<1>6. CASE Build
  BY <1>6, <1>3, Kinds DEF Build
<1>7. CASE Watch
  BY <1>7, <1>3, Kinds DEF Watch
<1>8. CASE Heal
  BY <1>8, <1>4 DEF Heal
<1>9. CASE EndSub \/ CloseDiscovery \/ CloseResolver \/ UNCHANGED vars
  BY <1>9, <1>4 DEF EndSub, CloseDiscovery, CloseResolver, vars, IInv, TypeInv
<1> QED  BY <1>1, <1>2, <1>5, <1>6, <1>7, <1>8, <1>9 DEF Next

(* What the goroutines carry, and what the public Watch has been shown,    *)
(* is never newer than what was published (EtcdResolver.watch, list).      *)
THEOREM Invariance == Spec => []IInv
BY InitIInv, NextIInv, PTL DEF Spec

-----------------------------------------------------------------------------
(* The phase of the public Watch, as Feed is instantiated with it.         *)
SubPhase == IF pc[Sub] = "over" THEN "over"
            ELSE IF accepted \/ pc[Sub] = "apply" THEN "on" ELSE "off"

LEMMA FeedUnchanged ==
  ASSUME newest' = newest, view' = view, flaky' = flaky, SubPhase' = SubPhase
  PROVE  [Feed!Next]_(Feed!vars)
BY DEF Feed!vars, SubPhase

(* The public Watch moves on without reporting anything.                   *)
LEMMA SubMoves ==
  ASSUME IInv, NEW place \in Places, pc' = [pc EXCEPT ![Sub] = place],
         pc[Sub] \notin {"apply", "over"},
         UNCHANGED <<live, view, accepted, flaky>>
  PROVE  [Feed!Next]_(Feed!vars)
<1>1. newest' = newest /\ pc'[Sub] = place
  BY SubIsAGoroutine DEF newest, IInv, TypeInv
<1>2. CASE place = "over"
  <2>1. Feed!End
    BY <1>1, <1>2 DEF Feed!End
  <2> QED  BY <2>1 DEF Feed!Next
<1>3. CASE place = "apply" /\ ~accepted
  <2>1. Feed!Subscribe
    BY <1>1, <1>3 DEF Feed!Subscribe
  <2> QED  BY <2>1 DEF Feed!Next
<1>4. CASE place # "over" /\ (place = "apply" => accepted)
  BY <1>1, <1>4, FeedUnchanged DEF SubPhase
<1> QED  BY <1>2, <1>3, <1>4

(* The steps of the public Watch's goroutine.                              *)
LEMMA SubSimulates ==
  ASSUME IInv, Step(Sub) \/ LoseStream(Sub)
  PROVE  [Feed!Next]_(Feed!vars)
<1> USE DEF sdVars, ctxVars, outVars, Goto, EndWatch
<1>0. pc[Sub] \in Places
  BY SubIsAGoroutine DEF IInv, TypeInv
<1>1. CASE Apply(Sub)
  <2>1. /\ pc[Sub] = "apply" /\ view' = got[Sub] /\ accepted'
        /\ pc'[Sub] = next[Sub] /\ next[Sub] # "over"
        /\ UNCHANGED <<live, flaky>>
    BY <1>1, SubIsAGoroutine DEF Apply, IInv, TypeInv
  <2>2. got[Sub] \in view .. newest
    BY <2>1, SubIsAGoroutine DEF IInv, TypeInv, InBetween
  <2>3. Feed!Deliver
    BY <2>1, <2>2 DEF Feed!Deliver, newest
  <2> QED  BY <2>3 DEF Feed!Next
<1>2. \E place \in Places : pc' = [pc EXCEPT ![Sub] = place]
  BY SubIsAGoroutine, StepGoes DEF IInv, Goes
<1>3. CASE ~Apply(Sub)
  <2>1. /\ pc[Sub] \notin {"apply", "over"}
        /\ UNCHANGED <<live, view, accepted, flaky>>
    BY <1>0, <1>3 DEF Step, LoseStream, Enrich, Update, ReportError, ResolveSucceeds, ResolveFails, StartTooLate,
       Register, Snapshot, SnapshotFails, OpenStream, Event, WatchStatic, Ended, Wake, Resolving
  <2> QED  BY <1>2, <2>1, SubMoves
<1> QED  BY <1>1, <1>3

(* Those of the other goroutines are none of the feed's.                   *)
LEMMA OthersStutter ==
  ASSUME IInv, NEW g \in Goroutines \ {Sub}, Step(g) \/ LoseStream(g)
  PROVE  [Feed!Next]_(Feed!vars)
<1> USE DEF sdVars, ctxVars, outVars, Goto, EndWatch
<1>1. UNCHANGED <<live, view, accepted, flaky>>
  BY DEF Step, LoseStream, Enrich, Apply, Update, ReportError, ResolveSucceeds, ResolveFails,
     StartTooLate, Register, Snapshot, SnapshotFails, OpenStream, Event, WatchStatic, Ended, Wake
<1>2. \E place : pc' = [pc EXCEPT ![g] = place]
  BY StepGoes DEF IInv, Goes
<1>3. pc'[Sub] = pc[Sub]
  BY <1>2, SubIsAGoroutine DEF IInv, TypeInv
<1> QED  BY <1>1, <1>3, FeedUnchanged DEF SubPhase, newest

(* Every step of the implementation is a step of the feed, or none.        *)
LEMMA StepSimulates == IInv /\ [Next]_vars => [Feed!Next]_(Feed!vars)
<1> SUFFICES ASSUME IInv, [Next]_vars PROVE [Feed!Next]_(Feed!vars)
  OBVIOUS
<1> USE DEF sdVars, ctxVars, outVars, Goto
<1>1. ASSUME NEW g \in Goroutines, Step(g) \/ LoseStream(g) PROVE [Feed!Next]_(Feed!vars)
  BY <1>1, SubSimulates, OthersStutter
<1>2. CASE Publish
  <2>1. PICK b \in BOOLEAN : live' = Append(live, b)
    BY <1>2 DEF Publish
  <2>2. newest < MaxRev /\ newest' = newest + 1
    BY <1>2, <2>1 DEF Publish, IInv, TypeInv, newest
  <2>3. Feed!Publish
    BY <1>2, <2>2 DEF Publish, Feed!Publish
  <2> QED  BY <2>3 DEF Feed!Next
<1>3. CASE Heal
  <2>1. Feed!CalmDown
    BY <1>3 DEF Heal, Feed!CalmDown, newest
  <2> QED  BY <2>1 DEF Feed!Next
<1>4. ASSUME NEW g \in Goroutines, NEW place \in {"first", "nudge", "watch"},
             pc[g] = "idle", pc' = [pc EXCEPT ![g] = place],
             UNCHANGED <<live, flaky, view, accepted>>
      PROVE  [Feed!Next]_(Feed!vars)
  <2>1. newest' = newest /\ SubPhase' = SubPhase
    BY <1>4, SubIsAGoroutine DEF IInv, TypeInv, SubPhase, newest
  <2> QED  BY <2>1, <1>4, FeedUnchanged
<1>5. ASSUME NEW n \in Nudges, ResolveNow(n) PROVE [Feed!Next]_(Feed!vars)
  BY <1>5, <1>4 DEF ResolveNow, Goroutines
<1>6. CASE Build
  BY <1>6, <1>4 DEF Build, Goroutines
<1>7. CASE Watch
  BY <1>7, <1>4 DEF Watch, Goroutines
<1>8. CASE EndSub \/ CloseDiscovery \/ CloseResolver \/ UNCHANGED vars
  BY <1>8, FeedUnchanged DEF EndSub, CloseDiscovery, CloseResolver, vars, SubPhase, newest
<1> QED  BY <1>1, <1>2, <1>3, <1>5, <1>6, <1>7, <1>8 DEF Next

(* The public Watch is a feed: once accepted, its callback is given newer  *)
(* and newer addresses and never ones that were not published, however its *)
(* snapshots, events, broken streams and new watches interleave with       *)
(* changes (EtcdResolver.watch, retryEtcdWatch).                           *)
THEOREM WatchImplementsFeed == Spec => ImplementsFeed
<1>1. Init => Feed!Init
  BY SubIsAGoroutine, InitIInv DEF Init, Feed!Init, newest, SubPhase
<1> QED  BY <1>1, StepSimulates, Invariance, PTL DEF Spec, ImplementsFeed, Feed!Spec

-----------------------------------------------------------------------------
(* stateMu and the late errors.  Once Close has cancelled the context, an  *)
(* error can only be on its way still: none has been reported then.        *)
Quiet ==
  /\ conn \in {"open", "closed", "cancelled"} /\ lateErrors \in Nat
  /\ conn # "open" => pc[Loop] # "idle"
  /\ conn # "cancelled" => lateErrors = 0
  /\ pc[Loop] \in {"first", "report"} => lateErrors = 0

QInv == IInv /\ Quiet /\ QuietAfterClose

LEMMA StepQuiet ==
  ASSUME QInv, NEW g \in Goroutines, Step(g) \/ LoseStream(g)
  PROVE  Quiet' /\ QuietAfterClose'
<1> USE DEF sdVars, ctxVars, outVars, Goto
<1>0. TypeInv /\ Roads /\ Quiet /\ QuietAfterClose
  BY DEF QInv, IInv
<1>1. PICK place, then : Goes(g, place, then)
  BY <1>0, StepGoes
<1>2. conn' = conn
  BY DEF Step, LoseStream, Enrich, Apply, Update, ReportError, ResolveSucceeds, ResolveFails,
     StartTooLate, Register, Snapshot, SnapshotFails, OpenStream, Event, WatchStatic, Ended, Wake
<1>3. \A h \in Goroutines : pc'[h] = IF h = g THEN place ELSE pc[h]
  BY <1>0, <1>1 DEF Goes, TypeInv
<1>4. Updating' \subseteq IF place = "update" THEN Updating \cup {g} ELSE Updating
  BY <1>3 DEF Updating
<1>5. (\A h, i \in Updating' : h = i) /\ (conn' # "open" => Updating' = {})
  <2>1. place = "update" => Updating' \subseteq {g} /\ conn = "open"
    BY <1>1, <1>4 DEF Goes
  <2>2. place # "update" => Updating' \subseteq Updating
    BY <1>4
  <2> QED  BY <1>0, <1>2, <2>1, <2>2 DEF QuietAfterClose
<1>6. pc'[Loop] # "idle" \/ pc'[Loop] = pc[Loop]
  BY <1>1, <1>3, Kinds DEF Goes, LoopPlaces
<1>7. CASE ReportError(g)
  <2>1. pc[g] = "report" /\ place = next[g]
        /\ lateErrors' = IF conn = "cancelled" THEN lateErrors + 1 ELSE lateErrors
    <3>1. pc[g] = "report" /\ pc' = [pc EXCEPT ![g] = next[g]]
          /\ lateErrors' = IF conn = "cancelled" THEN lateErrors + 1 ELSE lateErrors
      BY <1>7 DEF ReportError
    <3>2. pc'[g] = next[g]
      BY <1>0, <3>1 DEF TypeInv
    <3> QED  BY <1>3, <3>1, <3>2
  <2>2. g = Loop
    BY <1>0, <2>1, Kinds DEF Roads, SubPlaces, NudgePlaces
  <2>3. place \in After /\ pc'[Loop] = place
    BY <1>0, <1>3, <2>1, <2>2, Kinds DEF Roads, Carrying
  <2>4. lateErrors = 0
    BY <1>0, <2>1, <2>2 DEF Quiet
  <2>5. lateErrors' \in {0, 1} /\ (conn # "cancelled" => lateErrors' = 0)
    BY <2>1, <2>4
  <2>6. Quiet'
    BY <1>0, <1>2, <2>3, <2>5 DEF Quiet, After
  <2> QED  BY <1>5, <2>5, <2>6 DEF QuietAfterClose
<1>8. CASE ~ReportError(g)
  <2>1. lateErrors' = lateErrors
    BY <1>8 DEF Step, LoseStream, Enrich, Apply, Update, ResolveSucceeds, ResolveFails,
       StartTooLate, Register, Snapshot, SnapshotFails, OpenStream, Event, WatchStatic, Ended, Wake
  <2>2. pc'[Loop] \in {"first", "report"} =>
           pc'[Loop] = pc[Loop] \/ pc[Loop] = "first" \/ conn # "cancelled"
    BY <1>1, <1>3, Kinds DEF Goes, LoopPlaces
  <2>3. Quiet'
    BY <1>0, <1>2, <1>6, <2>1, <2>2 DEF Quiet
  <2> QED  BY <1>0, <1>5, <2>1, <2>3 DEF QuietAfterClose
<1> QED  BY <1>7, <1>8

LEMMA NextQuiet == QInv /\ [Next]_vars => QInv'
<1> SUFFICES ASSUME QInv, [Next]_vars PROVE QInv'
  OBVIOUS
<1> USE DEF sdVars, ctxVars, outVars, Goto
<1>0. IInv /\ TypeInv /\ Roads /\ Quiet /\ QuietAfterClose /\ IInv'
  BY NextIInv DEF QInv, IInv
<1> SUFFICES Quiet' /\ QuietAfterClose'
  BY <1>0 DEF QInv
<1>1. ASSUME NEW g \in Goroutines, Step(g) \/ LoseStream(g) PROVE Quiet' /\ QuietAfterClose'
  BY <1>1, StepQuiet
<1>2. ASSUME UNCHANGED <<pc, conn, lateErrors>> PROVE Quiet' /\ QuietAfterClose'
  BY <1>0, <1>2 DEF Quiet, QuietAfterClose, Updating
<1>3. ASSUME NEW g \in Goroutines, NEW place \in {"first", "nudge", "watch"}, pc[g] = "idle",
             pc' = [pc EXCEPT ![g] = place], place = "first" => g = Loop, place # "first" => g # Loop,
             UNCHANGED <<conn, lateErrors>>
      PROVE  Quiet' /\ QuietAfterClose'
  <2>1. Updating' = Updating
    BY <1>0, <1>3 DEF TypeInv, Updating
  <2>2. pc'[Loop] = IF g = Loop THEN "first" ELSE pc[Loop]
    BY <1>0, <1>3, Kinds DEF TypeInv
  <2>3. g = Loop => conn = "open"
    BY <1>0, <1>3 DEF Quiet
  <2> QED  BY <1>0, <1>3, <2>1, <2>2, <2>3 DEF Quiet, QuietAfterClose
<1>4. CASE CloseResolver
  <2>1. UNCHANGED <<pc, lateErrors>> /\ pc[Loop] # "idle" /\ Updating' = Updating
    BY <1>4 DEF CloseResolver, Updating
  <2>2. \/ conn = "open" /\ Updating = {} /\ conn' = "closed"
        \/ conn = "closed" /\ conn' = "cancelled"
    BY <1>4 DEF CloseResolver, MayMark
  <2> QED  BY <1>0, <2>1, <2>2 DEF Quiet, QuietAfterClose
<1>5. ASSUME NEW n \in Nudges, ResolveNow(n) PROVE Quiet' /\ QuietAfterClose'
  BY <1>3, <1>5, Kinds DEF ResolveNow
<1>6. CASE Build
  BY <1>3, <1>6, Kinds DEF Build
<1>7. CASE Watch
  BY <1>3, <1>7, Kinds DEF Watch
<1>8. CASE Publish \/ Heal \/ EndSub \/ CloseDiscovery \/ UNCHANGED vars
  BY <1>2, <1>8 DEF Publish, Heal, EndSub, CloseDiscovery, vars
<1> QED  BY <1>1, <1>4, <1>5, <1>6, <1>7, <1>8 DEF Next

(* After Close of the serviceResolver the ClientConn is updated no more:   *)
(* Close waits for the update under way, and the flag is looked at under   *)
(* the lock it is set under (updateResolverState); and of all the errors   *)
(* that lists and watches may end with, at most one is reported still      *)
(* (start).                                                                *)
THEOREM SilentAfterClose == Spec => []QuietAfterClose
<1>1. Init => QInv
  <2> SUFFICES ASSUME Init PROVE QInv
    OBVIOUS
  <2>1. pc[Loop] = "idle" /\ Updating = {}
    BY Kinds DEF Init, Updating
  <2>2. conn = "open" /\ lateErrors = 0
    BY DEF Init
  <2>3. Quiet /\ QuietAfterClose
    BY <2>1, <2>2 DEF Quiet, QuietAfterClose
  <2> QED  BY <2>3, InitIInv DEF QInv
<1>2. QInv => QuietAfterClose
  BY DEF QInv
<1> QED  BY <1>1, <1>2, NextQuiet, PTL DEF Spec
=============================================================================
