---------------------------- MODULE LifecycleProofs ----------------------------
(***************************************************************************)
(* Proofs about the parts of MCLifecycle.                                  *)
(*                                                                         *)
(* The shutdown manager, for any hooks, priorities and callers: no         *)
(* registered hook is lost, all callers are told the same, nil means that  *)
(* every hook succeeded, and hooks start in the order of priority.  Its    *)
(* invariant follows the shutdown through its list: a hook that is not on  *)
(* it any more has been started, and has succeeded or is noted in errs, as *)
(* long as the list has not been cut short by the shutdown's own limit     *)
(* (Done); nothing joins the list, because Register refuses once the       *)
(* shutdown has been announced, and that is before it begins (Announced).  *)
(*                                                                         *)
(* The client manager's health-check loop, for any number of callers,      *)
(* clients and loops: the loop that nobody has cancelled is the one the    *)
(* manager can cancel.  OneLoopToCancel is not inductive: a Stop forgets   *)
(* the loop it has taken when it returns, which is harmless because it has *)
(* cancelled it by then (TakenIsCancelled), and a new loop's number must   *)
(* not be one that was cancelled or taken before (the bounds of            *)
(* LoopTypeOK).                                                            *)
(*                                                                         *)
(* The health checker, for any callers, checks and number of slots: a      *)
(* slot in use is held by a check that has not returned, be its call over  *)
(* or not, and nobody is told ready unless each check has answered.  The   *)
(* count is its own invariant once the sets that hold slots are known to   *)
(* be finite (SlotsCounted); that a check which timed out finds room among *)
(* the strays needs that its own strays are some of all of them            *)
(* (StraysOfOne).                                                          *)
(***************************************************************************)
EXTENDS MCLifecycle, FiniteSetTheorems, TLAPS


Announced ==
  /\ once # "free" => shutdownStarted
  /\ \A g \in Goroutines : pc[g] \in {"entering", "inside", "returned"} => shutdownStarted

(* The list has not been cut short.                                        *)
Whole == ~expired \/ todo # {}

Done ==
  (once # "free" /\ Whole) =>
    \A h \in hooks \ todo : fn[h] # "none" /\ (fn[h] = "ok" \/ h \in errs)

AtEnd ==
  /\ once = "free" => todo = {} /\ current = None /\ ~expired
  /\ once = "over" => todo = {} /\ current = None
  /\ current # None => fn[current] # "none"

ShutdownInv == TypeOK /\ Announced /\ Done /\ AtEnd /\ CallersAgree

LEMMA InitShutdown == Init => ShutdownInv
BY DEF Init, ShutdownInv, TypeOK, Announced, Done, AtEnd, CallersAgree

-----------------------------------------------------------------------------
(* The steps of goroutines that call Register, Shutdown or Wait, and of    *)
(* the hooks themselves, do not touch the list.                            *)
LEMMA CallsInv ==
  ASSUME ShutdownInv,
         \/ \E h \in Hooks : Register(h) \/ FuncReturns(h)
         \/ \E g \in Goroutines : CallShutdown(g) \/ EnterOnce(g) \/ Return(g)
         \/ \E w \in Waiters : Wait(w) \/ SeeDone(w)
         \/ Expire
  PROVE  ShutdownInv'
<1> USE HooksAssumption DEF ShutdownInv, Goto
<1>1. ASSUME NEW h \in Hooks, Register(h) PROVE ShutdownInv'
  BY <1>1 DEF Register, TypeOK, Announced, Done, AtEnd, CallersAgree
<1>2. ASSUME NEW h \in Hooks, FuncReturns(h) PROVE ShutdownInv'
  BY <1>2 DEF FuncReturns, TypeOK, Announced, Done, Whole, AtEnd, CallersAgree
<1>3. ASSUME NEW g \in Goroutines, CallShutdown(g) PROVE ShutdownInv'
  BY <1>3 DEF CallShutdown, TypeOK, Announced, Done, Whole, AtEnd, CallersAgree
<1>4. ASSUME NEW g \in Goroutines, EnterOnce(g) PROVE ShutdownInv'
  <2>1. /\ pc' = [pc EXCEPT ![g] = "inside"] /\ pc[g] = "entering"
        /\ UNCHANGED <<hooks, shutdownStarted, waitStarted, current, fn, expired, errs, result>>
    BY <1>4 DEF EnterOnce
  <2>2. CASE once = "free"
    <3>1. once' = "running" /\ todo' = hooks /\ current = None
      BY <1>4, <2>2 DEF EnterOnce, AtEnd
    <3> QED  BY <2>1, <2>2, <3>1 DEF TypeOK, Announced, Done, AtEnd, CallersAgree
  <2>3. CASE once # "free"
    <3>1. UNCHANGED <<once, todo>>
      BY <1>4, <2>3 DEF EnterOnce
    <3> QED  BY <2>1, <2>3, <3>1 DEF TypeOK, Announced, Done, Whole, AtEnd, CallersAgree
  <2> QED  BY <2>2, <2>3
<1>5. ASSUME NEW g \in Goroutines, Return(g) PROVE ShutdownInv'
  BY <1>5 DEF Return, TypeOK, Announced, Done, Whole, AtEnd, CallersAgree
<1>6. ASSUME NEW w \in Waiters, Wait(w) \/ SeeDone(w) PROVE ShutdownInv'
  <2>1. w \in Goroutines
    BY DEF Goroutines
  <2>2. /\ waitStarted' \in BOOLEAN
        /\ \E place \in {"following", "selecting", "released"} : pc' = [pc EXCEPT ![w] = place]
        /\ UNCHANGED <<hooks, shutdownStarted, once, todo, current, fn, expired, errs, result>>
    BY <1>6 DEF Wait, SeeDone, TypeOK
  <2> QED  BY <2>1, <2>2 DEF TypeOK, Announced, Done, Whole, AtEnd, CallersAgree
<1>7. CASE Expire
  BY <1>7 DEF Expire, TypeOK, Announced, Done, Whole, AtEnd, CallersAgree
<1> QED  BY <1>1, <1>2, <1>3, <1>4, <1>5, <1>6, <1>7

(* The loop over the hooks: one step takes the next of them off the list.  *)
LEMMA HooksInv ==
  ASSUME ShutdownInv, StartHook \/ TakeResult \/ HookTimesOut \/ Finish
  PROVE  ShutdownInv'
<1> USE HooksAssumption DEF ShutdownInv
<1>1. CASE StartHook
  BY <1>1 DEF StartHook, NextHooks, TypeOK, Announced, Done, Whole, AtEnd, CallersAgree
<1>2. ASSUME current # None, Advance, UNCHANGED <<hooks, shutdownStarted, once, fn, expired, pc, result>>,
             UNCHANGED waitStarted,
             errs \subseteq errs', errs' \subseteq errs \cup {current},
             fn[current] = "ok" \/ current \in errs'
      PROVE  ShutdownInv'
  <2>1. TypeOK' /\ Announced' /\ AtEnd'
    BY <1>2 DEF Advance, TypeOK, Announced, AtEnd
  <2>2. Done'
    BY <1>2 DEF Advance, TypeOK, Done, Whole, AtEnd
  <2>3. CallersAgree'
    BY <1>2 DEF TypeOK, AtEnd, CallersAgree
  <2> QED  BY <2>1, <2>2, <2>3
<1>3. CASE TakeResult
  BY <1>3, <1>2 DEF TakeResult
<1>4. CASE HookTimesOut
  BY <1>4, <1>2 DEF HookTimesOut
<1>5. CASE Finish
  BY <1>5 DEF Finish, TypeOK, Announced, Done, Whole, AtEnd, CallersAgree
<1> QED  BY <1>1, <1>3, <1>4, <1>5

LEMMA ShutdownStep == ShutdownInv /\ [Next]_vars => ShutdownInv'
<1> SUFFICES ASSUME ShutdownInv, [Next]_vars PROVE ShutdownInv'
  OBVIOUS
<1>1. CASE UNCHANGED vars
  BY <1>1 DEF vars, ShutdownInv, TypeOK, Announced, Done, Whole, AtEnd, CallersAgree
<1> QED  BY <1>1, CallsInv, HooksInv DEF Next

(* The hooks are sorted, run and counted as the calls of Register and      *)
(* Shutdown left them, in every reachable state.                           *)
THEOREM ShutdownAlways == Spec => []ShutdownInv
BY InitShutdown, ShutdownStep, PTL DEF Spec

-----------------------------------------------------------------------------
(* Whatever Register accepted has been run when the shutdown is over, each *)
(* call of Shutdown returns the same errors, and nil only when every hook  *)
(* succeeded, unless the shutdown's own time was up                        *)
(* (ShutdownManager.Shutdown, Register).                                   *)
THEOREM NoHookIsLost == Spec => []HooksAreKept
<1>1. ShutdownInv => NoHookLost
  BY DEF ShutdownInv, NoHookLost, Done, Whole, AtEnd
<1>2. ShutdownInv => NilMeansClean
  BY DEF ShutdownInv, NilMeansClean, CallersAgree, Done, Whole, AtEnd, TypeOK
<1>3. ShutdownInv => HooksAreKept
  BY <1>1, <1>2 DEF HooksAreKept, ShutdownInv
<1> QED  BY <1>3, ShutdownAlways, PTL

(* Hooks start one after the other, those of smaller priority first        *)
(* (the sort and the loop of ShutdownManager.Shutdown).                    *)
THEOREM HooksStartByPriority == Spec => RunsByPriority
<1> DEFINE ByPriority ==
      \A h \in Hooks : (fn[h] = "none" /\ fn'[h] # "none") =>
        /\ current = None
        /\ \A g \in hooks : Priority[g] < Priority[h] => fn[g] # "none"
<1>1. ShutdownInv /\ [Next]_vars => [ByPriority]_vars
  <2> SUFFICES ASSUME ShutdownInv, [Next]_vars, NEW h \in Hooks, fn[h] = "none", fn'[h] # "none"
               PROVE  /\ current = None
                      /\ \A g \in hooks : Priority[g] < Priority[h] => fn[g] # "none"
    OBVIOUS
  <2>1. fn' # fn
    OBVIOUS
  <2>2. StartHook \/ \E g \in Hooks : FuncReturns(g)
    BY <2>1 DEF Next, vars, Register, CallShutdown, EnterOnce, Return, Wait, SeeDone, Expire,
       TakeResult, HookTimesOut, Finish
  <2>3. ~ \E g \in Hooks : FuncReturns(g)
    BY DEF FuncReturns, ShutdownInv, TypeOK
  <2>4. StartHook
    BY <2>2, <2>3
  <2>5. current = None /\ h \in NextHooks
    BY <2>4 DEF StartHook, ShutdownInv, TypeOK
  <2>6. ASSUME NEW g \in hooks, Priority[g] < Priority[h] PROVE fn[g] # "none"
    <3>1. g \in Hooks /\ Priority[g] \in Int /\ Priority[h] \in Int
      BY HooksAssumption DEF ShutdownInv, TypeOK
    <3>2. g \notin todo
      BY <2>5, <2>6, <3>1 DEF NextHooks
    <3>3. once = "running" /\ todo # {}
      BY <2>4, <2>5 DEF StartHook, NextHooks
    <3> QED  BY <3>2, <3>3 DEF ShutdownInv, Done, Whole
  <2> QED  BY <2>5, <2>6
<1> QED  BY <1>1, ShutdownAlways, PTL DEF Spec, RunsByPriority

-----------------------------------------------------------------------------
(* The health-check loop.                                                  *)


LoopTypeOK ==
  /\ started \in Nat /\ cancelling \in 0..started
  /\ cancelled \subseteq 1..started /\ ended \subseteq 1..started
  /\ at \in [Users -> {"idle", "taken", "cancelled", "waiting", "woken"}]
  /\ taken \in [Users -> 0..started]
  /\ joined \subseteq Users

TakenIsCancelled ==
  \A p \in Users :
    /\ at[p] = "idle" <=> taken[p] = 0
    /\ at[p] \in {"cancelled", "waiting", "woken"} => taken[p] \in cancelled

LoopInv == LoopTypeOK /\ TakenIsCancelled /\ OneLoopToCancel

Taken == {taken[p] : p \in Users}

LEMMA InitLoop == L!Init => LoopInv
BY DEF L!Init, LoopInv, LoopTypeOK, TakenIsCancelled, OneLoopToCancel, L!OneLoopToCancel

(* A loop is started only when the manager holds no other's cancel         *)
(* function, and nobody has heard of its number.                           *)
LEMMA StartInv ==
  ASSUME LoopInv, NEW p \in Users, L!StartHealthCheck(p)
  PROVE  LoopInv'
<1> USE DEF LoopInv, LoopTypeOK, TakenIsCancelled
<1>1. /\ cancelling = 0 /\ started' = started + 1 /\ cancelling' = started + 1
      /\ UNCHANGED <<cancelled, ended, at, taken>>
  BY DEF L!StartHealthCheck, L!MayStart, L!running
<1>2. LoopTypeOK'
  BY <1>1 DEF L!StartHealthCheck
<1>3. OneLoopToCancel'
  <2>1. 1..started \ (cancelled \cup Taken) = {}
    BY <1>1 DEF OneLoopToCancel, L!OneLoopToCancel, Taken
  <2>2. started + 1 \notin cancelled \cup Taken
    BY DEF Taken
  <2>3. 1..(started + 1) = (1..started) \cup {started + 1}
    OBVIOUS
  <2>4. 1..(started + 1) \ (cancelled \cup Taken) = {started + 1}
    BY <2>1, <2>2, <2>3
  <2>5. started + 1 # 0
    OBVIOUS
  <2> QED  BY <1>1, <2>4, <2>5 DEF OneLoopToCancel, L!OneLoopToCancel, Taken
<1> QED  BY <1>1, <1>2, <1>3

(* The loop changes hands: from the manager to the Stop that took it.      *)
LEMMA StopInv ==
  ASSUME LoopInv, NEW p \in Users, L!StopHealthCheck(p)
  PROVE  LoopInv'
<1> USE DEF LoopInv, LoopTypeOK, TakenIsCancelled
<1>1. /\ at[p] = "idle" /\ taken[p] = 0 /\ cancelling # 0
      /\ cancelling' = 0 /\ taken' = [taken EXCEPT ![p] = cancelling]
      /\ at' = [at EXCEPT ![p] = "taken"]
      /\ UNCHANGED <<started, cancelled, ended, joined>>
  BY DEF L!StopHealthCheck, L!running
<1>2. LoopTypeOK' /\ TakenIsCancelled'
  BY <1>1
<1>3. OneLoopToCancel'
  <2>1. \A l \in Taken : l # 0 => l \in Taken'
    BY <1>1 DEF Taken
  <2>2. cancelling \in Taken'
    BY <1>1 DEF Taken
  <2>3. 1..started \ (cancelled \cup Taken) = {cancelling}
    BY <1>1 DEF OneLoopToCancel, L!OneLoopToCancel, Taken
  <2>4. ASSUME NEW l \in 1..started, l \notin cancelled PROVE l \in Taken'
    BY <2>1, <2>2, <2>3, <2>4
  <2>5. 1..started \ (cancelled \cup Taken') = {}
    BY <2>4
  <2> QED  BY <1>1, <2>5 DEF OneLoopToCancel, L!OneLoopToCancel, Taken
<1> QED  BY <1>2, <1>3

LEMMA CancelInv ==
  ASSUME LoopInv, NEW p \in Users, L!Cancel(p)
  PROVE  LoopInv'
<1> USE DEF LoopInv, LoopTypeOK, TakenIsCancelled
<1>1. /\ at[p] = "taken" /\ cancelled' = cancelled \cup {taken[p]}
      /\ at' = [at EXCEPT ![p] = "cancelled"]
      /\ UNCHANGED <<started, cancelling, ended, taken, joined>>
  BY DEF L!Cancel
<1>2. taken[p] # 0 /\ taken[p] \in 1..started
  BY <1>1
<1>3. LoopTypeOK' /\ TakenIsCancelled'
  BY <1>1, <1>2
<1>4. OneLoopToCancel'
  <2>1. cancelled' \cup Taken' = cancelled \cup Taken
    BY <1>1 DEF Taken
  <2> QED  BY <1>1, <2>1 DEF OneLoopToCancel, L!OneLoopToCancel, Taken
<1> QED  BY <1>3, <1>4

(* The loop it returns from is cancelled, so forgetting it loses nothing.  *)
LEMMA ReturnInv ==
  ASSUME LoopInv, NEW p \in Users, L!Return(p)
  PROVE  LoopInv'
<1> USE DEF LoopInv, LoopTypeOK, TakenIsCancelled
<1>1. /\ at[p] \in {"woken", "cancelled"}
      /\ at' = [at EXCEPT ![p] = "idle"] /\ taken' = [taken EXCEPT ![p] = 0]
      /\ joined' = joined \ {p}
      /\ UNCHANGED <<started, cancelling, cancelled, ended>>
  BY DEF L!Return, L!loops
<1>2. LoopTypeOK' /\ TakenIsCancelled'
  BY <1>1
<1>3. OneLoopToCancel'
  <2>1. taken[p] \in cancelled
    BY <1>1
  <2>2. \A l \in 1..started : l \in cancelled \cup Taken <=> l \in cancelled \cup Taken'
    <3>1. ASSUME NEW l \in Taken, l # taken[p] PROVE l \in Taken'
      BY <3>1, <1>1 DEF Taken
    <3>2. ASSUME NEW l \in Taken', l # 0 PROVE l \in Taken
      BY <3>2, <1>1 DEF Taken
    <3> QED  BY <2>1, <3>1, <3>2
  <2>3. 1..started \ (cancelled \cup Taken) = 1..started \ (cancelled \cup Taken')
    BY <2>2
  <2> QED  BY <1>1, <2>3 DEF OneLoopToCancel, L!OneLoopToCancel, Taken
<1> QED  BY <1>2, <1>3

LEMMA LoopStep == LoopInv /\ [L!Next]_L!vars => LoopInv'
<1> SUFFICES ASSUME LoopInv, [L!Next]_L!vars PROVE LoopInv'
  OBVIOUS
<1>1. ASSUME NEW p \in Users, L!Wait(p) PROVE LoopInv'
  BY <1>1 DEF L!Wait, L!loops, LoopInv, LoopTypeOK, TakenIsCancelled, OneLoopToCancel, L!OneLoopToCancel
<1>2. ASSUME NEW l \in L!Loops, L!LoopEnds(l) PROVE LoopInv'
  <2>1. /\ ended' = ended \cup {l} /\ l \in 1..started
        /\ at' = [p \in Users |-> IF p \in L!Woken(L!Alive \ {l}) THEN "woken" ELSE at[p]]
        /\ UNCHANGED <<started, cancelling, cancelled, taken, joined>>
    BY <1>2 DEF L!LoopEnds, L!Alive
  <2>2. \A p \in L!Woken(L!Alive \ {l}) : at[p] = "waiting"
    BY DEF L!Woken
  <2>3. LoopTypeOK' /\ TakenIsCancelled'
    BY <2>1, <2>2 DEF LoopInv, LoopTypeOK, TakenIsCancelled
  <2>4. OneLoopToCancel'
    BY <2>1 DEF LoopInv, OneLoopToCancel, L!OneLoopToCancel
  <2> QED  BY <2>3, <2>4 DEF LoopInv
<1>3. CASE UNCHANGED <<L!loops, L!stops>>
  BY <1>3 DEF L!loops, L!stops, LoopInv, LoopTypeOK, TakenIsCancelled, OneLoopToCancel, L!OneLoopToCancel
<1> QED
  BY <1>1, <1>2, <1>3, StartInv, StopInv, CancelInv, ReturnInv
  DEF L!Next, L!Tick, L!LinkFails, L!vars

(* Whatever StartHealthCheck and StopHealthCheck do, a loop is cancelled,  *)
(* about to be, or the manager's.                                          *)
THEOREM LoopAlways == L!Spec => []LoopInv
BY InitLoop, LoopStep, PTL DEF L!Spec

(* However the starts and stops of any number of callers overlap, the only *)
(* loop that is neither cancelled nor about to be is the one whose cancel  *)
(* function the manager holds (StartHealthCheck, StopHealthCheck).         *)
THEOREM LoopIsNeverLost == L!Spec => []OneLoopToCancel
<1>1. LoopInv => OneLoopToCancel  BY DEF LoopInv
<1> QED  BY <1>1, LoopAlways, PTL

-----------------------------------------------------------------------------
(* The health checker.                                                     *)
Jobs == {"none", "todo", "waiting", "running"} \cup H!Statuses
Words == {"nothing"} \cup H!Statuses

HealthTypeOK ==
  /\ slots \in Int
  /\ job \in [Users -> [Checks -> Jobs]]
  /\ said \in [Users -> [Checks -> Words]]
  /\ stray \in [Checks -> Nat]
  /\ ready \in [Users -> {"asking", "yes", "no"}]

(* What has been answered is what the check said, or that it did not.      *)
Reported ==
  \A c \in Users, n \in Checks :
    job[c][n] \in H!Statuses => job[c][n] = said[c][n] \/ job[c][n] = "unhealthy"

SlotsCounted ==
  /\ IsFiniteSet(H!Watched) /\ IsFiniteSet(H!Strays)
  /\ H!RunningBounded

HealthInv == HealthTypeOK /\ Reported /\ SlotsCounted

LEMMA SlotsAreANumber == MaxConcurrent \in Nat
BY HealthFits DEF H!HealthAssumption

(* The module counts with an instance of Cardinality.                      *)
LEMMA CountIsCardinality == \A S : H!Cardinality(S) = Cardinality(S)
BY DEF H!Cardinality, Cardinality

LEMMA InitHealth == H!Init => HealthInv
<1> SUFFICES ASSUME H!Init PROVE HealthInv
  OBVIOUS
<1> USE SlotsAreANumber
<1>1. HealthTypeOK /\ Reported
  BY DEF H!Init, HealthTypeOK, Reported, Jobs, Words, H!Statuses
<1>2. H!Watched = {} /\ H!Strays = {}
  BY DEF H!Init, H!Watched, H!Strays
<1>3. SlotsCounted
  BY <1>2, FS_EmptySet, CountIsCardinality DEF H!Init, SlotsCounted, H!RunningBounded
<1> QED  BY <1>1, <1>3 DEF HealthInv

(* What H!Set does to the jobs.                                            *)
LEMMA OneJobSet ==
  ASSUME HealthTypeOK, NEW c \in Users, NEW n \in Checks, NEW s \in Jobs, H!Set(c, n, s)
  PROVE  /\ job' \in [Users -> [Checks -> Jobs]]
         /\ job'[c][n] = s
         /\ \A d \in Users, m \in Checks : d # c \/ m # n => job'[d][m] = job[d][m]
<1>1. job' = [job EXCEPT ![c] = [job[c] EXCEPT ![n] = s]]
  BY DEF H!Set, HealthTypeOK
<1>2. /\ job'[c] = [job[c] EXCEPT ![n] = s] /\ job[c] \in [Checks -> Jobs]
      /\ \A d \in Users \ {c} : job'[d] = job[d]
  BY <1>1 DEF HealthTypeOK
<1>3. job' \in [Users -> [Checks -> Jobs]]
  BY <1>1, <1>2 DEF HealthTypeOK
<1> QED  BY <1>2, <1>3

(* The types and the reports after a step of one job.                      *)
LEMMA OneJobFits ==
  ASSUME HealthTypeOK, Reported, NEW c \in Users, NEW n \in Checks, NEW s \in Jobs, H!Set(c, n, s),
         s \in H!Statuses => s = "unhealthy",
         UNCHANGED <<said, ready>>, slots' \in Int, stray' \in [Checks -> Nat]
  PROVE  HealthTypeOK' /\ Reported'
<1>1. Reported' /\ job' \in [Users -> [Checks -> Jobs]]
  BY OneJobSet DEF Reported
<1> QED  BY <1>1 DEF HealthTypeOK

(* A step that starts and ends no check keeps the slots.                   *)
LEMMA SlotsStay ==
  ASSUME SlotsCounted, UNCHANGED <<slots, stray>>,
         \A c \in Users, n \in Checks : job'[c][n] = "running" <=> job[c][n] = "running"
  PROVE  SlotsCounted'
<1>1. H!Watched' = H!Watched /\ H!Strays' = H!Strays
  BY DEF H!Watched, H!Strays
<1> QED  BY <1>1 DEF SlotsCounted, H!RunningBounded

(* A check that is no longer watched.                                      *)
LEMMA WatchedLess ==
  ASSUME HealthTypeOK, SlotsCounted, NEW c \in Users, NEW n \in Checks, NEW s \in Jobs \ {"running"},
         job[c][n] = "running", H!Set(c, n, s)
  PROVE  /\ IsFiniteSet(H!Watched') /\ Cardinality(H!Watched') = Cardinality(H!Watched) - 1
         /\ Cardinality(H!Watched') \in Nat
<1>1. H!Watched' = H!Watched \ {<<c, n>>} /\ <<c, n>> \in H!Watched
  BY OneJobSet DEF H!Watched
<1> QED  BY <1>1, FS_RemoveElement, FS_CardinalityType DEF SlotsCounted

(* The strays of one check are among all of them.                          *)
LEMMA StraysOfOne ==
  ASSUME NEW n \in Checks, stray[n] \in 0..MaxConcurrent, IsFiniteSet(H!Strays)
  PROVE  stray[n] <= Cardinality(H!Strays)
<1> DEFINE f == [i \in 1..stray[n] |-> <<n, i>>]
<1> USE SlotsAreANumber
<1>1. f \in Injection(1..stray[n], H!Strays)
  BY DEF Injection, IsInjective, H!Strays
<1>2. Cardinality(1..stray[n]) <= Cardinality(H!Strays)
  <2> HIDE DEF f
  <2> QED  BY <1>1, FS_Injection
<1>3. Cardinality(1..stray[n]) = stray[n]
  BY FS_Interval
<1> QED  BY <1>2, <1>3

(* The count of the slots after a step that changes what holds them.       *)
LEMMA SlotsRecounted ==
  ASSUME NEW w \in Int, NEW r \in Int, IsFiniteSet(H!Watched'), IsFiniteSet(H!Strays'),
         Cardinality(H!Watched') = Cardinality(H!Watched) + w,
         Cardinality(H!Strays') = Cardinality(H!Strays) + r,
         slots' = slots + w + r, slots' <= MaxConcurrent,
         \A n \in Checks : stray'[n] <= MaxConcurrent,
         SlotsCounted
  PROVE  SlotsCounted'
<1>1. Cardinality(H!Watched) \in Nat /\ Cardinality(H!Strays) \in Nat
  BY FS_CardinalityType DEF SlotsCounted
<1>2. slots = Cardinality(H!Watched) + Cardinality(H!Strays)
  BY CountIsCardinality DEF SlotsCounted, H!RunningBounded
<1>3. slots' = Cardinality(H!Watched') + Cardinality(H!Strays')
  BY <1>1, <1>2
<1> QED  BY <1>3, CountIsCardinality DEF SlotsCounted, H!RunningBounded

LEMMA StepsOfCheck ==
  ASSUME HealthInv, NEW c \in Users, NEW n \in Checks, H!Progress(c, n) \/ H!Returns(c, n)
  PROVE  HealthInv'
<1> USE SlotsAreANumber DEF HealthInv, H!Statuses, Jobs, Words
<1>1. CASE H!Begin(c, n)
  <2>1. HealthTypeOK' /\ Reported'
    BY <1>1, OneJobFits DEF H!Begin, HealthTypeOK
  <2>2. SlotsCounted'
    BY <1>1, OneJobSet, SlotsStay DEF H!Begin
  <2> QED  BY <2>1, <2>2
<1>2. CASE H!Acquire(c, n)
  <2>0. slots' = slots + 1 /\ slots < MaxConcurrent /\ H!Set(c, n, "running") /\ UNCHANGED <<said, stray, ready>>
    BY <1>2 DEF H!Acquire
  <2>1. HealthTypeOK' /\ Reported'
    <3>1. slots' \in Int
      BY <2>0 DEF HealthTypeOK
    <3> QED  BY <2>0, <3>1, OneJobFits DEF HealthTypeOK
  <2>2. H!Watched' = H!Watched \cup {<<c, n>>} /\ <<c, n>> \notin H!Watched /\ H!Strays' = H!Strays
    BY <1>2, OneJobSet DEF H!Acquire, H!Watched, H!Strays
  <2>3. IsFiniteSet(H!Watched') /\ Cardinality(H!Watched') = Cardinality(H!Watched) + 1
    BY <2>2, FS_AddElement DEF SlotsCounted
  <2>4. Cardinality(H!Strays') = Cardinality(H!Strays) + 0 /\ slots' = slots + 1 + 0 /\ slots' <= MaxConcurrent
    BY <2>0, <2>2, FS_CardinalityType DEF SlotsCounted, HealthTypeOK
  <2>5. SlotsCounted'
    <3>1. IsFiniteSet(H!Strays') /\ SlotsCounted
      BY <2>2 DEF SlotsCounted
    <3>2. \A m \in Checks : stray'[m] <= MaxConcurrent
      BY <2>0 DEF SlotsCounted, H!RunningBounded
    <3>3. slots' = slots + 1 + 0 /\ 1 \in Int /\ 0 \in Int
      BY <2>4
    <3> QED  BY <2>3, <2>4, <3>1, <3>2, <3>3, SlotsRecounted
  <2> QED  BY <2>1, <2>5
<1>3. CASE H!NoSlot(c, n)
  <2>1. HealthTypeOK' /\ Reported'
    BY <1>3, OneJobFits DEF H!NoSlot, H!Late, HealthTypeOK
  <2>2. SlotsCounted'
    BY <1>3, OneJobSet, SlotsStay DEF H!NoSlot, H!Late
  <2> QED  BY <2>1, <2>2
<1>4. CASE H!Timeout(c, n)
  <2>1. /\ H!Set(c, n, "unhealthy") /\ job[c][n] = "running"
        /\ stray' = [stray EXCEPT ![n] = @ + 1] /\ UNCHANGED <<slots, said, ready>>
    BY <1>4 DEF H!Timeout, H!TimesOut, H!Late, H!SlotKept
  <2>2. HealthTypeOK' /\ Reported'
    <3>1. stray' \in [Checks -> Nat]
      BY <2>1 DEF HealthTypeOK
    <3> QED  BY <2>1, <3>1, OneJobFits DEF HealthTypeOK
  <2>3. /\ IsFiniteSet(H!Watched') /\ Cardinality(H!Watched') = Cardinality(H!Watched) - 1
        /\ Cardinality(H!Watched') \in Nat
    BY <2>1, WatchedLess
  <2>4. Cardinality(H!Strays) \in Nat /\ Cardinality(H!Strays) < MaxConcurrent
    BY <2>3, FS_CardinalityType, CountIsCardinality DEF SlotsCounted, H!RunningBounded, HealthTypeOK
  <2>5. stray[n] < MaxConcurrent
    BY <2>4, StraysOfOne DEF HealthTypeOK, SlotsCounted, H!RunningBounded
  <2>6. H!Strays' = H!Strays \cup {<<n, stray[n] + 1>>} /\ <<n, stray[n] + 1>> \notin H!Strays
    BY <2>1, <2>5 DEF H!Strays, HealthTypeOK
  <2>7. IsFiniteSet(H!Strays') /\ Cardinality(H!Strays') = Cardinality(H!Strays) + 1
    BY <2>6, FS_AddElement DEF SlotsCounted
  <2>8. \A m \in Checks : stray'[m] <= MaxConcurrent
    BY <2>1, <2>5 DEF SlotsCounted, H!RunningBounded, HealthTypeOK
  <2>9. Cardinality(H!Watched') = Cardinality(H!Watched) + (-1) /\ slots' = slots + (-1) + 1 /\ slots' <= MaxConcurrent
    BY <2>1, <2>3, FS_CardinalityType DEF SlotsCounted, H!RunningBounded, HealthTypeOK
  <2>10. SlotsCounted'
    BY <2>3, <2>7, <2>8, <2>9, SlotsRecounted
  <2> QED  BY <2>2, <2>10
<1>5. CASE H!Returns(c, n)
  <2>1. PICK s \in H!Statuses : H!Set(c, n, s) /\ said' = [said EXCEPT ![c][n] = s]
    <3>1. MaySay[n] \cup {"unhealthy"} \subseteq H!Statuses
      BY HealthFits DEF H!HealthAssumption
    <3> QED  BY <1>5, <3>1 DEF H!Returns
  <2>2. job[c][n] = "running" /\ slots' = slots - 1 /\ UNCHANGED <<stray, ready>>
    BY <1>5 DEF H!Returns
  <2>3. said' = [said EXCEPT ![c] = [said[c] EXCEPT ![n] = s]] /\ said[c] \in [Checks -> Words]
    BY <2>1 DEF HealthTypeOK
  <2>4. /\ said' \in [Users -> [Checks -> Words]] /\ said'[c][n] = s
        /\ \A d \in Users, m \in Checks : d # c \/ m # n => said'[d][m] = said[d][m]
    BY <2>3 DEF HealthTypeOK
  <2>5. HealthTypeOK' /\ Reported'
    <3>1. Reported' /\ job' \in [Users -> [Checks -> Jobs]]
      <4>1. /\ job' \in [Users -> [Checks -> Jobs]] /\ job'[c][n] = s
            /\ \A d \in Users, m \in Checks : d # c \/ m # n => job'[d][m] = job[d][m]
        BY <2>1, OneJobSet
      <4> QED  BY <2>4, <4>1 DEF Reported
    <3>2. slots' \in Int
      BY <2>2 DEF HealthTypeOK
    <3> QED  BY <2>2, <2>4, <3>1, <3>2 DEF HealthTypeOK
  <2>6. /\ IsFiniteSet(H!Watched') /\ Cardinality(H!Watched') = Cardinality(H!Watched) - 1
    BY <2>1, <2>2, WatchedLess
  <2>7. /\ Cardinality(H!Watched') = Cardinality(H!Watched) + (-1)
        /\ H!Strays' = H!Strays /\ Cardinality(H!Strays) = Cardinality(H!Strays) + 0
        /\ slots' = slots + (-1) + 0 /\ slots' <= MaxConcurrent
    BY <2>2, <2>6, FS_CardinalityType DEF SlotsCounted, H!RunningBounded, HealthTypeOK, H!Strays
  <2>8. SlotsCounted'
    BY <2>2, <2>6, <2>7, SlotsRecounted DEF SlotsCounted, H!RunningBounded
  <2> QED  BY <2>5, <2>8
<1> QED  BY <1>1, <1>2, <1>3, <1>4, <1>5 DEF H!Progress

LEMMA HealthStep == HealthInv /\ [H!Next]_H!vars => HealthInv'
<1> SUFFICES ASSUME HealthInv, [H!Next]_H!vars PROVE HealthInv'
  OBVIOUS
<1> USE SlotsAreANumber DEF HealthInv
<1>1. ASSUME NEW n \in Checks, H!Register(n) PROVE HealthInv'
  BY <1>1, SlotsStay DEF H!Register, HealthTypeOK, Reported
<1>2. ASSUME NEW n \in Checks, H!StrayReturns(n) PROVE HealthInv'
  <2>1. HealthTypeOK' /\ Reported'
    BY <1>2 DEF H!StrayReturns, HealthTypeOK, Reported
  <2>2. stray[n] \in 1..MaxConcurrent /\ stray' = [stray EXCEPT ![n] = @ - 1] /\ slots' = slots - 1
    BY <1>2 DEF H!StrayReturns, HealthTypeOK, SlotsCounted, H!RunningBounded
  <2>3. /\ H!Strays' = H!Strays \ {<<n, stray[n]>>} /\ <<n, stray[n]>> \in H!Strays
        /\ H!Watched' = H!Watched
    <3>1. UNCHANGED job
      BY <1>2 DEF H!StrayReturns
    <3>2. \A m \in Checks : stray[m] \in Nat /\ stray'[m] = (IF m = n THEN stray[m] - 1 ELSE stray[m])
      BY <2>2 DEF HealthTypeOK
    <3>3. \A m \in Checks, i \in 1..MaxConcurrent :
            i <= stray'[m] <=> i <= stray[m] /\ <<m, i>> # <<n, stray[n]>>
      BY <2>2, <3>2
    <3> QED  BY <2>2, <3>1, <3>3 DEF H!Strays, H!Watched
  <2>4. IsFiniteSet(H!Strays') /\ Cardinality(H!Strays') = Cardinality(H!Strays) - 1
    BY <2>3, FS_RemoveElement DEF SlotsCounted
  <2>5. /\ Cardinality(H!Watched) = Cardinality(H!Watched) + 0
        /\ Cardinality(H!Strays') = Cardinality(H!Strays) + (-1)
        /\ slots' = slots + 0 + (-1) /\ slots' <= MaxConcurrent
    BY <2>2, <2>4, FS_CardinalityType DEF SlotsCounted, H!RunningBounded, HealthTypeOK
  <2>6. \A m \in Checks : stray'[m] <= MaxConcurrent
    BY <2>2 DEF SlotsCounted, H!RunningBounded, HealthTypeOK
  <2>7. SlotsCounted'
    BY <2>3, <2>4, <2>5, <2>6, SlotsRecounted DEF SlotsCounted
  <2> QED  BY <2>1, <2>7
<1>3. ASSUME NEW c \in Users, H!Check(c) PROVE HealthInv'
  <2>1. PICK asked : job' = [job EXCEPT ![c] = [n \in Checks |-> IF n \in asked THEN "todo" ELSE "none"]]
    BY <1>3 DEF H!Check
  <2>2. \A n \in Checks : job[c][n] = "none"
    BY <1>3 DEF H!Check, H!Idle, H!Asked
  <2>3. HealthTypeOK' /\ Reported'
    BY <1>3, <2>1 DEF H!Check, HealthTypeOK, Reported, Jobs, H!Statuses
  <2>4. SlotsCounted'
    BY <1>3, <2>1, <2>2, SlotsStay DEF H!Check, HealthTypeOK
  <2> QED  BY <2>3, <2>4
<1>4. ASSUME NEW c \in Users, H!Publish(c) PROVE HealthInv'
  <2>1. \A n \in Checks : job[c][n] # "running"
    BY <1>4 DEF H!Publish, H!Answered, H!Asked, H!Statuses
  <2>2. HealthTypeOK' /\ Reported'
    BY <1>4 DEF H!Publish, HealthTypeOK, Reported, Jobs, Words, H!Statuses
  <2>3. SlotsCounted'
    BY <1>4, <2>1, SlotsStay DEF H!Publish, HealthTypeOK
  <2> QED  BY <2>2, <2>3
<1>5. CASE UNCHANGED H!vars
  BY <1>5, SlotsStay DEF H!vars, HealthTypeOK, Reported
<1> QED  BY <1>1, <1>2, <1>3, <1>4, <1>5, StepsOfCheck DEF H!Next

(* The health checker's invariant (lifecycle/health.go:84-322).            *)
THEOREM HealthAlways == H!Spec => []HealthInv
<1> QED  BY InitHealth, HealthStep, PTL DEF H!Spec

(* At most MaxConcurrent checks run over all calls, those that outlive     *)
(* their call included, and each slot in use is held by one that has not   *)
(* returned (runCheck, lifecycle/health.go:172-217).                       *)
THEOREM ChecksAreBounded == H!Spec => []RunningBounded
<1>1. HealthInv => RunningBounded
  BY DEF HealthInv, SlotsCounted, RunningBounded
<1> QED  BY <1>1, HealthAlways, PTL

(* IsReady says yes only if each check that it asked has itself answered,  *)
(* within this call, and not that it is unhealthy: no check that hung or   *)
(* found no slot counts as ready (lifecycle/health.go:109-220, 302-313).   *)
THEOREM NobodyIsReadyUnasked == H!Spec => ReadyIsEarned
<1>1. ASSUME HealthInv, [H!Next]_H!vars,
             NEW c \in Users, ready'[c] = "yes", ready[c] # "yes", NEW n \in H!Asked(c)
      PROVE  said[c][n] \in {"unknown", "healthy", "degraded"}
  <2>1. H!Publish(c) /\ H!IsReady(c)
    <3>1. ready' # ready
      BY <1>1
    <3>2. PICK d \in Users : H!Check(d) \/ H!Publish(d)
      BY <1>1, <3>1 DEF H!Next, H!vars, H!Register, H!StrayReturns, H!Progress, H!Begin,
          H!Acquire, H!NoSlot, H!Timeout, H!Returns
    <3>3. CASE H!Check(d)
      BY <1>1, <3>3 DEF H!Check, HealthInv, HealthTypeOK
    <3>4. CASE H!Publish(d)
      BY <1>1, <3>4 DEF H!Publish, HealthInv, HealthTypeOK
    <3> QED  BY <3>2, <3>3, <3>4
  <2>2. job[c][n] \in H!Statuses \ {"unhealthy"}
    BY <2>1 DEF H!Publish, H!Answered, H!IsReady, H!Statuses
  <2> QED  BY <1>1, <2>2 DEF HealthInv, Reported, H!Asked, H!Statuses
<1>2. HealthInv /\ [H!Next]_H!vars =>
        [\A c \in Users : (ready'[c] = "yes" /\ ready[c] # "yes") =>
           \A n \in H!Asked(c) : said[c][n] \in {"unknown", "healthy", "degraded"}]_H!vars
  BY <1>1
<1> QED  BY <1>2, HealthAlways, PTL DEF H!Spec, ReadyIsEarned, H!ReadyIsEarned
=============================================================================
