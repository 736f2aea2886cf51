---------------------------- MODULE ShutdownManager ----------------------------
(***************************************************************************)
(* ShutdownManager of lifecycle/shutdown.go: hooks that programs register  *)
(* at any time, and one shutdown that runs them one after the other by     *)
(* priority while any number of goroutines call Shutdown or Wait.          *)
(*                                                                         *)
(* Each hook runs in a goroutine of its own (runShutdownHook).  When its   *)
(* time is up the shutdown goes on without it, and the hook runs on        *)
(* beside its successors, for ever if it likes.                            *)
(***************************************************************************)
EXTENDS Integers

CONSTANTS
  Hooks,      \* the hooks a program may register
  Priority,   \* the priority of each; the smaller, the earlier
  Callers,    \* goroutines that call Shutdown
  Waiters,    \* goroutines that call Wait (or WaitAsync, which starts one)
  None

ASSUME HooksAssumption == Priority \in [Hooks -> Int] /\ None \notin Hooks

Goroutines == Callers \cup Waiters

VARIABLES
  hooks,           \* the hooks accepted by Register
  shutdownStarted, waitStarted,
  once,            \* shutdownOnce: "free", "running" or "over" (done is closed)
  todo,            \* the hooks the shutdown has still to run
  current,         \* the hook it waits for, or None
  fn,              \* of each hook's goroutine: "none", "running", or its "ok"/"error"
  expired,         \* shutdownCtx is done
  errs,            \* hooks whose failure or timeout was noted
  pc,              \* what each goroutine is doing
  result           \* what each call of Shutdown returned: the hooks in its error

vars == <<hooks, shutdownStarted, waitStarted, once, todo, current, fn,
          expired, errs, pc, result>>

Init ==
  /\ hooks = {} /\ shutdownStarted = FALSE /\ waitStarted = FALSE
  /\ once = "free" /\ todo = {} /\ current = None
  /\ fn = [h \in Hooks |-> "none"]
  /\ expired = FALSE /\ errs = {}
  /\ pc = [g \in Goroutines |-> "idle"]
  /\ result = [g \in Goroutines |-> {}]

Goto(g, place) == pc' = [pc EXCEPT ![g] = place]

-----------------------------------------------------------------------------
(* Register; a hook that comes after the shutdown has started is ignored.  *)
(* Mutant: it is accepted until the hooks have been run.                   *)
RegisterLate(h) ==
  /\ h \notin hooks /\ once # "over"
  /\ hooks' = hooks \cup {h}
  /\ UNCHANGED <<shutdownStarted, waitStarted, once, todo, current, fn, expired,
                 errs, pc, result>>
Register(h) ==
  /\ h \notin hooks /\ ~shutdownStarted
  /\ hooks' = hooks \cup {h}
  /\ UNCHANGED <<shutdownStarted, waitStarted, once, todo, current, fn, expired,
                 errs, pc, result>>

(* Shutdown, called by a program or by Wait on a signal.                   *)
CallShutdown(g) ==
  /\ pc[g] = IF g \in Callers THEN "idle" ELSE "selecting"
  /\ shutdownStarted' = TRUE
  /\ Goto(g, "entering")
  /\ UNCHANGED <<hooks, waitStarted, once, todo, current, fn, expired, errs, result>>

(* shutdownOnce.Do: the first runs the hooks, the others wait for it.      *)
EnterOnce(g) ==
  /\ pc[g] = "entering"
  /\ Goto(g, "inside")
  /\ IF once = "free" THEN once' = "running" /\ todo' = hooks
                      ELSE UNCHANGED <<once, todo>>
  /\ UNCHANGED <<hooks, shutdownStarted, waitStarted, current, fn, expired, errs, result>>

-----------------------------------------------------------------------------
(* The loop over the hooks.  The caller's context or the global timeout    *)
(* ends shutdownCtx at some moment.                                        *)
Expire ==
  /\ once = "running" /\ ~expired
  /\ expired' = TRUE
  /\ UNCHANGED <<hooks, shutdownStarted, waitStarted, once, todo, current, fn,
                 errs, pc, result>>

(* sort.Slice is not stable.  Mutant: hooks run in any order.              *)
NextHooksUnsorted == todo
NextHooks == {h \in todo : \A g \in todo : Priority[h] <= Priority[g]}

StartHook ==
  /\ once = "running" /\ current = None
  /\ \E h \in NextHooks : current' = h /\ fn' = [fn EXCEPT ![h] = "running"]
  /\ UNCHANGED <<hooks, shutdownStarted, waitStarted, once, todo, expired, errs,
                 pc, result>>

(* The hook's function returns, or panics, which counts as an error.       *)
FuncReturns(h) ==
  /\ fn[h] = "running"
  /\ \E r \in {"ok", "error"} : fn' = [fn EXCEPT ![h] = r]
  /\ UNCHANGED <<hooks, shutdownStarted, waitStarted, once, todo, current,
                 expired, errs, pc, result>>

(* The end of the loop's body: the rest is skipped once shutdownCtx is     *)
(* done.                                                                   *)
Advance ==
  /\ todo' = IF expired THEN {} ELSE todo \ {current}
  /\ current' = None

(* The select of runShutdownHook; with both ready, either.                 *)
TakeResult ==
  /\ current # None /\ fn[current] \in {"ok", "error"}
  /\ errs' = IF fn[current] = "error" THEN errs \cup {current} ELSE errs
  /\ Advance
  /\ UNCHANGED <<hooks, shutdownStarted, waitStarted, once, fn, expired, pc, result>>

(* The hook's own timeout, or shutdownCtx.                                 *)
HookTimesOut ==
  /\ current # None
  /\ errs' = errs \cup {current}
  /\ Advance
  /\ UNCHANGED <<hooks, shutdownStarted, waitStarted, once, fn, expired, pc, result>>

(* shutdownErr is set and done is closed, and the Once is over.            *)
Finish ==
  /\ once = "running" /\ current = None /\ todo = {}
  /\ once' = "over"
  /\ UNCHANGED <<hooks, shutdownStarted, waitStarted, todo, current, fn, expired,
                 errs, pc, result>>

(* A call of Shutdown gets past the Once and returns.                      *)
Return(g) ==
  /\ pc[g] = "inside" /\ once = "over"
  /\ Goto(g, "returned")
  /\ result' = [result EXCEPT ![g] = errs]
  /\ UNCHANGED <<hooks, shutdownStarted, waitStarted, once, todo, current, fn,
                 expired, errs>>

-----------------------------------------------------------------------------
(* Wait: the first caller listens for signals, the others follow.          *)
Wait(w) ==
  /\ pc[w] = "idle"
  /\ waitStarted' = TRUE
  /\ Goto(w, IF waitStarted THEN "following" ELSE "selecting")
  /\ UNCHANGED <<hooks, shutdownStarted, once, todo, current, fn, expired, errs, result>>

(* Mutant: a follower looks at the signals only.                           *)
DoneUnseenByFollowers(w) ==
  /\ pc[w] = "selecting" /\ once = "over"
  /\ Goto(w, "released")
  /\ UNCHANGED <<hooks, shutdownStarted, waitStarted, once, todo, current, fn,
                 expired, errs, result>>
SeeDone(w) ==
  /\ pc[w] \in {"selecting", "following"} /\ once = "over"
  /\ Goto(w, "released")
  /\ UNCHANGED <<hooks, shutdownStarted, waitStarted, once, todo, current, fn,
                 expired, errs, result>>

Next ==
  \/ \E h \in Hooks : Register(h) \/ FuncReturns(h)
  \/ \E g \in Goroutines : CallShutdown(g) \/ EnterOnce(g) \/ Return(g)
  \/ \E w \in Waiters : Wait(w) \/ SeeDone(w)
  \/ Expire \/ StartHook \/ TakeResult \/ HookTimesOut \/ Finish

Spec == Init /\ [][Next]_vars

(* Goroutines that can go on do, and timers fire; but a hook need never    *)
(* return, no signal need come and nobody need call Shutdown.              *)
Fairness ==
  /\ WF_vars(StartHook) /\ WF_vars(HookTimesOut) /\ WF_vars(Finish)
  /\ \A g \in Goroutines : WF_vars(EnterOnce(g)) /\ WF_vars(Return(g))
  /\ \A w \in Waiters : WF_vars(SeeDone(w))

FairSpec == Spec /\ Fairness

-----------------------------------------------------------------------------
(* Every variable keeps its type.                                          *)
TypeOK ==
  /\ hooks \subseteq Hooks /\ todo \subseteq hooks /\ errs \subseteq hooks
  /\ shutdownStarted \in BOOLEAN /\ waitStarted \in BOOLEAN /\ expired \in BOOLEAN
  /\ once \in {"free", "running", "over"}
  /\ current \in todo \cup {None}
  /\ fn \in [Hooks -> {"none", "running", "ok", "error"}]
  /\ pc \in [Goroutines -> {"idle", "selecting", "following", "entering",
                            "inside", "returned", "released"}]
  /\ result \in [Goroutines -> SUBSET hooks]

(* No hook is lost to the race of Register with Shutdown: what Register    *)
(* accepted has been run when the shutdown is over, unless its time was up.*)
NoHookLost ==
  (once = "over" /\ ~expired) => \A h \in hooks : fn[h] # "none"

(* A call of Shutdown never returns before the shutdown is over, and says  *)
(* what every other call says.                                             *)
CallersAgree ==
  \A g \in Goroutines : pc[g] = "returned" => once = "over" /\ result[g] = errs

(* Without an error every hook has run to its end, successfully, before    *)
(* Shutdown returns, unless the shutdown's time was up.                    *)
NilMeansClean ==
  \A g \in Goroutines :
    (pc[g] = "returned" /\ result[g] = {} /\ ~expired) => \A h \in hooks : fn[h] = "ok"

(* Hooks, their errors and the callers agree: nothing registered is lost,  *)
(* and what Shutdown returns is what happened, to whomever it returns.     *)
(* (lifecycle/shutdown.go:91-183.)                                         *)
HooksAreKept == NoHookLost /\ CallersAgree /\ NilMeansClean

(* A hook starts only when the shutdown waits for no other and all hooks   *)
(* of smaller priority have been started.                                  *)
RunsByPriority ==
  [][ \A h \in Hooks : (fn[h] = "none" /\ fn'[h] # "none") =>
        /\ current = None
        /\ \A g \in hooks : Priority[g] < Priority[h] => fn[g] # "none" ]_vars

(* A shutdown that has begun ends, even when hooks hang.                   *)
ShutdownEnds == shutdownStarted ~> once = "over"

(* Everyone who waits is released when the shutdown is over, and every     *)
(* call of Shutdown returns.                                               *)
WaitersReleased ==
  \A g \in Goroutines :
    (once = "over" /\ pc[g] # "idle") ~> pc[g] \in {"returned", "released"}

(* Nobody waits for ever for a shutdown that has begun.                    *)
(* (lifecycle/shutdown.go:128-237.)                                        *)
ShutdownReturns == ShutdownEnds /\ WaitersReleased
=============================================================================
