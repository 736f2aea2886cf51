------------------------------ MODULE Discovery ------------------------------
(***************************************************************************)
(* The way of a service's addresses from etcd to those who use them:       *)
(* EtcdResolver (grpc/etcd.go), which lists and watches, serviceResolver   *)
(* (grpc/resolver.go), which feeds a gRPC ClientConn, and the public Watch.*)
(* Three kinds of goroutine call back with addresses:                      *)
(*   - Loop, serviceResolver.start of one ClientConn;                      *)
(*   - each of Nudges, a call of ResolveNow on the same ClientConn;        *)
(*   - Sub, the goroutine of one call of EtcdResolver.Watch.               *)
(* A list of addresses is the revision of etcd it was read at; what a      *)
(* property tells apart beside that is whether a revision has addresses.   *)
(* The same start and ResolveNow also run over a StaticResolver, whose     *)
(* revisions are the calls of UpdateAddresses.                             *)
(***************************************************************************)
EXTENDS Naturals, Sequences

CONSTANTS
  Loop, Sub, Nudges,
  MaxRev,     \* bound on the revisions
  Together    \* whether the ClientConn and the public Watch run side by side

Goroutines == {Loop, Sub} \cup Nudges

ASSUME DiscoveryAssumption ==
  MaxRev \in Nat \ {0} /\ Together \in BOOLEAN /\ Loop # Sub /\ {Loop, Sub} \cap Nudges = {}

VARIABLES
  kind,       \* the ServiceDiscovery: "etcd" or "static"
  live,       \* for every revision so far, whether the service has addresses
  flaky,      \* requests to etcd and watch streams may fail
  sdClosed,   \* EtcdResolver.closed
  watchers,   \* whose cancel functions EtcdResolver.watchers holds
  conn,       \* the serviceResolver: "open", "closed" (marked), "cancelled"
  subDone,    \* the context of the public Watch is done
  shown,      \* the revision given to the ClientConn last, 0 for none
  view,       \* the revision the public Watch called back with last
  accepted,   \* the public Watch has returned nil
  pc,
  got,        \* the revision each goroutine has read and is to report
  next,       \* where it goes on after that
  seen,       \* the revision its watch stream has reached
  overtaken,  \* history: ResolveNow put an older revision over a newer one
  lateErrors  \* history: errors reported to the ClientConn after Close had returned

sdVars == <<kind, live, flaky, sdClosed>>
ctxVars == <<conn, subDone>>
outVars == <<shown, view, accepted, overtaken, lateErrors>>
vars == <<sdVars, watchers, ctxVars, outVars, pc, got, next, seen>>

newest == Len(live)

Init ==
  /\ kind \in {"etcd", "static"} /\ live \in {<<TRUE>>, <<FALSE>>}
  /\ flaky = TRUE /\ sdClosed = FALSE /\ watchers = {}
  /\ conn = "open" /\ subDone = FALSE
  /\ shown = 0 /\ view = 0 /\ accepted = FALSE /\ overtaken = FALSE /\ lateErrors = 0
  /\ pc = [g \in Goroutines |-> "idle"]
  /\ got = [g \in Goroutines |-> 0] /\ seen = [g \in Goroutines |-> 0]
  /\ next = [g \in Goroutines |-> "idle"]

Goto(g, place) == pc' = [pc EXCEPT ![g] = place]
CtxDone(g) == IF g = Sub THEN subDone ELSE conn = "cancelled"

-----------------------------------------------------------------------------
(* The store.  UpdateAddresses, or instances that come and go in etcd.     *)
Publish ==
  /\ newest < MaxRev
  /\ \E b \in BOOLEAN : live' = Append(live, b)
  /\ UNCHANGED <<kind, flaky, sdClosed, watchers, ctxVars, outVars, pc, got, next, seen>>

(* From some moment on etcd answers and its streams hold.                  *)
Heal ==
  /\ flaky /\ flaky' = FALSE
  /\ UNCHANGED <<kind, live, sdClosed, watchers, ctxVars, outVars, pc, got, next, seen>>

(* getServiceInstances: a closed resolver and a done context give an error.*)
CanRead(g) == kind = "static" \/ (~sdClosed /\ ~CtxDone(g))
CanFail(g) == kind = "etcd" /\ (flaky \/ sdClosed \/ CtxDone(g))

-----------------------------------------------------------------------------
(* Reporting.  updateState reads again for the weights when there are      *)
(* addresses; the callback of the public Watch is the user's.  Mutant: the *)
(* list may come from a replica of etcd that lags.                         *)
CallBackLagging(g, r, then) ==
  /\ \E s \in {r - 1, r} \ {0} : got' = [got EXCEPT ![g] = s]
  /\ next' = [next EXCEPT ![g] = then]
  /\ Goto(g, IF kind = "etcd" /\ g # Sub /\ live[r] THEN "enrich" ELSE "apply")
CallBack(g, r, then) ==
  /\ got' = [got EXCEPT ![g] = r]
  /\ next' = [next EXCEPT ![g] = then]
  /\ Goto(g, IF kind = "etcd" /\ g # Sub /\ live[r] THEN "enrich" ELSE "apply")

(* ResolveResolverAddresses: its list replaces the first, unless it has    *)
(* failed or found no addresses.                                           *)
Enrich(g) ==
  /\ pc[g] = "enrich"
  /\ \/ CanRead(g) /\ got' = [got EXCEPT ![g] = IF live[newest] THEN newest ELSE @]
     \/ CanFail(g) /\ UNCHANGED got
  /\ Goto(g, "apply")
  /\ UNCHANGED <<sdVars, watchers, ctxVars, outVars, next, seen>>

(* updateResolverState: stateMu is held while the ClientConn is updated,   *)
(* which is a call into gRPC and takes its time.                           *)
Updating == {g \in Goroutines : pc[g] = "update"}
UpdatesConn == conn = "open"

Apply(g) ==
  /\ pc[g] = "apply"
  /\ IF g = Sub
     THEN /\ view' = got[g] /\ accepted' = TRUE
          /\ Goto(g, next[g])
     ELSE /\ Updating = {}
          /\ Goto(g, IF UpdatesConn THEN "update" ELSE next[g])
          /\ UNCHANGED <<view, accepted>>
  /\ UNCHANGED <<sdVars, watchers, ctxVars, shown, overtaken, lateErrors, got, next, seen>>

(* UpdateState of the ClientConn has returned.                             *)
Update(g) ==
  /\ pc[g] = "update"
  /\ shown' = got[g]
  /\ overtaken' = \/ g \in Nudges /\ got[g] < shown
                  \/ overtaken /\ got[g] < newest
  /\ Goto(g, next[g])
  /\ UNCHANGED <<sdVars, watchers, ctxVars, view, accepted, lateErrors, got, next, seen>>

(* ReportError of the ClientConn: without stateMu, and whether the         *)
(* resolver has been closed in the meantime or not.                        *)
ReportError(g) ==
  /\ pc[g] = "report"
  /\ lateErrors' = IF conn = "cancelled" THEN lateErrors + 1 ELSE lateErrors
  /\ Goto(g, next[g])
  /\ UNCHANGED <<sdVars, watchers, ctxVars, shown, view, accepted, overtaken, got, next, seen>>

(* Goes on at a place once the error has been reported.                    *)
ReportsThen(g, then) == Goto(g, "report") /\ next' = [next EXCEPT ![g] = then]

-----------------------------------------------------------------------------
(* Resolve, as start calls it at first and after each pause, ResolveNow,   *)
(* and a watch upon an event.  Only the watch reports that there are no    *)
(* addresses any more.                                                     *)
Resolving == [first |-> "watch", again |-> "watch", nudge |-> "idle", event |-> "stream"]

(* The end of a watch, with its cancel function removed.                   *)
EndWatch(g) == watchers' = watchers \ {g} /\ Goto(g, "ended")

ResolveSucceeds(g) ==
  /\ pc[g] \in DOMAIN Resolving /\ CanRead(g)
  /\ live[newest] \/ pc[g] = "event"
  /\ CallBack(g, newest, Resolving[pc[g]])
  /\ UNCHANGED <<sdVars, watchers, ctxVars, outVars, seen>>

ResolveFails(g) ==
  /\ pc[g] \in DOMAIN Resolving
  /\ CanFail(g) \/ (~live[newest] /\ pc[g] # "event")
  /\ CASE pc[g] = "event" -> EndWatch(g) /\ UNCHANGED next
       [] pc[g] = "first" -> ReportsThen(g, Resolving[pc[g]]) /\ UNCHANGED watchers
       [] OTHER -> Goto(g, Resolving[pc[g]]) /\ UNCHANGED <<next, watchers>>
  /\ UNCHANGED <<sdVars, ctxVars, outVars, got, seen>>

(* start, called with a resolver that has been closed already.             *)
StartTooLate(g) ==
  /\ pc[g] = "first" /\ CtxDone(g)
  /\ Goto(g, "over")
  /\ UNCHANGED <<sdVars, watchers, ctxVars, outVars, got, next, seen>>

-----------------------------------------------------------------------------
(* watch: the cancel function is entered, unless the resolver is closed.   *)
Register(g) ==
  /\ pc[g] = "watch" /\ kind = "etcd"
  /\ IF sdClosed THEN Goto(g, "ended") /\ UNCHANGED watchers
                 ELSE Goto(g, "snapshot") /\ watchers' = watchers \cup {g}
  /\ UNCHANGED <<sdVars, ctxVars, outVars, got, next, seen>>

(* The snapshot is reported, also an empty one, but for the call of the    *)
(* public Watch, which fails without addresses.                            *)
Refuses(g) == g = Sub /\ ~accepted /\ ~live[newest]

Snapshot(g) ==
  /\ pc[g] = "snapshot" /\ CanRead(g) /\ ~Refuses(g)
  /\ CallBack(g, newest, "open")
  /\ seen' = [seen EXCEPT ![g] = newest]
  /\ UNCHANGED <<sdVars, watchers, ctxVars, outVars>>

SnapshotFails(g) ==
  /\ pc[g] = "snapshot" /\ (CanFail(g) \/ (CanRead(g) /\ Refuses(g)))
  /\ EndWatch(g)
  /\ UNCHANGED <<sdVars, ctxVars, outVars, got, next, seen>>

(* client.Watch, from the revision after the snapshot.  Mutant: from now.  *)
WatchFromNow(g) == seen' = [seen EXCEPT ![g] = newest]
WatchFrom(g) == UNCHANGED seen

OpenStream(g) ==
  /\ pc[g] = "open"
  /\ WatchFrom(g)
  /\ Goto(g, "stream")
  /\ UNCHANGED <<sdVars, watchers, ctxVars, outVars, got, next>>

(* A response of the stream carries one or several revisions.              *)
Event(g) ==
  /\ pc[g] = "stream"
  /\ \E r \in seen[g] + 1 .. newest : seen' = [seen EXCEPT ![g] = r]
  /\ Goto(g, "event")
  /\ UNCHANGED <<sdVars, watchers, ctxVars, outVars, got, next>>

(* The stream breaks, is cancelled by etcd (compaction) or by its context, *)
(* which Close of either side ends.  Mutant: Close of EtcdResolver does    *)
(* not cancel the watches.                                                 *)
StreamEndsByContext(g) == flaky \/ CtxDone(g)
StreamEnds(g) == flaky \/ CtxDone(g) \/ sdClosed

LoseStream(g) ==
  /\ pc[g] = "stream" /\ StreamEnds(g)
  /\ EndWatch(g)
  /\ UNCHANGED <<sdVars, ctxVars, outVars, got, next, seen>>

(* StaticResolver.Watch: one callback, and nil, after which start is over. *)
WatchStatic(g) ==
  /\ pc[g] = "watch" /\ kind = "static"
  /\ IF live[newest] THEN CallBack(g, newest, "ended")
                     ELSE Goto(g, "ended") /\ UNCHANGED <<got, next>>
  /\ UNCHANGED <<sdVars, watchers, ctxVars, outVars, seen>>

-----------------------------------------------------------------------------
(* A watch has ended: unless there is nothing to go on for, start reports  *)
(* the error and pauses, and retryEtcdWatch pauses.                        *)
Over(g) ==
  \/ CtxDone(g)
  \/ g = Sub /\ (sdClosed \/ ~accepted)
  \/ kind = "static" /\ next[g] = "ended"

Ended(g) ==
  /\ pc[g] = "ended"
  /\ IF Over(g) \/ g = Sub
     THEN /\ Goto(g, IF ~Over(g) THEN "pause" ELSE IF g = Sub /\ ~accepted THEN "idle" ELSE "over")
          /\ UNCHANGED next
     ELSE ReportsThen(g, "pause")
  /\ UNCHANGED <<sdVars, watchers, ctxVars, outVars, got, seen>>

(* The timer, or the context.                                              *)
Wake(g) ==
  /\ pc[g] = "pause"
  /\ \/ CtxDone(g) /\ Goto(g, "over")
     \/ Goto(g, IF g = Sub THEN "watch" ELSE "again")
  /\ UNCHANGED <<sdVars, watchers, ctxVars, outVars, got, next, seen>>

-----------------------------------------------------------------------------
(* Users: gRPC calls Build, ResolveNow and Close, a program Watch and the  *)
(* two ways to end it.                                                     *)
Build ==
  /\ pc[Loop] = "idle" /\ (Together \/ pc[Sub] = "idle")
  /\ Goto(Loop, "first")
  /\ UNCHANGED <<sdVars, watchers, ctxVars, outVars, got, next, seen>>

ResolveNow(n) ==
  /\ pc[n] = "idle" /\ pc[Loop] # "idle" /\ ~CtxDone(n)
  /\ Goto(n, "nudge")
  /\ UNCHANGED <<sdVars, watchers, ctxVars, outVars, got, next, seen>>

Watch ==
  /\ pc[Sub] = "idle" /\ kind = "etcd" /\ (Together \/ pc[Loop] = "idle")
  /\ Goto(Sub, "watch")
  /\ UNCHANGED <<sdVars, watchers, ctxVars, outVars, got, next, seen>>

EndSub ==
  /\ ~subDone /\ pc[Sub] # "idle"
  /\ subDone' = TRUE
  /\ UNCHANGED <<sdVars, watchers, conn, outVars, pc, got, next, seen>>

(* serviceResolver.Close marks first, under stateMu, so that it waits for  *)
(* the update under way, and cancels then.  Mutant: it does not wait.      *)
MayMarkAtOnce == TRUE
MayMark == Updating = {}

CloseResolver ==
  /\ pc[Loop] # "idle"
  /\ \/ conn = "open" /\ MayMark /\ conn' = "closed"
     \/ conn = "closed" /\ conn' = "cancelled"
  /\ UNCHANGED <<sdVars, watchers, subDone, outVars, pc, got, next, seen>>

CloseDiscovery ==
  /\ kind = "etcd" /\ ~sdClosed
  /\ sdClosed' = TRUE /\ watchers' = {}
  /\ UNCHANGED <<kind, live, flaky, ctxVars, outVars, pc, got, next, seen>>

Step(g) ==
  \/ Enrich(g) \/ Apply(g) \/ Update(g) \/ ReportError(g)
  \/ ResolveSucceeds(g) \/ ResolveFails(g) \/ StartTooLate(g)
  \/ Register(g) \/ Snapshot(g) \/ SnapshotFails(g) \/ OpenStream(g) \/ Event(g)
  \/ WatchStatic(g) \/ Ended(g) \/ Wake(g)
Next ==
  \/ \E g \in Goroutines : Step(g) \/ LoseStream(g)
  \/ \E n \in Nudges : ResolveNow(n)
  \/ Publish \/ Heal \/ Build \/ Watch \/ EndSub \/ CloseDiscovery \/ CloseResolver

Spec == Init /\ [][Next]_vars

(* Goroutines that can go on do, timers fire, cancelled contexts are seen, *)
(* and etcd is well again some day; nobody need publish, call or close.    *)
(* stateMu is handed to who waits for it, however often ResolveNow is      *)
(* called beside it.                                                       *)
Fairness ==
  /\ WF_vars(Heal)
  /\ SF_vars(Apply(Loop))
  /\ \A g \in Goroutines : WF_vars(Step(g)) /\ WF_vars(~flaky /\ LoseStream(g))
  /\ WF_vars(conn = "closed" /\ CloseResolver)

FairSpec == Spec /\ Fairness

-----------------------------------------------------------------------------
(* "Marking the resolver closed ... prevents callbacks from updating the   *)
(* ClientConn after Close returns": the ClientConn is updated by one       *)
(* goroutine at a time and by none once the resolver is marked, not even   *)
(* by one that had begun before; and all that reaches it after Close has   *)
(* returned is one error of a list or watch that was under way, since no   *)
(* goroutine of a closed resolver goes on to another.                      *)
(* (grpc/resolver.go:175-255, 293-345.)                                    *)
QuietAfterClose ==
  /\ \A g, h \in Updating : g = h
  /\ conn # "open" => Updating = {}
  /\ lateErrors <= 1

(* The public Watch implements the feed it stands for: once accepted, its  *)
(* callback never goes back to an older list, whatever streams are lost    *)
(* and lists read again in between, and comes no more once it is over.     *)
(* (grpc/etcd.go:238-330.)                                                 *)
Feed == INSTANCE AddressFeed WITH
  phase <- IF pc[Sub] = "over" THEN "over"
           ELSE IF accepted \/ pc[Sub] = "apply" THEN "on" ELSE "off",
  calm <- ~flaky

ImplementsFeed == Feed!Spec

(* Both end up with the newest addresses of etcd however lists, snapshots  *)
(* and events interleave with changes, broken streams and failed requests: *)
(* the public Watch, and a ClientConn unless a ResolveNow that had read    *)
(* earlier wrote later.  (grpc/etcd.go:238-330, grpc/resolver.go:292-345.) *)
ConnConverges ==
  \A r \in 1 .. MaxRev :
    (kind = "etcd" /\ newest = r /\ pc[Loop] # "idle")
      ~> (shown = r \/ newest # r \/ overtaken \/ conn # "open" \/ sdClosed)

EventuallyCurrent == ConnConverges /\ Feed!Converges

(* Closing reaches every watch: the goroutine of a closed resolver and all *)
(* watches of a closed discovery come to their end.                        *)
ClosingEndsWatches ==
  /\ (conn # "open") ~> pc[Loop] = "over"
  /\ sdClosed ~> \A g \in Goroutines : pc[g] \notin {"stream", "event"}
=============================================================================
