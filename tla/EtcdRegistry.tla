----------------------------- MODULE EtcdRegistry -----------------------------
(***************************************************************************)
(* EtcdRegistry of grpc/etcd.go: a service's registration in etcd under a  *)
(* lease, the goroutine that watches the lease's keep-alive stream, and    *)
(* the recovery that registers the service anew when the stream ends.      *)
(*                                                                         *)
(* operationMu admits one of Register, Deregister, Close and recovery at a *)
(* time; `op' is the one that holds it, with the request to etcd it makes  *)
(* next.  Each request is a step, which etcd may fail; the sections under  *)
(* r.mu join the step before them.  The watching goroutines run alongside, *)
(* and a recovered one starts its successor when operationMu is free again.*)
(***************************************************************************)
EXTENDS Naturals, FiniteSets

CONSTANTS
  Addresses,  \* the addresses a program registers its service under
  Leases,     \* leases of etcd; one that is gone and forgotten is granted again
  Loops,      \* the goroutines that may run keepAliveLoop at a time
  None, Done  \* no value, and a context that has been cancelled

ASSUME EtcdAssumption ==
  /\ IsFiniteSet(Leases) /\ IsFiniteSet(Loops)
  /\ None \notin Addresses \cup Leases \cup Loops \cup {Done}
  /\ Done \notin Leases

VARIABLES
  closed, registered, address, leaseID,  \* fields of r
  keeping,  \* the lease of leaseKeep, keepAliveCtx and keepAliveCancel, or None
  op,       \* the holder of operationMu
  loops,    \* what each goroutine does, and the lease of its ctx, or Done
  stream,   \* of each lease's keep-alive: "none" (or cancelled), "open", "ended"
  live,     \* etcd: the leases that have not expired
  keys,     \* etcd: the lease each address's key is attached to, or None
  healthy,  \* environment: etcd answers from now on
  gone      \* history: the address deregistered last, until the next Register

registry == <<closed, registered, address, leaseID, keeping>>
etcd == <<live, keys>>
vars == <<registry, op, loops, stream, etcd, healthy, gone>>

(* What the holder of operationMu is doing.  lease is the one it deals     *)
(* with, addr the address of a Deregister, loop the goroutine of a recovery*)
NoOp == [kind |-> "none", stage |-> "idle", lease |-> None, addr |-> None, loop |-> None]
Free == op = NoOp
OpType == [kind : {"none", "register", "recover", "deregister", "close"},
           stage : {"idle", "granting", "putting", "keeping", "revoking", "deleting"},
           lease : Leases \cup {None}, addr : Addresses \cup {None},
           loop : Loops \cup {None}]

NoLoop == [stage |-> "none", ctx |-> None]
LoopType == [stage : {"none", "watching", "recovering", "locking", "recovered"},
             ctx : Leases \cup {None, Done}]

Init ==
  /\ closed = FALSE /\ registered = FALSE
  /\ address = None /\ leaseID = None /\ keeping = None
  /\ op = NoOp
  /\ loops = [w \in Loops |-> NoLoop]
  /\ stream = [l \in Leases |-> "none"]
  /\ live = {} /\ keys = [a \in Addresses |-> None]
  /\ healthy = FALSE /\ gone = None

-----------------------------------------------------------------------------
(* What requests do in etcd.  A request that fails may have been carried   *)
(* out all the same.  A key goes with the lease it was last put under.     *)

Without(table, l) == [a \in Addresses |-> IF table[a] = l THEN None ELSE table[a]]

Revoked(l) == live' = live \ {l} /\ keys' = Without(keys, l)

Revoke(l) ==
  \/ l # None /\ Revoked(l)
  \/ (l = None \/ ~healthy) /\ UNCHANGED etcd

(* A lease that nobody keeps alive expires in the end; one that is kept    *)
(* alive, or that is only just granted, is lost while etcd is in trouble.  *)
JustGranted(l) == op.lease = l /\ op.stage \in {"putting", "keeping"}
Expire(l) ==
  /\ l \in live
  /\ ~healthy \/ (stream[l] # "open" /\ ~JustGranted(l))
  /\ Revoked(l)
  /\ UNCHANGED <<registry, op, loops, stream, healthy, gone>>

(* The keep-alive channel is closed: the lease is gone, or the answers did *)
(* not come in time.                                                       *)
StreamEnds(l) ==
  /\ stream[l] = "open"
  /\ l \notin live \/ ~healthy
  /\ stream' = [stream EXCEPT ![l] = "ended"]
  /\ UNCHANGED <<registry, op, loops, etcd, healthy, gone>>

Heal ==
  /\ ~healthy
  /\ healthy' = TRUE
  /\ UNCHANGED <<registry, op, loops, stream, etcd, gone>>

-----------------------------------------------------------------------------
(* Cancelling the context of the current keep-alive.                       *)

Cancelled == [l \in Leases |-> IF l = keeping THEN "none" ELSE stream[l]]
CancelLoops ==
  loops' = [w \in Loops |-> IF keeping # None /\ loops[w].ctx = keeping
                            THEN [loops[w] EXCEPT !.ctx = Done] ELSE loops[w]]

(* Mutant: nothing is cancelled.                                           *)
stopKeepAliveUncancelled == keeping' = None /\ UNCHANGED <<stream, loops>>
stopKeepAliveLocked == stream' = Cancelled /\ CancelLoops /\ keeping' = None

(* The registration is given up (Deregister, Close).  Mutant: it is not.   *)
DeactivateNothing == UNCHANGED <<registered, leaseID, keeping, stream, loops>>
Deactivate == registered' = FALSE /\ leaseID' = None /\ stopKeepAliveLocked

Register(a) ==
  /\ Free /\ ~closed
  /\ \E w \in Loops : loops[w] = NoLoop  \* bound on the goroutines
  /\ stopKeepAliveLocked
  /\ registered' = TRUE /\ address' = a
  /\ op' = [NoOp EXCEPT !.kind = "register", !.stage = "granting"]
  /\ gone' = None
  /\ UNCHANGED <<closed, leaseID, etcd, healthy>>

(* On a closed registry Deregister changes nothing and returns an error.   *)
Deregister(a) ==
  /\ Free /\ ~closed
  /\ Deactivate
  /\ op' = [NoOp EXCEPT !.kind = "deregister", !.stage = "revoking",
                        !.lease = leaseID, !.addr = a]
  /\ UNCHANGED <<closed, address, etcd, healthy, gone>>

Close ==
  /\ Free /\ ~closed
  /\ Deactivate /\ closed' = TRUE
  /\ op' = [NoOp EXCEPT !.kind = "close", !.stage = "revoking", !.lease = leaseID]
  /\ UNCHANGED <<address, etcd, healthy, gone>>

-----------------------------------------------------------------------------
(* establishLease, for Register and for a recovery.                        *)

(* The operation fails: Register gives up, a recovery is tried again.      *)
(* Mutant: a recovery that failed is the last.                             *)
FailNoRetry ==
  /\ op' = NoOp
  /\ registered' = (registered /\ op.kind # "register")
  /\ loops' = [w \in Loops |-> IF w = op.loop THEN NoLoop ELSE loops[w]]
Fail ==
  /\ op' = NoOp
  /\ registered' = (registered /\ op.kind # "register")
  /\ loops' = [w \in Loops |-> IF w = op.loop THEN [loops[w] EXCEPT !.stage = "recovering"]
                                              ELSE loops[w]]

Forgotten(l) == l \notin live /\ l # leaseID /\ \A w \in Loops : loops[w].ctx # l

(* A lease granted in an answer that is lost carries nothing and expires.  *)
Grant ==
  /\ op.stage = "granting"
  /\ \/ \E l \in Leases :
          /\ Forgotten(l)
          /\ live' = live \cup {l}
          /\ stream' = [stream EXCEPT ![l] = "none"]
          /\ op' = [op EXCEPT !.stage = "putting", !.lease = l]
          /\ UNCHANGED <<registered, loops>>
     \/ /\ ~healthy
        /\ Fail
        /\ UNCHANGED <<live, stream>>
  /\ UNCHANGED <<closed, address, leaseID, keeping, keys, healthy, gone>>

Put ==
  /\ op.stage = "putting" /\ op.lease \in live
  /\ keys' = [keys EXCEPT ![address] = op.lease]
  /\ op' = [op EXCEPT !.stage = "keeping"]
  /\ UNCHANGED <<registry, loops, stream, live, healthy, gone>>

(* The new lease is revoked, if that succeeds.                             *)
PutFails ==
  /\ op.stage = "putting" /\ (op.lease \notin live \/ ~healthy)
  /\ \E written \in {keys} \cup {[keys EXCEPT ![address] = l] : l \in {op.lease} \cap live} :
       \/ live' = live \ {op.lease} /\ keys' = Without(written, op.lease)
       \/ ~healthy /\ live' = live /\ keys' = written
  /\ Fail
  /\ UNCHANGED <<closed, address, leaseID, keeping, stream, healthy, gone>>

(* client.KeepAlive, and the section that makes the new lease the current  *)
(* one.  That section looks again whether the registry is still active,    *)
(* which it is, since whatever ends a registration needs operationMu.      *)
Install ==
  /\ op.stage = "keeping"
  /\ leaseID' = op.lease /\ keeping' = op.lease
  /\ CancelLoops
  /\ stream' = [Cancelled EXCEPT ![op.lease] = "open"]
  /\ op' = [op EXCEPT !.stage = "revoking", !.lease = leaseID]
  /\ UNCHANGED <<closed, registered, address, etcd, healthy, gone>>

KeepAliveFails ==
  /\ op.stage = "keeping" /\ ~healthy
  /\ Revoke(op.lease)
  /\ Fail
  /\ UNCHANGED <<closed, address, leaseID, keeping, stream, healthy, gone>>

-----------------------------------------------------------------------------
(* startKeepAlive by goroutine w, or for it.                               *)
Started(w) == [loops EXCEPT ![w] =
  IF closed \/ ~registered \/ keeping = None THEN NoLoop
  ELSE [stage |-> "watching", ctx |-> keeping]]

(* The last request of establishLease and Close, the first of Deregister.  *)
RevokeLease ==
  /\ op.stage = "revoking"
  /\ Revoke(op.lease)
  /\ \/ /\ op.kind = "register"
        /\ \E w \in Loops : loops[w] = NoLoop /\ loops' = Started(w)
        /\ op' = NoOp
     \/ /\ op.kind = "recover"
        /\ loops' = [loops EXCEPT ![op.loop].stage = "recovered"]
        /\ op' = NoOp
     \/ /\ op.kind = "deregister"
        /\ op' = [op EXCEPT !.stage = "deleting"] /\ UNCHANGED loops
     \/ /\ op.kind = "close"
        /\ op' = NoOp /\ UNCHANGED loops
  /\ UNCHANGED <<registry, stream, healthy, gone>>

DeleteKey ==
  /\ op.stage = "deleting"
  /\ \/ keys' = [keys EXCEPT ![op.addr] = None] /\ gone' = op.addr
     \/ ~healthy /\ keys' \in {keys, [keys EXCEPT ![op.addr] = None]} /\ UNCHANGED gone
  /\ op' = NoOp
  /\ UNCHANGED <<registry, loops, stream, live, healthy>>

-----------------------------------------------------------------------------
(* keepAliveLoop, on goroutine w.                                          *)

SetLoop(w, stage) == loops' = [loops EXCEPT ![w].stage = stage]

(* ctx is done, or the registration is another one by now.                 *)
LoopEnds(w) ==
  /\ loops[w].stage \in {"watching", "recovering"}
  /\ \/ loops[w].ctx = Done
     \/ loops[w].stage = "watching" /\ (closed \/ ~registered \/ keeping # loops[w].ctx)
  /\ loops' = [loops EXCEPT ![w] = NoLoop]
  /\ UNCHANGED <<registry, op, stream, etcd, healthy, gone>>

(* The channel is closed.  Were ctx done as well, the next look at it would *)
(* end the goroutine, as LoopEnds does.                                    *)
LoopNotices(w) ==
  /\ loops[w].stage = "watching"
  /\ loops[w].ctx # Done /\ stream[loops[w].ctx] = "ended"
  /\ SetLoop(w, "recovering")
  /\ UNCHANGED <<registry, op, stream, etcd, healthy, gone>>

(* ctx is not done; the goroutine goes on to operationMu.Lock.             *)
LoopRetries(w) ==
  /\ loops[w].stage = "recovering" /\ loops[w].ctx # Done
  /\ SetLoop(w, "locking")
  /\ UNCHANGED <<registry, op, stream, etcd, healthy, gone>>

(* With operationMu: the registration may have ended while the goroutine   *)
(* waited; then establishLease refuses, or its first request does, whose   *)
(* context is derived from ctx.                                            *)
BeginRecovery(w) ==
  /\ loops[w].stage = "locking" /\ Free
  /\ IF closed \/ ~registered \/ loops[w].ctx = Done
     THEN SetLoop(w, "recovering") /\ UNCHANGED op
     ELSE /\ op' = [NoOp EXCEPT !.kind = "recover", !.stage = "granting", !.loop = w]
          /\ UNCHANGED loops
  /\ UNCHANGED <<registry, stream, etcd, healthy, gone>>

StartSuccessor(w) ==
  /\ loops[w].stage = "recovered"
  /\ loops' = Started(w)
  /\ UNCHANGED <<registry, op, stream, etcd, healthy, gone>>

Operation == \/ Grant \/ Put \/ PutFails \/ Install \/ KeepAliveFails
             \/ RevokeLease \/ DeleteKey

Loop(w) == \/ LoopEnds(w) \/ LoopNotices(w) \/ LoopRetries(w)
           \/ BeginRecovery(w) \/ StartSuccessor(w)

Next ==
  \/ \E a \in Addresses : Register(a) \/ Deregister(a)
  \/ Close
  \/ Operation
  \/ \E w \in Loops : Loop(w)
  \/ \E l \in Leases : Expire(l) \/ StreamEnds(l)
  \/ Heal

Spec == Init /\ [][Next]_vars

(* Requests return (they have deadlines), goroutines run and get the mutex *)
(* in the end, and what is due to expire or to end does.                   *)
Fairness ==
  /\ WF_vars(Operation)
  /\ \A w \in Loops : WF_vars(Loop(w)) /\ SF_vars(BeginRecovery(w))
  /\ \A l \in Leases : /\ WF_vars(stream[l] # "open" /\ Expire(l))
                       /\ WF_vars(l \notin live /\ StreamEnds(l))

FairSpec == Spec /\ Fairness

-----------------------------------------------------------------------------
(* Every variable keeps its type, and the lease that is kept alive is the  *)
(* registration's.                                                         *)
TypeOK ==
  /\ closed \in BOOLEAN /\ registered \in BOOLEAN /\ healthy \in BOOLEAN
  /\ address \in Addresses \cup {None} /\ gone \in Addresses \cup {None}
  /\ leaseID \in Leases \cup {None} /\ keeping \in {None, leaseID}
  /\ op \in OpType
  /\ loops \in [Loops -> LoopType]
  /\ \A w \in Loops : loops[w].stage = "none" <=> loops[w].ctx = None
  /\ stream \in [Leases -> {"none", "open", "ended"}]
  /\ live \subseteq Leases
  /\ keys \in [Addresses -> live \cup {None}]

(* While a service is registered some goroutine watches over the current   *)
(* lease or is about to: no order of recoveries and Register calls leaves  *)
(* a registration that would silently expire (startKeepAlive runs after    *)
(* the recovery has let operationMu go, and may find another lease).       *)
SomeoneWatches ==
  (registered /\ Free) =>
    /\ keeping # None
    /\ \E w \in Loops : \/ loops[w].stage = "recovered"
                        \/ loops[w].stage # "none" /\ loops[w].ctx = keeping

(* No lease is kept alive behind the registry's back: a registration that  *)
(* was replaced, deregistered or closed is left to expire.                 *)
OnlyCurrentLeaseKept ==
  \A l \in Leases : stream[l] = "open" => l = keeping /\ registered /\ ~closed

(* A service that was deregistered does not come back before the next      *)
(* Register: no recovery that was under way or waiting puts its key again. *)
NoResurrection == gone # None => keys[gone] = None

(* The lease that is kept alive carries the key of the service: what is    *)
(* revoked or given up on the way never takes the current key with it.     *)
KeptLeaseCarriesKey ==
  (keeping # None /\ stream[keeping] = "open" /\ keeping \in live)
    => keys[address] = keeping

(* What the registry keeps alive is exactly what is registered: somebody   *)
(* watches its lease, no other lease is kept, and it carries the key.      *)
(* (grpc/etcd.go:541-619 and 621-677.)                                     *)
RegistrationIsKept == SomeoneWatches /\ OnlyCurrentLeaseKept /\ KeptLeaseCarriesKey

(* Once etcd answers again a registered service is, or becomes, present    *)
(* under a lease that is kept alive, unless it is deregistered meanwhile.  *)
RegisteredServiceReturns ==
  (healthy /\ registered) ~>
     (~registered \/ (keys[address] # None /\ keys[address] = keeping))

(* A key that is not the current registration's disappears in the end,     *)
(* whether or not the requests that were to remove it got through.         *)
StaleKeysVanish ==
  \A a \in Addresses :
    keys[a] # None ~> (keys[a] = None \/ (registered /\ address = a))
=============================================================================
