------------------------------ MODULE GrpcClient ------------------------------
(***************************************************************************)
(* The stand-alone client (grpc_client.go, GrpcClient) and the client of   *)
(* grpc/client.go it wraps.                                                *)
(*                                                                         *)
(* With etcd, a GrpcClient takes two references to the discovery that the  *)
(* scheme table shares: its own and that of its Client.  While anybody     *)
(* holds one, a discovery of another configuration is refused.  When the   *)
(* Close of the shared discovery fails, the table keeps its last reference *)
(* although nobody holds it.                                               *)
(*                                                                         *)
(* Connect dials without the client's lock and waits until the connection  *)
(* is ready, so it may end after a second Connect or after Close.  The     *)
(* calls of one GrpcClient's Close do not run concurrently with each       *)
(* other: nothing in the code orders them, and nothing in it promises that *)
(* they may.                                                               *)
(***************************************************************************)
EXTENDS Naturals, FiniteSets

CONSTANTS
  Objects,     \* the stand-alone clients of the process
  ConfigOf,    \* resolverConfigKey of the etcd configuration of each of them
  Callers,     \* goroutines that call Connect
  None,
  MaxConns     \* bound: connections dialled in a behaviour

ConnIds == 1..MaxConns

ClientAssumption ==
  IsFiniteSet(Objects) /\ MaxConns \in Nat /\ None \notin Objects \cup ConnIds

VARIABLES
  entry,       \* the table's entry of the scheme: [sd, key, refs]
  discoveries, \* discoveries that are open; each is named after its creator
  stage,       \* how far NewGrpcClient and Close have come, per object
  own,         \* GrpcClient.etcdResolver
  lent,        \* Client.resolverSD
  conn,        \* Client.conn
  open,        \* connections dialled and not closed
  dialled,     \* connections dialled so far
  call,        \* per caller: [at, obj, conn]
  stranded,    \* history: the Close of the shared discovery has failed
  overtaken    \* objects of which a Connect stored its connection after Close

refs == <<entry, discoveries, own, lent, stranded>>
dials == <<conn, open, dialled, call, overtaken>>
vars == <<refs, stage, dials>>

Idle == [at |-> "idle", obj |-> None, conn |-> None]

(* Nothing registered, no client made: grpc/resolver.go:360-362.           *)
Init ==
  /\ entry = [sd |-> None, key |-> None, refs |-> 0]
  /\ discoveries = {} /\ stranded = FALSE
  /\ stage = [o \in Objects |-> "new"]
  /\ own = [o \in Objects |-> None] /\ lent = [o \in Objects |-> None]
  /\ conn = [o \in Objects |-> None]
  /\ open = {} /\ dialled = 0
  /\ call = [p \in Callers |-> Idle]
  /\ overtaken = {}

Goto(o, s) == stage' = [stage EXCEPT ![o] = s]

----------------------------------------------------------------------------
(* NewGrpcClient: options that do not parse fail before anything is made;  *)
(* without discovery nothing is registered; with etcd a discovery is made. *)
Normalize(o) ==
  /\ stage[o] = "new"
  /\ UNCHANGED <<dials, entry, own, lent, stranded>>
  /\ \/ Goto(o, "failed") /\ UNCHANGED discoveries
     \/ Goto(o, "credentials") /\ UNCHANGED discoveries
     \/ Goto(o, "register") /\ discoveries' = discoveries \cup {o}

(* RegisterResolverAndGet: an entry in use by another configuration        *)
(* refuses, and NewGrpcClient closes what it has made and fails; otherwise *)
(* it hands out the entry's discovery, and a new one that is not used is   *)
(* closed.                                                                 *)
Refused(o) == entry.refs > 0 /\ entry.key # ConfigOf[o]
Shared(o) == IF entry.refs = 0 THEN o ELSE entry.sd

RegisterOwn(o) ==
  /\ stage[o] = "register"
  /\ \/ /\ Refused(o)
        /\ discoveries' = discoveries \ {o}
        /\ Goto(o, "failed")
        /\ UNCHANGED <<entry, own>>
     \/ /\ ~Refused(o)
        /\ entry' = [sd |-> Shared(o), key |-> ConfigOf[o], refs |-> entry.refs + 1]
        /\ own' = [own EXCEPT ![o] = Shared(o)]
        /\ discoveries' = IF Shared(o) = o THEN discoveries ELSE discoveries \ {o}
        /\ Goto(o, "lend")
  /\ UNCHANGED <<lent, stranded, dials>>

(* NewClient registers the discovery it was given once more.  The object's *)
(* own reference keeps the entry at its configuration: never refused.      *)
RegisterLent(o) ==
  /\ stage[o] = "lend"
  /\ entry' = [entry EXCEPT !.refs = @ + 1]
  /\ lent' = [lent EXCEPT ![o] = entry.sd]
  /\ Goto(o, "credentials")
  /\ UNCHANGED <<discoveries, own, stranded, dials>>

(* ReleaseResolver: the last reference closes the discovery; when its      *)
(* Close returns an error the entry is not written back.  The caller       *)
(* forgets its reference whatever comes of it.                             *)
ReleaseRef(sd) ==
  \/ /\ sd = None
     /\ UNCHANGED <<entry, discoveries, stranded>>
  \/ /\ sd # None /\ entry.refs > 1
     /\ entry' = [entry EXCEPT !.refs = @ - 1]
     /\ UNCHANGED <<discoveries, stranded>>
  \/ /\ sd # None /\ entry.refs = 1
     /\ discoveries' = discoveries \ {entry.sd}
     /\ \/ /\ entry' = [entry EXCEPT !.sd = None, !.refs = 0]
           /\ UNCHANGED stranded
        \/ /\ entry.sd \in discoveries  \* Close fails: one closed before does not
           /\ stranded' = TRUE
           /\ UNCHANGED entry

(* The credentials are missing or do not load: NewClient closes the client *)
(* it has begun, which releases its reference, and NewGrpcClient its own.  *)
BadCredentials(o) ==
  /\ stage[o] = "credentials"
  /\ ReleaseRef(lent[o])
  /\ lent' = [lent EXCEPT ![o] = None]
  /\ Goto(o, "undo")
  /\ UNCHANGED <<own, dials>>
UndoneAlready(o) ==
  /\ stage[o] = "undo"
  /\ own' = [own EXCEPT ![o] = None]
  /\ Goto(o, "failed")
  /\ UNCHANGED <<entry, discoveries, lent, stranded, dials>>
Undo(o) ==
  /\ stage[o] = "undo"
  /\ ReleaseRef(own[o])
  /\ own' = [own EXCEPT ![o] = None]
  /\ Goto(o, "failed")
  /\ UNCHANGED <<lent, dials>>

Made(o) ==
  /\ stage[o] = "credentials"
  /\ Goto(o, "made")
  /\ UNCHANGED <<refs, dials>>

----------------------------------------------------------------------------
(* Connect: refused when connected; otherwise it dials.                    *)
BeginConnect(p, o) ==
  /\ call[p] = Idle /\ stage[o] = "made" /\ conn[o] = None
  /\ dialled < MaxConns
  /\ dialled' = dialled + 1
  /\ open' = open \cup {dialled + 1}
  /\ call' = [call EXCEPT ![p] = [at |-> "dialling", obj |-> o, conn |-> dialled + 1]]
  /\ UNCHANGED <<refs, stage, conn, overtaken>>

(* The connection does not become ready within the timeout.                *)
GiveUp(p) ==
  /\ call[p].at = "dialling"
  /\ open' = open \ {call[p].conn}
  /\ call' = [call EXCEPT ![p] = Idle]
  /\ UNCHANGED <<refs, stage, conn, dialled, overtaken>>

(* It is ready: kept, unless another Connect has been faster.              *)
KeepAnyway(p) ==
  /\ conn' = [conn EXCEPT ![call[p].obj] = call[p].conn]
  /\ UNCHANGED open
Keep(p) ==
  IF conn[call[p].obj] = None
  THEN /\ conn' = [conn EXCEPT ![call[p].obj] = call[p].conn]
       /\ UNCHANGED open
  ELSE open' = open \ {call[p].conn} /\ UNCHANGED conn

EndConnect(p) ==
  /\ call[p].at = "dialling"
  /\ Keep(p)
  /\ overtaken' = IF stage[call[p].obj] \in {"disconnected", "unlent", "closed"}
                  THEN overtaken \cup {call[p].obj} ELSE overtaken
  /\ call' = [call EXCEPT ![p] = Idle]
  /\ UNCHANGED <<refs, stage, dialled>>

----------------------------------------------------------------------------
(* Close: the connection, under the lock of the client; then the client's  *)
(* reference; then that of the GrpcClient.  A second Close finds nothing.  *)
Disconnect(o) ==
  /\ stage[o] = "made"
  /\ open' = open \ {conn[o]}
  /\ conn' = [conn EXCEPT ![o] = None]
  /\ Goto(o, "disconnected")
  /\ UNCHANGED <<refs, dialled, call, overtaken>>
ReleaseLent(o) ==
  /\ stage[o] = "disconnected"
  /\ ReleaseRef(lent[o])
  /\ lent' = [lent EXCEPT ![o] = None]
  /\ Goto(o, "unlent")
  /\ UNCHANGED <<own, dials>>
ReleaseOwn(o) ==
  /\ stage[o] = "unlent"
  /\ ReleaseRef(own[o])
  /\ own' = [own EXCEPT ![o] = None]
  /\ Goto(o, "closed")
  /\ UNCHANGED <<lent, dials>>

NewGrpcClient(o) ==
  Normalize(o) \/ RegisterOwn(o) \/ RegisterLent(o) \/ BadCredentials(o) \/ Undo(o) \/ Made(o)
Connect(p) == (\E o \in Objects : BeginConnect(p, o)) \/ GiveUp(p) \/ EndConnect(p)
Close(o) == Disconnect(o) \/ ReleaseLent(o) \/ ReleaseOwn(o)

Next ==
  \/ \E o \in Objects : NewGrpcClient(o) \/ Close(o)
  \/ \E p \in Callers : Connect(p)

Spec == Init /\ [][Next]_vars

----------------------------------------------------------------------------
Borrowed == Cardinality({o \in Objects : own[o] # None}) + Cardinality({o \in Objects : lent[o] # None})

(* Whatever fails half way, is refused because another configuration is in *)
(* use, and in whatever order the clients are made and closed: the shared  *)
(* discovery counts exactly the references that clients hold, and one more *)
(* that nobody holds, for good, once its Close has failed; it is open      *)
(* while there are any, unless its Close has failed, and no other stays    *)
(* open but those about to be registered.  (grpc_client.go:877-930,        *)
(* grpc/resolver.go:371-427, grpc/client.go:141.)                          *)
ReferencesBalanced ==
  /\ entry.refs = Borrowed + (IF stranded THEN 1 ELSE 0)
  /\ discoveries = (IF entry.refs = 0 \/ stranded THEN {} ELSE {entry.sd})
                   \cup {o \in Objects : stage[o] = "register"}

(* A connection that is open is stored in a client or in the hands of a    *)
(* Connect: the slower of two Connects closes its own.  A client that has  *)
(* been closed stores none, unless a Connect that began before the Close   *)
(* has overtaken it.  (grpc/client.go:289-296 and 354-357.)                *)
ConnectionsAreOwned ==
  /\ open \subseteq {conn[o] : o \in Objects} \cup {call[p].conn : p \in Callers}
  /\ \A o \in Objects \ overtaken :
        stage[o] \in {"disconnected", "unlent", "closed"} => conn[o] = None
=============================================================================
