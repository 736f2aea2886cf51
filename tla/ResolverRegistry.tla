--------------------------- MODULE ResolverRegistry ---------------------------
(***************************************************************************)
(* The process-global table of resolver registrations of grpc/resolver.go, *)
(* for one scheme: RegisterResolverAndGet and ReleaseResolver count the    *)
(* owners that share one service discovery, and close it with the last.    *)
(*                                                                         *)
(* The owners are client managers (grpc_client.go), which create a         *)
(* discovery of their own and keep the one the table gives them, and       *)
(* clients (grpc/client.go), which read their manager's discovery and      *)
(* register it a moment later, without a lock over the two.                *)
(*                                                                         *)
(* registeredSchemesMu makes each registration and each release one step.  *)
(***************************************************************************)
EXTENDS Naturals, FiniteSets

CONSTANTS
  Managers, Clients,   \* the owners that register and release
  Discoveries,         \* service discovery objects (EtcdResolver)
  KeyOf,               \* resolverConfigKey: the digest of a discovery's configuration
  None,                \* nil
  CloseMayFail,        \* whether Close of a discovery may return an error
  StaleCapture         \* whether a client may register what its manager released

Owners == Managers \cup Clients

ASSUME RegistryAssumption ==
  /\ IsFiniteSet(Managers) /\ IsFiniteSet(Clients)
  /\ Managers \cap Clients = {}
  /\ None \notin Discoveries
  /\ CloseMayFail \in BOOLEAN /\ StaleCapture \in BOOLEAN

VARIABLES
  known,      \* the scheme has an entry (it is never removed)
  key,        \* the entry's configuration key, a discovery standing for its class
  sd,         \* the entry's discovery, or None
  refs,       \* the entry's reference count
  active,     \* the discovery the scheme's gRPC resolver builder hands out
  status,     \* of each discovery: "fresh" (not yet created), "open", "closed"
  holds,      \* the discovery each owner has registered, or None
  captured,   \* the discovery a client has read from a manager, or None
  closeFailed,\* history: a Close of the shared discovery returned an error
  revived     \* history: a discovery already closed was registered again

table == <<known, key, sd, refs, active>>
vars == <<table, status, holds, captured, closeFailed, revived>>

Holders == {o \in Owners : holds[o] # None}

Init ==
  /\ known = FALSE /\ key = None /\ sd = None /\ refs = 0 /\ active = None
  /\ status = [d \in Discoveries |-> "fresh"]
  /\ holds = [o \in Owners |-> None]
  /\ captured = [c \in Clients |-> None]
  /\ closeFailed = FALSE /\ revived = FALSE

-----------------------------------------------------------------------------
(* RegisterResolverAndGet.                                                 *)

Refused(d) == known /\ refs > 0 /\ key # KeyOf[d]

Unused == ~known \/ refs = 0

(* What the entry's discovery is once d has been registered.               *)
Registered(d) == IF Unused THEN d ELSE sd

RegisterResolverAndGet(d) ==
  /\ ~Refused(d)
  /\ known' = TRUE
  /\ refs' = refs + 1
  /\ sd' = Registered(d)
  /\ IF Unused THEN key' = KeyOf[d] /\ active' = d
               ELSE UNCHANGED <<key, active>>

(* NewGrpcClientManager: a manager whose discovery is refused, or replaced *)
(* by the one already shared, closes its own.                              *)
NewManager(m, d) ==
  /\ holds[m] = None /\ status[d] = "fresh"
  /\ \/ /\ RegisterResolverAndGet(d)
        /\ holds' = [holds EXCEPT ![m] = Registered(d)]
        /\ status' = [status EXCEPT ![d] = IF Registered(d) = d THEN "open" ELSE "closed"]
     \/ /\ Refused(d)
        /\ status' = [status EXCEPT ![d] = "closed"]
        /\ UNCHANGED <<table, holds>>
  /\ UNCHANGED <<captured, closeFailed, revived>>

(* createClient reads m.etcdResolver ...                                   *)
Capture(c, m) ==
  /\ holds[c] = None /\ captured[c] = None /\ holds[m] # None
  /\ captured' = [captured EXCEPT ![c] = holds[m]]
  /\ UNCHANGED <<table, status, holds, closeFailed, revived>>

(* ... and NewClient registers it; a refused client comes to nothing.      *)
NewClient(c) ==
  LET d == captured[c] IN
  /\ holds[c] = None /\ d # None
  /\ StaleCapture \/ status[d] = "open"
  /\ captured' = [captured EXCEPT ![c] = None]
  /\ \/ /\ RegisterResolverAndGet(d)
        /\ holds' = [holds EXCEPT ![c] = Registered(d)]
        /\ revived' = (revived \/ (Unused /\ status[d] = "closed"))
     \/ /\ Refused(d)
        /\ UNCHANGED <<table, holds, revived>>
  /\ UNCHANGED <<status, closeFailed>>

-----------------------------------------------------------------------------
(* ReleaseResolver, called from CloseAll or Client.Close of owner o, which *)
(* forgets its discovery whatever comes of it.  A discovery that was       *)
(* closed before returns no error.                                         *)

Matches(d) == known /\ (sd = d \/ key = KeyOf[d])

(* Mutants: a release counts for two, or for none.                         *)
RemainingLessTwo == IF refs > 0 THEN refs - 2 ELSE refs
RemainingAll == refs
Remaining == IF refs > 0 THEN refs - 1 ELSE refs

Release(o) ==
  /\ holds[o] # None
  /\ holds' = [holds EXCEPT ![o] = None]
  /\ \/ /\ ~Matches(holds[o]) \/ Remaining # 0 \/ sd = None
        /\ refs' = IF Matches(holds[o]) THEN Remaining ELSE refs
        /\ UNCHANGED <<known, key, sd, active, status, closeFailed>>
     \/ /\ Matches(holds[o])
        /\ Remaining = 0 /\ sd # None
        /\ status' = [status EXCEPT ![sd] = "closed"]
        /\ refs' = 0 /\ sd' = None /\ active' = None
        /\ UNCHANGED <<known, key, closeFailed>>
     \/ /\ Matches(holds[o])  \* Close fails: the entry is not written back
        /\ CloseMayFail
        /\ Remaining = 0 /\ sd # None /\ status[sd] = "open"
        /\ status' = [status EXCEPT ![sd] = "closed"]
        /\ closeFailed' = TRUE
        /\ UNCHANGED table
  /\ UNCHANGED <<captured, revived>>

Next ==
  \/ \E m \in Managers, d \in Discoveries : NewManager(m, d)
  \/ \E c \in Clients, m \in Managers : Capture(c, m)
  \/ \E c \in Clients : NewClient(c)
  \/ \E o \in Owners : Release(o)

Spec == Init /\ [][Next]_vars

-----------------------------------------------------------------------------
(* Every variable keeps its type.                                          *)
TypeOK ==
  /\ known \in BOOLEAN
  /\ sd \in Discoveries \cup {None} /\ active \in Discoveries \cup {None}
  /\ refs \in Nat
  /\ status \in [Discoveries -> {"fresh", "open", "closed"}]
  /\ holds \in [Owners -> Discoveries \cup {None}]
  /\ captured \in [Clients -> Discoveries \cup {None}]
  /\ closeFailed \in BOOLEAN /\ revived \in BOOLEAN

(* refs is the number of owners that hold the discovery; a Close that      *)
(* failed leaves exactly one reference too many, for good, since the entry *)
(* is not written back.                                                    *)
RefsCountHolders ==
  refs = Cardinality(Holders) + (IF closeFailed THEN 1 ELSE 0)

(* All owners of the scheme hold the same discovery, the one the entry     *)
(* names and the builder hands out: a discovery is never replaced while    *)
(* anyone holds it, and every release finds its entry.                     *)
HoldersAgree ==
  /\ \A o \in Holders : holds[o] = sd
  /\ active = sd
  /\ refs > 0 <=> sd # None

(* The entry of the table says exactly who uses what.                      *)
(* (grpc/resolver.go:371-427.)                                             *)
TableIsExact == RefsCountHolders /\ HoldersAgree

(* No discovery is left open without an entry that can close it: of two    *)
(* managers' discoveries with one key, the second is closed at once, and   *)
(* the last release closes the first.                                      *)
NoDiscoveryLeaks == \A d \in Discoveries : status[d] = "open" => d = sd

(* Nobody holds a closed discovery: it is closed with its last owner, not  *)
(* before, unless a client registered one its manager had let go of, or a  *)
(* Close failed.                                                           *)
HeldIsOpenUnlessRevived ==
  (~revived /\ ~closeFailed) => \A o \in Holders : status[holds[o]] = "open"

(* The discoveries live as long as somebody uses them, no longer and, with *)
(* the exceptions above, no shorter.  (grpc/resolver.go:371-427.)          *)
DiscoveriesAreManaged == NoDiscoveryLeaks /\ HeldIsOpenUnlessRevived

(* "The underlying discovery is closed when no clients still reference it" *)
(* (comment of ReleaseResolver): no manager is left with a discovery that  *)
(* has been closed under it.                                               *)
ClosedOnlyWhenUnreferenced ==
  \A m \in Managers : holds[m] # None => status[holds[m]] # "closed"
=============================================================================
