----------------------------- MODULE ClientsProofs -----------------------------
(***************************************************************************)
(* Proofs about the client side of gRPC: the registrations of resolvers    *)
(* (ResolverRegistry), the client manager (ClientManager) and the          *)
(* stand-alone client (GrpcClient).  Each part is proved for its own       *)
(* specification and for every value of its constants: any sets of         *)
(* services, callers, pools and clients.                                   *)
(***************************************************************************)
EXTENDS MCClients, FiniteSetTheorems, TLAPS

-----------------------------------------------------------------------------
(* The registrations of resolvers, for any finite sets of managers and     *)
(* clients and any discoveries, with failing Closes and stale captures.    *)
(* The counting of references and the agreement of the holders need each   *)
(* other: a release finds its entry because its discovery is the entry's,  *)
(* and the entry's discovery is dropped with the last holder because the   *)
(* count is exact.                                                         *)

(* An entry that was never made counts nothing, and what owners and the    *)
(* entry refer to has been created.                                        *)
Grounded ==
  /\ ~known => refs = 0
  /\ sd # None => status[sd] # "fresh"
  /\ \A c \in Clients : captured[c] # None => status[captured[c]] # "fresh"

(* HeldIsOpenUnlessRevived in terms of the entry.                          *)
SharedIsOpen ==
  (sd # None /\ ~revived /\ ~closeFailed) => status[sd] = "open"

IInv ==
  /\ TypeOK
  /\ RefsCountHolders
  /\ HoldersAgree
  /\ NoDiscoveryLeaks
  /\ SharedIsOpen
  /\ Grounded

LEMMA HoldersFinite == IsFiniteSet(Holders) /\ Cardinality(Holders) \in Nat
<1>1. IsFiniteSet(Owners)
  BY RegistryAssumption, FS_Union DEF RegistryAssumption, Owners
<1>2. Holders \subseteq Owners
  BY DEF Holders
<1>3. IsFiniteSet(Holders)
  BY <1>1, <1>2, FS_Subset
<1> QED  BY <1>3, FS_CardinalityType

LEMMA HolderJoins ==
  ASSUME NEW o, o \notin Holders, Holders' = Holders \cup {o}
  PROVE  Cardinality(Holders)' = Cardinality(Holders) + 1
BY HoldersFinite, FS_AddElement

LEMMA HolderLeaves ==
  ASSUME NEW o, o \in Holders, Holders' = Holders \ {o}
  PROVE  /\ Cardinality(Holders)' = Cardinality(Holders) - 1
         /\ Cardinality(Holders) >= 1
         /\ Cardinality(Holders) = 1 => Holders' = {}
<1>1. Cardinality(Holders)' = Cardinality(Holders) - 1
  BY HoldersFinite, FS_RemoveElement
<1>2. Cardinality(Holders) # 0
  BY HoldersFinite, FS_EmptySet
<1>3. IsFiniteSet(Holders')
  BY HoldersFinite, FS_RemoveElement
<1>4. Cardinality(Holders)' = 0 => Holders' = {}
  BY <1>3, FS_EmptySet
<1> QED  BY <1>1, <1>2, <1>4, HoldersFinite

LEMMA InitIInv == Init => IInv
<1> SUFFICES ASSUME Init PROVE IInv
  OBVIOUS
<1>1. Holders = {}
  BY DEF Init, Holders
<1>2. Cardinality(Holders) = 0
  BY <1>1, FS_EmptySet
<1>3. RefsCountHolders
  BY <1>2 DEF Init, RefsCountHolders
<1>4. HoldersAgree
  BY <1>1 DEF Init, HoldersAgree
<1>5. NoDiscoveryLeaks /\ SharedIsOpen /\ Grounded
  BY DEF Init, NoDiscoveryLeaks, SharedIsOpen, Grounded
<1>6. TypeOK
  <2>1. /\ status \in [Discoveries -> {"fresh", "open", "closed"}]
        /\ holds \in [Owners -> Discoveries \cup {None}]
        /\ captured \in [Clients -> Discoveries \cup {None}]
    BY DEF Init
  <2>2. known \in BOOLEAN /\ closeFailed \in BOOLEAN /\ revived \in BOOLEAN
    BY DEF Init
  <2> QED  BY <2>1, <2>2 DEF Init, TypeOK
<1> QED  BY <1>3, <1>4, <1>5, <1>6 DEF IInv

-----------------------------------------------------------------------------
(* A registration by o, of a discovery that has been created or is about   *)
(* to be: the table after it, whoever the owner is.                        *)
LEMMA RegisterTable ==
  ASSUME IInv, NEW o \in Owners, holds[o] = None, NEW d \in Discoveries,
         RegisterResolverAndGet(d),
         holds' = [holds EXCEPT ![o] = Registered(d)],
         closeFailed' = closeFailed
  PROVE  /\ RefsCountHolders' /\ HoldersAgree'
         /\ known' \in BOOLEAN /\ refs' \in Nat /\ known'
         /\ sd' = Registered(d) /\ sd' \in Discoveries /\ active' = sd'
         /\ holds' \in [Owners -> Discoveries \cup {None}]
         /\ Unused => sd = None
         /\ ~Unused => sd' = sd
<1> USE DEF IInv
<1>1. None \notin Discoveries
  BY RegistryAssumption DEF RegistryAssumption
<1>2. refs \in Nat /\ sd \in Discoveries \cup {None}
  BY DEF TypeOK
<1>3. Unused => sd = None
  BY <1>2 DEF Unused, Grounded, HoldersAgree
<1>4. ~Unused => sd # None
  BY <1>2 DEF Unused, HoldersAgree
<1>5. sd' = Registered(d) /\ refs' = refs + 1 /\ known' = TRUE
  BY DEF RegisterResolverAndGet
<1>6. sd' \in Discoveries /\ (~Unused => sd' = sd)
  BY <1>2, <1>4, <1>5 DEF Registered
<1>7. active' = sd'
  BY <1>5 DEF RegisterResolverAndGet, Registered, HoldersAgree
<1>8. holds' \in [Owners -> Discoveries \cup {None}]
      /\ holds'[o] = sd' /\ \A q \in Owners \ {o} : holds'[q] = holds[q]
  BY <1>5, <1>6 DEF TypeOK
<1>9. Holders' = Holders \cup {o} /\ o \notin Holders
  BY <1>1, <1>6, <1>8 DEF Holders
<1>10. RefsCountHolders'
  <2>1. Cardinality(Holders)' = Cardinality(Holders) + 1
    BY <1>9, HolderJoins
  <2> QED  BY <2>1, <1>2, <1>5, HoldersFinite DEF RefsCountHolders
<1>11. HoldersAgree'
  <2>1. \A q \in Holders' : holds'[q] = sd'
    <3> SUFFICES ASSUME NEW q \in Holders', q # o PROVE holds'[q] = sd'
      BY <1>8
    <3>1. q \in Holders /\ holds[q] = sd /\ holds'[q] = holds[q] /\ sd # None
      BY <1>8, <1>9 DEF HoldersAgree, Holders
    <3> QED  BY <3>1, <1>3, <1>6
  <2> QED  BY <2>1, <1>1, <1>2, <1>5, <1>6, <1>7 DEF HoldersAgree
<1> QED  BY <1>2, <1>3, <1>5, <1>6, <1>7, <1>8, <1>10, <1>11

LEMMA NewManagerIInv ==
  ASSUME IInv, NEW m \in Managers, NEW d \in Discoveries, NewManager(m, d)
  PROVE  IInv'
<1>0. /\ None \notin Discoveries /\ m \in Owners
      /\ status \in [Discoveries -> {"fresh", "open", "closed"}]
      /\ sd \in Discoveries \cup {None}
      /\ captured \in [Clients -> Discoveries \cup {None}]
      /\ status[d] = "fresh"
  BY RegistryAssumption DEF RegistryAssumption, Owners, IInv, TypeOK, NewManager
<1>1. captured' = captured /\ closeFailed' = closeFailed /\ revived' = revived
  BY DEF NewManager
<1>2. CASE RegisterResolverAndGet(d)
           /\ holds' = [holds EXCEPT ![m] = Registered(d)]
           /\ status' = [status EXCEPT ![d] = IF Registered(d) = d THEN "open" ELSE "closed"]
  <2>1. /\ RefsCountHolders' /\ HoldersAgree'
        /\ known' \in BOOLEAN /\ refs' \in Nat /\ known'
        /\ sd' = Registered(d) /\ sd' \in Discoveries /\ active' = sd'
        /\ holds' \in [Owners -> Discoveries \cup {None}]
        /\ Unused => sd = None
        /\ ~Unused => sd' = sd
    BY <1>0, <1>1, <1>2, RegisterTable DEF NewManager
  <2>2. /\ status' \in [Discoveries -> {"fresh", "open", "closed"}]
        /\ status'[d] = IF sd' = d THEN "open" ELSE "closed"
        /\ \A e \in Discoveries \ {d} : status'[e] = status[e]
    BY <1>0, <1>2, <2>1
  <2>3. TypeOK'
    BY <2>1, <2>2, <1>1 DEF TypeOK, IInv
  <2>4. NoDiscoveryLeaks'
    <3> SUFFICES ASSUME NEW e \in Discoveries, status'[e] = "open" PROVE e = sd'
      BY DEF NoDiscoveryLeaks
    <3>1. CASE e = d
      BY <3>1, <2>2
    <3>2. CASE e # d
      BY <3>2, <2>2, <2>1, <1>0 DEF IInv, NoDiscoveryLeaks
    <3> QED  BY <3>1, <3>2
  <2>5. SharedIsOpen'
    <3>1. CASE sd' = d
      BY <3>1, <2>2 DEF SharedIsOpen
    <3>2. CASE sd' # d
      <4>1. sd' = sd /\ sd # None
        BY <3>2, <2>1, <1>0 DEF Registered
      <4> QED  BY <4>1, <3>2, <2>1, <2>2, <1>1 DEF IInv, SharedIsOpen
    <3> QED  BY <3>1, <3>2
  <2>6. Grounded'
    <3>1. status'[sd'] # "fresh"
      <4>1. CASE sd' = d
        BY <4>1, <2>2
      <4>2. CASE sd' # d
        <5>1. sd' = sd /\ sd # None
          BY <4>2, <2>1, <1>0 DEF Registered
        <5> QED  BY <5>1, <4>2, <2>1, <2>2 DEF IInv, Grounded
      <4> QED  BY <4>1, <4>2
    <3>2. \A c \in Clients : captured'[c] # None => status'[captured'[c]] # "fresh"
      BY <1>0, <1>1, <2>2 DEF IInv, Grounded
    <3> QED  BY <3>1, <3>2, <2>1 DEF Grounded
  <2> QED  BY <2>1, <2>3, <2>4, <2>5, <2>6 DEF IInv
<1>3. CASE Refused(d) /\ status' = [status EXCEPT ![d] = "closed"]
           /\ UNCHANGED <<table, holds>>
  <2>1. /\ known' = known /\ key' = key /\ sd' = sd /\ refs' = refs
        /\ active' = active /\ holds' = holds /\ Holders' = Holders
    BY <1>3 DEF table, Holders
  <2>2. /\ status' \in [Discoveries -> {"fresh", "open", "closed"}]
        /\ status'[d] = "closed"
        /\ \A e \in Discoveries \ {d} : status'[e] = status[e]
    BY <1>0, <1>3
  <2>3. TypeOK' /\ RefsCountHolders' /\ HoldersAgree'
    BY <2>1, <2>2, <1>1 DEF IInv, TypeOK, RefsCountHolders, HoldersAgree
  <2>4. NoDiscoveryLeaks' /\ Grounded'
    BY <2>1, <2>2, <1>0, <1>1 DEF IInv, NoDiscoveryLeaks, Grounded
  <2>5. SharedIsOpen'
    BY <2>1, <2>2, <1>0, <1>1 DEF IInv, SharedIsOpen, Grounded
  <2> QED  BY <2>3, <2>4, <2>5 DEF IInv
<1> QED  BY <1>2, <1>3 DEF NewManager

LEMMA NewClientIInv ==
  ASSUME IInv, NEW c \in Clients, NewClient(c)
  PROVE  IInv'
<1> DEFINE d == captured[c]
<1>0. /\ None \notin Discoveries /\ c \in Owners
      /\ status \in [Discoveries -> {"fresh", "open", "closed"}]
      /\ captured \in [Clients -> Discoveries \cup {None}]
      /\ d \in Discoveries
  BY RegistryAssumption DEF RegistryAssumption, Owners, IInv, TypeOK, NewClient
<1>1. /\ closeFailed' = closeFailed /\ status' = status
      /\ captured' \in [Clients -> Discoveries \cup {None}]
      /\ \A e \in Clients : captured'[e] # None => captured'[e] = captured[e]
  BY <1>0 DEF NewClient
<1>2. status[d] # "fresh"
  BY <1>0 DEF IInv, Grounded
<1>3. CASE RegisterResolverAndGet(d)
           /\ holds' = [holds EXCEPT ![c] = Registered(d)]
           /\ revived' = (revived \/ (Unused /\ status[d] = "closed"))
  <2>1. holds[c] = None
    BY DEF NewClient
  <2>2. IInv'
    <3>1. /\ RefsCountHolders' /\ HoldersAgree'
          /\ known' \in BOOLEAN /\ refs' \in Nat /\ known'
          /\ sd' = Registered(d) /\ sd' \in Discoveries /\ active' = sd'
          /\ holds' \in [Owners -> Discoveries \cup {None}]
          /\ Unused => sd = None
          /\ ~Unused => sd' = sd
      BY <1>0, <1>1, <1>3, <2>1, RegisterTable
    <3>2. revived' \in BOOLEAN
      BY <1>3 DEF IInv, TypeOK
    <3>3. TypeOK'
      BY <3>1, <3>2, <1>0, <1>1 DEF TypeOK, IInv
    <3>4. NoDiscoveryLeaks'
      BY <3>1, <1>0, <1>1 DEF IInv, NoDiscoveryLeaks
    <3>5. Grounded'
      BY <3>1, <1>0, <1>1, <1>2 DEF IInv, Grounded, Registered
    <3>6. SharedIsOpen'
      <4>1. CASE Unused
        BY <4>1, <3>1, <1>0, <1>1, <1>2, <1>3 DEF SharedIsOpen, Registered
      <4>2. CASE ~Unused
        BY <4>2, <3>1, <1>0, <1>1, <1>3 DEF IInv, SharedIsOpen
      <4> QED  BY <4>1, <4>2
    <3> QED  BY <3>1, <3>3, <3>4, <3>5, <3>6 DEF IInv
  <2> QED  BY <2>2
<1>4. CASE Refused(d) /\ UNCHANGED <<table, holds, revived>>
  <2>1. /\ known' = known /\ key' = key /\ sd' = sd /\ refs' = refs
        /\ active' = active /\ holds' = holds /\ Holders' = Holders
        /\ revived' = revived
    BY <1>4 DEF table, Holders
  <2> QED  BY <2>1, <1>0, <1>1
           DEF IInv, TypeOK, RefsCountHolders, HoldersAgree, NoDiscoveryLeaks,
               Grounded, SharedIsOpen
<1> QED  BY <1>3, <1>4 DEF NewClient

(* A client's capture takes a discovery the entry has.                     *)
LEMMA CaptureIInv ==
  ASSUME IInv, NEW c \in Clients, NEW m \in Managers, Capture(c, m)
  PROVE  IInv'
<1>0. /\ m \in Owners
      /\ holds \in [Owners -> Discoveries \cup {None}]
      /\ captured \in [Clients -> Discoveries \cup {None}]
  BY DEF Owners, IInv, TypeOK
<1>1. m \in Holders /\ holds[m] = sd /\ sd # None /\ status[sd] # "fresh"
  BY <1>0 DEF Capture, Holders, IInv, HoldersAgree, Grounded
<1>2. /\ known' = known /\ key' = key /\ sd' = sd /\ refs' = refs
      /\ active' = active /\ holds' = holds /\ Holders' = Holders
      /\ status' = status /\ closeFailed' = closeFailed /\ revived' = revived
  BY DEF Capture, table, Holders
<1>3. /\ captured' \in [Clients -> Discoveries \cup {None}]
      /\ \A e \in Clients : captured'[e] = captured[e] \/ captured'[e] = sd
  BY <1>0, <1>1 DEF Capture
<1>4. TypeOK' /\ RefsCountHolders' /\ HoldersAgree' /\ NoDiscoveryLeaks'
      /\ SharedIsOpen'
  BY <1>2, <1>3 DEF IInv, TypeOK, RefsCountHolders, HoldersAgree, NoDiscoveryLeaks,
                   SharedIsOpen
<1>5. Grounded'
  BY <1>1, <1>2, <1>3 DEF IInv, Grounded
<1> QED  BY <1>4, <1>5 DEF IInv

-----------------------------------------------------------------------------
(* Who releases holds the entry's discovery, so the entry is found.        *)
LEMMA ReleaseFindsEntry ==
  ASSUME IInv, NEW o \in Owners, Release(o)
  PROVE  /\ o \in Holders /\ Matches(holds[o]) /\ holds[o] = sd
         /\ sd \in Discoveries /\ refs \in Nat /\ refs > 0
         /\ refs >= Cardinality(Holders)
         /\ holds' \in [Owners -> Discoveries \cup {None}]
         /\ Holders' = Holders \ {o}
         /\ \A q \in Holders' : holds'[q] = holds[q]
         /\ captured' = captured /\ revived' = revived /\ known' = known
<1> USE DEF IInv
<1>1. o \in Holders /\ holds[o] = sd
  BY DEF Release, Holders, HoldersAgree
<1>2. sd \in Discoveries /\ refs \in Nat
  BY <1>1 DEF TypeOK, Holders
<1>3. sd # None
  BY <1>2, RegistryAssumption DEF RegistryAssumption
<1>4. refs > 0
  BY <1>2, <1>3 DEF HoldersAgree
<1>5. Matches(holds[o])
  BY <1>1, <1>2, <1>4 DEF Matches, Grounded
<1>6. refs >= Cardinality(Holders)
  BY HoldersFinite DEF RefsCountHolders
<1>7. /\ holds \in [Owners -> Discoveries \cup {None}]
      /\ holds' = [holds EXCEPT ![o] = None]
  BY DEF TypeOK, Release
<1>8. Holders' = Holders \ {o}
  BY <1>7 DEF Holders
<1>9. \A q \in Holders' : holds'[q] = holds[q]
  BY <1>7, <1>8 DEF Holders
<1>10. captured' = captured /\ revived' = revived /\ known' = known
  BY DEF Release, table
<1> QED  BY <1>1, <1>2, <1>4, <1>5, <1>6, <1>7, <1>8, <1>9, <1>10

LEMMA ReleaseIInv ==
  ASSUME IInv, NEW o \in Owners, Release(o)
  PROVE  IInv'
<1> USE ReleaseFindsEntry, HoldersFinite
<1>0. /\ None \notin Discoveries
      /\ status \in [Discoveries -> {"fresh", "open", "closed"}]
      /\ captured \in [Clients -> Discoveries \cup {None}]
      /\ closeFailed \in BOOLEAN
  BY RegistryAssumption DEF RegistryAssumption, IInv, TypeOK
<1>1. /\ Cardinality(Holders)' = Cardinality(Holders) - 1
      /\ Cardinality(Holders) >= 1
      /\ Cardinality(Holders) = 1 => Holders' = {}
  BY HolderLeaves
<1>2. Remaining = refs - 1 /\ Remaining \in Nat
  BY DEF Remaining
<1>3. CASE /\ Remaining # 0 \/ sd = None
           /\ refs' = Remaining
           /\ UNCHANGED <<known, key, sd, active, status, closeFailed>>
  <2>1. /\ refs' = refs - 1 /\ refs' \in Nat /\ refs' > 0 /\ sd' = sd
        /\ active' = active /\ status' = status /\ closeFailed' = closeFailed
    BY <1>0, <1>2, <1>3
  <2>2. RefsCountHolders'
    BY <1>1, <2>1 DEF IInv, RefsCountHolders
  <2>3. HoldersAgree'
    BY <2>1, <1>0 DEF IInv, HoldersAgree
  <2>4. NoDiscoveryLeaks' /\ SharedIsOpen' /\ Grounded'
    BY <2>1, <1>0 DEF IInv, NoDiscoveryLeaks, SharedIsOpen, Grounded
  <2>5. TypeOK'
    BY <2>1, <1>0 DEF IInv, TypeOK
  <2> QED  BY <2>2, <2>3, <2>4, <2>5 DEF IInv
<1>4. CASE /\ Remaining = 0
           /\ status' = [status EXCEPT ![sd] = "closed"]
           /\ refs' = 0 /\ sd' = None /\ active' = None
           /\ closeFailed' = closeFailed
  <2>1. refs = 1 /\ ~closeFailed /\ Holders' = {} /\ Cardinality(Holders)' = 0
    BY <1>1, <1>2, <1>4 DEF IInv, RefsCountHolders
  <2>2. /\ status' \in [Discoveries -> {"fresh", "open", "closed"}]
        /\ \A e \in Discoveries : status'[e] = IF e = sd THEN "closed" ELSE status[e]
    BY <1>0, <1>4
  <2>3. RefsCountHolders' /\ HoldersAgree'
    BY <2>1, <1>4 DEF RefsCountHolders, HoldersAgree
  <2>4. NoDiscoveryLeaks'
    BY <2>2 DEF IInv, NoDiscoveryLeaks
  <2>5. SharedIsOpen' /\ Grounded'
    BY <2>2, <1>0, <1>4 DEF IInv, SharedIsOpen, Grounded
  <2>6. TypeOK'
    BY <2>2, <1>0, <1>4 DEF IInv, TypeOK
  <2> QED  BY <2>3, <2>4, <2>5, <2>6 DEF IInv
<1>5. CASE /\ Remaining = 0
           /\ status' = [status EXCEPT ![sd] = "closed"]
           /\ closeFailed' = TRUE
           /\ UNCHANGED table
  <2>1. refs = 1 /\ ~closeFailed /\ Holders' = {} /\ Cardinality(Holders)' = 0
    BY <1>1, <1>2, <1>5 DEF IInv, RefsCountHolders
  <2>2. /\ status' \in [Discoveries -> {"fresh", "open", "closed"}]
        /\ \A e \in Discoveries : status'[e] = IF e = sd THEN "closed" ELSE status[e]
    BY <1>0, <1>5
  <2>3. refs' = refs /\ sd' = sd /\ active' = active /\ known' = known
    BY <1>5 DEF table
  <2>4. RefsCountHolders' /\ HoldersAgree'
    BY <2>1, <2>3, <1>5 DEF IInv, RefsCountHolders, HoldersAgree
  <2>5. NoDiscoveryLeaks'
    BY <2>2, <2>3 DEF IInv, NoDiscoveryLeaks
  <2>6. SharedIsOpen' /\ Grounded'
    BY <2>2, <2>3, <1>0, <1>5 DEF IInv, SharedIsOpen, Grounded
  <2>7. TypeOK'
    BY <2>2, <2>3, <1>0, <1>5 DEF IInv, TypeOK
  <2> QED  BY <2>4, <2>5, <2>6, <2>7 DEF IInv
<1> QED  BY <1>3, <1>4, <1>5 DEF Release

-----------------------------------------------------------------------------
LEMMA NextIInv == IInv /\ [Next]_vars => IInv'
<1> SUFFICES ASSUME IInv, [Next]_vars PROVE IInv'
  OBVIOUS
<1>1. ASSUME NEW m \in Managers, NEW d \in Discoveries, NewManager(m, d) PROVE IInv'
  BY <1>1, NewManagerIInv
<1>2. ASSUME NEW c \in Clients, NEW m \in Managers, Capture(c, m) PROVE IInv'
  BY <1>2, CaptureIInv
<1>3. ASSUME NEW c \in Clients, NewClient(c) PROVE IInv'
  BY <1>3, NewClientIInv
<1>4. ASSUME NEW o \in Owners, Release(o) PROVE IInv'
  BY <1>4, ReleaseIInv
<1>5. CASE UNCHANGED vars
  <2>1. Holders' = Holders
    BY <1>5 DEF vars, table, Holders
  <2> QED  BY <2>1, <1>5
           DEF vars, table, IInv, TypeOK, RefsCountHolders, HoldersAgree,
               NoDiscoveryLeaks, SharedIsOpen, Grounded
<1> QED  BY <1>1, <1>2, <1>3, <1>4, <1>5 DEF Next

(* Every state reached by registrations, captures and releases satisfies   *)
(* the inductive invariant (RegisterResolverAndGet, ReleaseResolver).      *)
THEOREM Invariance == Spec => []IInv
BY InitIInv, NextIInv, PTL DEF Spec

(* The table and the owners' references always have their types.           *)
THEOREM TypeCorrect == Spec => []TypeOK
<1>1. IInv => TypeOK  BY DEF IInv
<1> QED  BY Invariance, <1>1, PTL

(* The entry's count is the number of its holders, plus the one reference  *)
(* a failed Close leaves, and all holders have the discovery of the entry  *)
(* (RegisterResolverAndGet, ReleaseResolver).                              *)
THEOREM EntryIsExact == Spec => []TableIsExact
<1>1. IInv => TableIsExact  BY DEF IInv, TableIsExact
<1> QED  BY Invariance, <1>1, PTL

(* An open discovery is always the entry's, so a release can close it; and *)
(* without a client registering what its manager let go of, or a failing   *)
(* Close, the shared discovery is never closed under its holders           *)
(* (NewGrpcClientManager, ReleaseResolver).                                *)
THEOREM DiscoveriesLiveWithTheirUsers == Spec => []DiscoveriesAreManaged
<1>1. IInv => NoDiscoveryLeaks  BY DEF IInv
<1>2. IInv => HeldIsOpenUnlessRevived
  <2> SUFFICES ASSUME IInv, ~revived, ~closeFailed, NEW o \in Holders
               PROVE  status[holds[o]] = "open"
    BY DEF HeldIsOpenUnlessRevived
  <2>1. holds[o] = sd /\ sd # None
    BY DEF IInv, HoldersAgree, Holders
  <2> QED  BY <2>1 DEF IInv, SharedIsOpen
<1>3. IInv => DiscoveriesAreManaged  BY <1>1, <1>2 DEF DiscoveriesAreManaged
<1> QED  BY Invariance, <1>3, PTL

-----------------------------------------------------------------------------
(* The client manager.  NoPoolLeaks alone is not inductive.  It needs to   *)
(* know that a pool on its way in has one place (OnePlace: a pool object   *)
(* is created by one flight or one ConnectAll), and the fit of flights and *)
(* calls with their keys.  That nobody is handed a stranger's pool needs   *)
(* FoundIsInstalled, and NoPoolFromThePast needs that a pool which a reset *)
(* overtook knows it by its generation (DoomedIsLate).                     *)

(* The types of what the manager's own code keeps, the histories left out. *)
PoolsTyped ==
  /\ services \subseteq Services
  /\ clientPools \in [Services -> Pools \cup {None}]
  /\ generation \in CM!Generations
  /\ poolState \in [Pools -> {"unused", "usable", "unusable", "closed"}]
  /\ flights \in [CM!Keys -> CM!FlightType]
  /\ calls \in [Getters -> CM!CallType]
  /\ \A g \in Getters :
       /\ calls[g].stage = "holding" => calls[g].pool # None
       /\ calls[g].pool # None => calls[g].stage \in {"holding", "answered"}
  /\ connects \in [Connectors -> CM!ConnectType]
  /\ doomed \subseteq Pools

(* A flight runs under the key of its service and generation, which is not *)
(* later than the manager's, and has a pool in some of its stages only.    *)
FlightsFit ==
  \A k \in CM!Keys :
    /\ flights[k].stage # "none" =>
         /\ flights[k].service \in Services /\ k = <<flights[k].service, flights[k].gen>>
         /\ flights[k].gen <= generation
    /\ flights[k].stage \in {"holding", "holdingLate", "created"} => flights[k].pool # None
    /\ flights[k].pool # None => flights[k].stage \in {"holding", "holdingLate", "created", "ended"}

(* A caller that is not idle asks for a service, now or since before.      *)
CallsFit ==
  \A g \in Getters : calls[g].stage # "idle" =>
    calls[g].service \in Services /\ calls[g].gen <= generation

ConnectsFit ==
  \A x \in Connectors :
    connects[x].gen <= generation /\ (connects[x].pool # None => connects[x].service \in Services)

Created == {k \in CM!Keys : flights[k].stage = "created"}

(* No two of those that have created a pool have created the same.         *)
OnePlace ==
  /\ \A k, l \in Created : flights[k].pool = flights[l].pool => k = l
  /\ \A x, y \in Connectors : connects[x].pool # None /\ connects[x].pool = connects[y].pool => x = y
  /\ \A k \in Created, x \in Connectors : flights[k].pool # connects[x].pool

(* A pool that somebody found in the map or has the client of, and that is *)
(* still open, is still the one installed for that service.                *)
FoundIsInstalled ==
  /\ \A g \in Getters :
       calls[g].pool # None /\ poolState[calls[g].pool] # "unused" =>
         clientPools[calls[g].service] = calls[g].pool
  /\ \A k \in CM!Keys :
       flights[k].stage # "created" /\ flights[k].pool # None
         /\ poolState[flights[k].pool] # "unused" =>
         clientPools[flights[k].service] = flights[k].pool

(* A reset overtook only pools that are open and whose creators saw an     *)
(* earlier generation, which is what keeps them out of the map.            *)
DoomedIsLate ==
  /\ \A p \in doomed : poolState[p] # "unused"
  /\ \A k \in Created : flights[k].gen = generation => flights[k].pool \notin doomed
  /\ \A x \in Connectors :
       connects[x].pool # None /\ connects[x].gen = generation => connects[x].pool \notin doomed

ManagerInv ==
  /\ PoolsTyped /\ FlightsFit /\ CallsFit /\ ConnectsFit /\ OnePlace /\ FoundIsInstalled
  /\ DoomedIsLate /\ CM!NoPoolLeaks /\ CM!NoPoolFromThePast

LEMMA ManagerConstants == None \notin Pools /\ MaxGeneration \in Nat
BY ManagerFits DEF CM!ManagerAssumption

(* The pools on their way in: those created in a flight and those that a   *)
(* ConnectAll has.                                                         *)
LEMMA Pendings ==
  CM!Pending = ({flights[k].pool : k \in Created} \cup {connects[x].pool : x \in Connectors}) \ {None}
BY DEF CM!Pending, Created

LEMMA PendingPools == PoolsTyped => CM!Pending \subseteq Pools
BY DEF CM!Pending, PoolsTyped, CM!FlightType, CM!ConnectType

LEMMA InitManager == CM!Init => ManagerInv
<1> SUFFICES ASSUME CM!Init PROVE ManagerInv
  OBVIOUS
<1> USE ManagerConstants DEF CM!Init, CM!NoFlight, CM!NotConnecting, CM!Idle
<1>1. PoolsTyped
  BY DEF PoolsTyped, CM!FlightType, CM!CallType, CM!ConnectType, CM!Generations
<1>2. Created = {} /\ CM!Pending = {}
  BY DEF Created, CM!Pending
<1>3. FlightsFit /\ CallsFit /\ ConnectsFit /\ OnePlace /\ FoundIsInstalled /\ DoomedIsLate
  BY <1>2 DEF FlightsFit, CallsFit, ConnectsFit, OnePlace, FoundIsInstalled, DoomedIsLate
<1>4. CM!NoPoolLeaks /\ CM!NoPoolFromThePast
  BY <1>2 DEF CM!NoPoolLeaks, CM!NoPoolFromThePast, CM!Installed
<1> QED  BY <1>1, <1>3, <1>4 DEF ManagerInv

(* A step of a caller of GetClient that leaves the flights alone.          *)
LEMMA CallStepInv ==
  ASSUME ManagerInv, NEW g \in Getters, NEW c \in CM!CallType,
         calls' = [calls EXCEPT ![g] = c],
         c.stage = "holding" => c.pool # None,
         c.pool # None => c.stage = "holding",
         c.stage # "idle" => c.service \in Services /\ c.gen <= generation,
         c.pool # None /\ poolState[c.pool] # "unused" => clientPools[c.service] = c.pool,
         UNCHANGED <<services, clientPools, generation, poolState, flights, connects, doomed>>
  PROVE  ManagerInv'
<1> USE ManagerConstants DEF ManagerInv
<1>1. PoolsTyped'
  BY DEF PoolsTyped
<1>2. CM!Pending' = CM!Pending /\ Created' = Created
  BY DEF CM!Pending, Created
<1>3. FlightsFit' /\ ConnectsFit' /\ OnePlace' /\ DoomedIsLate'
  BY <1>2 DEF FlightsFit, ConnectsFit, OnePlace, DoomedIsLate
<1>4. CallsFit'
  BY DEF CallsFit, PoolsTyped
<1>5. FoundIsInstalled'
  BY DEF FoundIsInstalled, PoolsTyped
<1>6. CM!NoPoolLeaks' /\ CM!NoPoolFromThePast'
  BY <1>2 DEF CM!NoPoolLeaks, CM!NoPoolFromThePast, CM!Installed
<1> QED  BY <1>1, <1>3, <1>4, <1>5, <1>6

LEMMA IdleCall == CM!Idle \in CM!CallType /\ CM!Idle.stage = "idle" /\ CM!Idle.pool = None
BY ManagerConstants DEF CM!Idle, CM!CallType, CM!Generations

LEMMA LookInv == ASSUME ManagerInv, NEW g \in Getters, NEW s \in Services, CM!Look(g, s)
                 PROVE ManagerInv'
<1> USE ManagerConstants DEF CM!Look, CM!Return
<1>1. CASE CM!Usable(s)
  <2> DEFINE c == [stage |-> "holding", service |-> s, gen |-> generation,
                   pool |-> clientPools[s]]
  <2>1. c \in CM!CallType /\ c.pool # None /\ generation <= generation
    BY <1>1 DEF ManagerInv, PoolsTyped, CM!CallType, CM!Usable, CM!Installed, CM!Generations
  <2> QED  BY <1>1, <2>1, CallStepInv
<1>2. CASE ~CM!Usable(s) /\ s \in services
  <2> DEFINE c == [stage |-> "looked", service |-> s, gen |-> generation,
                   pool |-> None]
  <2>1. c \in CM!CallType /\ generation <= generation
    BY DEF ManagerInv, PoolsTyped, CM!CallType, CM!Generations
  <2> QED  BY <1>2, <2>1, CallStepInv
<1>3. CASE ~CM!Usable(s) /\ s \notin services
  BY <1>3, CallStepInv, IdleCall
<1> QED  BY <1>1, <1>2, <1>3

LEMMA TryPoolInv == ASSUME ManagerInv, NEW g \in Getters, CM!TryPool(g) PROVE ManagerInv'
<1> USE DEF CM!TryPool, CM!Return
<1>1. CASE poolState[calls[g].pool] = "usable"
  BY <1>1, CallStepInv, IdleCall
<1>2. CASE poolState[calls[g].pool] # "usable"
  <2> DEFINE c == [calls[g] EXCEPT !.stage = "looked", !.pool = None]
  <2>1. /\ c \in CM!CallType /\ c.stage = "looked" /\ c.pool = None
        /\ c.service \in Services /\ c.gen <= generation
    BY DEF ManagerInv, PoolsTyped, CM!CallType, CallsFit
  <2> HIDE DEF c
  <2>2. calls' = [calls EXCEPT ![g] = c]
    BY <1>2 DEF c
  <2> QED  BY <2>1, <2>2, CallStepInv
<1> QED  BY <1>1, <1>2

LEMMA GiveUpInv == ASSUME ManagerInv, NEW g \in Getters, CM!GiveUp(g) PROVE ManagerInv'
BY CallStepInv, IdleCall DEF CM!GiveUp, CM!Return

LEMMA ReceiveInv == ASSUME ManagerInv, NEW g \in Getters, CM!Receive(g) PROVE ManagerInv'
BY CallStepInv, IdleCall DEF CM!Receive, CM!Return

LEMMA JoinInv == ASSUME ManagerInv, NEW g \in Getters, CM!Join(g) PROVE ManagerInv'
<1> USE ManagerConstants DEF CM!Join, CM!Flight, ManagerInv
<1>k. CM!PoolKey(calls[g].service, calls[g].gen) \in CM!Keys
  BY DEF PoolsTyped, CM!CallType, CallsFit, CM!Keys, CM!PoolKey
<1>1. PoolsTyped'
  BY <1>k DEF PoolsTyped, CM!CallType, CM!FlightType, CallsFit
<1>2. Created' = Created /\ \A k \in Created : flights'[k] = flights[k]
  BY <1>k DEF Created, PoolsTyped
<1>p. CM!Pending' = CM!Pending
  BY <1>2, Pendings DEF CM!Pending, Created
<1>3. ConnectsFit' /\ OnePlace' /\ DoomedIsLate'
  BY <1>2 DEF ConnectsFit, OnePlace, DoomedIsLate
<1>f. FlightsFit'
  BY <1>k DEF FlightsFit, PoolsTyped, CallsFit, CM!PoolKey
<1>4. CallsFit'
  BY DEF CallsFit, PoolsTyped, CM!CallType
<1>5. FoundIsInstalled'
  BY <1>k DEF FoundIsInstalled, PoolsTyped, CM!CallType
<1>6. CM!NoPoolLeaks' /\ CM!NoPoolFromThePast'
  BY <1>p DEF CM!NoPoolLeaks, CM!NoPoolFromThePast, CM!Installed
<1> QED  BY <1>1, <1>3, <1>f, <1>4, <1>5, <1>6

(* A flight that goes on, or ends, without having a pool of its own.       *)
LEMMA FlightStepInv ==
  ASSUME ManagerInv, NEW k \in CM!Keys, NEW f \in CM!FlightType,
         flights[k].stage \notin {"none", "created"}, f.stage \in {"creating", "holding", "holdingLate", "ended"},
         f.service = flights[k].service, f.gen = flights[k].gen,
         f.stage \in {"holding", "holdingLate"} => f.pool # None,
         f.pool # None => f.stage # "creating",
         f.pool # None => clientPools[f.service] = f.pool,
         flights' = [flights EXCEPT ![k] = f],
         UNCHANGED <<services, clientPools, generation, poolState, calls, connects, doomed>>
  PROVE  ManagerInv'
<1> USE ManagerConstants DEF ManagerInv
<1>1. PoolsTyped'
  BY DEF PoolsTyped
<1>2. Created' = Created /\ \A l \in Created : flights'[l] = flights[l]
  BY DEF Created, PoolsTyped
<1>3. CM!Pending' = CM!Pending
  <2>1. CM!Pending' = ({flights'[l].pool : l \in Created'} \cup {connects'[x].pool : x \in Connectors}) \ {None}
    BY DEF CM!Pending, Created
  <2> QED  BY <1>2, <2>1, Pendings
<1>4. FlightsFit'
  BY DEF FlightsFit, PoolsTyped
<1>5. CallsFit' /\ ConnectsFit' /\ OnePlace' /\ DoomedIsLate'
  BY <1>2 DEF CallsFit, ConnectsFit, OnePlace, DoomedIsLate
<1>6. FoundIsInstalled'
  BY DEF FoundIsInstalled, PoolsTyped
<1>7. CM!NoPoolLeaks' /\ CM!NoPoolFromThePast'
  BY <1>3 DEF CM!NoPoolLeaks, CM!NoPoolFromThePast, CM!Installed
<1> QED  BY <1>1, <1>4, <1>5, <1>6, <1>7

(* Two fields of a flight changed at once.                                 *)
LEMMA TwoFields ==
  ASSUME NEW F \in [CM!Keys -> CM!FlightType], NEW k \in CM!Keys, NEW a, NEW b
  PROVE  [F EXCEPT ![k].stage = a, ![k].pool = b] =
            [F EXCEPT ![k] = [F[k] EXCEPT !.stage = a, !.pool = b]]
<1>1. [F EXCEPT ![k].stage = a] \in [CM!Keys -> {F[l] : l \in CM!Keys} \cup {[F[k] EXCEPT !.stage = a]}]
  OBVIOUS
<1>2. [F EXCEPT ![k].stage = a][k] = [F[k] EXCEPT !.stage = a]
  OBVIOUS
<1>3. \A l \in CM!Keys : [F EXCEPT ![k].stage = a, ![k].pool = b][l] =
            [F EXCEPT ![k] = [F[k] EXCEPT !.stage = a, !.pool = b]][l]
  BY <1>2
<1> QED  BY <1>3

(* A flight that ends with the pool installed for its service, or none.    *)
LEMMA EndFlightInv ==
  ASSUME ManagerInv, NEW k \in CM!Keys, NEW p \in Pools \cup {None}, CM!EndFlight(k, p),
         flights[k].stage \notin {"none", "created"},
         p # None => clientPools[flights[k].service] = p,
         UNCHANGED <<services, clientPools, generation, poolState, calls, connects, doomed>>
  PROVE  ManagerInv'
<1> DEFINE h == [flights[k] EXCEPT !.stage = "ended", !.pool = p]
<1>1. h \in CM!FlightType /\ h.stage = "ended" /\ h.pool = p
      /\ h.service = flights[k].service /\ h.gen = flights[k].gen
  BY DEF CM!FlightType, ManagerInv, PoolsTyped
<1>2. flights' = [flights EXCEPT ![k] = h]
  BY TwoFields DEF CM!EndFlight, ManagerInv, PoolsTyped
<1> HIDE DEF h
<1> QED  BY <1>1, <1>2, FlightStepInv

(* The result of a flight in the channels of those who wait for it.        *)
LEMMA DeliverInv == ASSUME ManagerInv, NEW k \in CM!Keys, CM!Deliver(k) PROVE ManagerInv'
<1> USE ManagerConstants DEF ManagerInv
<1>0. /\ flights[k].stage = "ended" /\ flights[k] \in CM!FlightType
      /\ UNCHANGED <<services, clientPools, generation, poolState, connects, doomed>>
  BY DEF CM!Deliver, PoolsTyped
<1>1. \A l \in CM!Keys : flights'[l] = IF l = k THEN CM!NoFlight ELSE flights[l]
  BY DEF CM!Deliver, PoolsTyped
<1>2. CM!NoFlight \in CM!FlightType /\ CM!NoFlight.stage = "none" /\ CM!NoFlight.pool = None
  BY DEF CM!NoFlight, CM!FlightType, CM!Generations
<1>3. ASSUME NEW g \in Getters, calls'[g] # calls[g]
      PROVE  /\ calls'[g] \in CM!CallType /\ calls'[g].stage = "answered"
             /\ calls'[g].service = calls[g].service /\ calls'[g].gen = calls[g].gen
             /\ calls'[g].pool = flights[k].pool /\ calls[g].stage = "waiting"
             /\ calls[g].service = flights[k].service
  <2>1. /\ calls'[g] = [calls[g] EXCEPT !.stage = "answered", !.pool = flights[k].pool]
        /\ calls[g].stage = "waiting" /\ CM!PoolKey(calls[g].service, calls[g].gen) = k
    BY <1>3 DEF CM!Deliver
  <2>2. calls[g] \in CM!CallType /\ flights[k].pool \in Pools \cup {None}
    BY <1>0 DEF PoolsTyped, CM!FlightType
  <2> QED  BY <1>0, <2>1, <2>2 DEF CM!CallType, CM!PoolKey, FlightsFit
<1> HIDE DEF CM!NoFlight
<1>4. Created' = Created /\ \A l \in Created : flights'[l] = flights[l]
  BY <1>0, <1>1, <1>2 DEF Created
<1>5. CM!Pending' = CM!Pending
  <2>1. CM!Pending' = ({flights'[l].pool : l \in Created'} \cup {connects'[x].pool : x \in Connectors}) \ {None}
    BY DEF CM!Pending, Created
  <2> QED  BY <1>0, <1>4, <2>1, Pendings
<1>6. PoolsTyped'
  <2>1. calls' \in [Getters -> CM!CallType] /\ flights' \in [CM!Keys -> CM!FlightType]
    <3>1. calls' = [g \in Getters |-> calls'[g]] /\ flights' = [l \in CM!Keys |-> flights'[l]]
      BY DEF CM!Deliver, PoolsTyped
    <3>2. \A g \in Getters : calls'[g] \in CM!CallType
      BY <1>3 DEF PoolsTyped
    <3>3. \A l \in CM!Keys : flights'[l] \in CM!FlightType
      BY <1>1, <1>2 DEF PoolsTyped
    <3> QED  BY <3>1, <3>2, <3>3
  <2>2. \A g \in Getters :
          /\ calls'[g].stage = "holding" => calls'[g].pool # None
          /\ calls'[g].pool # None => calls'[g].stage \in {"holding", "answered"}
    BY <1>3 DEF PoolsTyped
  <2> QED  BY <1>0, <2>1, <2>2 DEF PoolsTyped
<1>7. FlightsFit' /\ ConnectsFit' /\ OnePlace' /\ DoomedIsLate'
  BY <1>0, <1>1, <1>2, <1>4 DEF FlightsFit, ConnectsFit, OnePlace, DoomedIsLate
<1>8. CallsFit'
  BY <1>0, <1>3 DEF CallsFit
<1>9. FoundIsInstalled'
  <2>1. ASSUME NEW g \in Getters, calls'[g].pool # None, poolState'[calls'[g].pool] # "unused"
        PROVE  clientPools'[calls'[g].service] = calls'[g].pool
    BY <1>0, <1>3, <2>1 DEF FoundIsInstalled
  <2> QED  BY <1>0, <1>1, <1>2, <2>1 DEF FoundIsInstalled
<1>10. CM!NoPoolLeaks' /\ CM!NoPoolFromThePast'
  BY <1>0, <1>5 DEF CM!NoPoolLeaks, CM!NoPoolFromThePast, CM!Installed
<1> QED  BY <1>6, <1>7, <1>8, <1>9, <1>10

LEMMA RecheckInv == ASSUME ManagerInv, NEW k \in CM!Keys, CM!Recheck(k) PROVE ManagerInv'
<1> DEFINE f == flights[k]
<1>0. f \in CM!FlightType /\ f.stage = "begun" /\ f.service \in Services /\ f.pool = None
  BY DEF ManagerInv, PoolsTyped, CM!Recheck, FlightsFit
<1>1. CASE CM!Usable(f.service) /\ UNCHANGED calls
  <2> DEFINE h == [f EXCEPT !.stage = IF f.gen = generation THEN "holding" ELSE "holdingLate",
                            !.pool = clientPools[f.service]]
  <2>1. h \in CM!FlightType /\ h.stage \in {"holding", "holdingLate"} /\ h.pool # None
    BY <1>0, <1>1 DEF CM!FlightType, CM!Usable, CM!Installed, ManagerInv, PoolsTyped
  <2>2. h.service = f.service /\ h.gen = f.gen /\ h.pool = clientPools[f.service]
    BY <1>0 DEF CM!FlightType
  <2>3. flights' = [flights EXCEPT ![k] = h]
    <3> DEFINE a == IF f.gen = generation THEN "holding" ELSE "holdingLate"
    <3>1. flights' = [flights EXCEPT ![k].stage = a, ![k].pool = clientPools[f.service]]
      BY <1>1 DEF CM!Recheck
    <3>2. flights \in [CM!Keys -> CM!FlightType]
      BY DEF ManagerInv, PoolsTyped
    <3> HIDE DEF a
    <3>3. flights' = [flights EXCEPT ![k] = [flights[k] EXCEPT !.stage = a, !.pool = clientPools[f.service]]]
      BY <3>1, <3>2, TwoFields
    <3> QED  BY <3>3 DEF a
  <2> HIDE DEF h
  <2>4. UNCHANGED <<services, clientPools, generation, poolState, calls, connects, doomed>>
    BY <1>1 DEF CM!Recheck
  <2> QED
    BY <1>0, <2>1, <2>2, <2>3, <2>4, FlightStepInv
<1>2. CASE CM!EndFlight(k, None)
  BY <1>0, <1>2, EndFlightInv DEF CM!Recheck
<1>3. CASE flights' = [flights EXCEPT ![k].stage = "creating"] /\ UNCHANGED calls
  <2> DEFINE h == [f EXCEPT !.stage = "creating"]
  <2>1. h \in CM!FlightType /\ h.stage = "creating" /\ h.pool = None
        /\ h.service = f.service /\ h.gen = f.gen
    BY <1>0 DEF CM!FlightType
  <2>2. flights' = [flights EXCEPT ![k] = h]
    BY <1>3
  <2> QED  BY <1>0, <1>3, <2>1, <2>2, FlightStepInv DEF CM!Recheck
<1> QED  BY <1>1, <1>2, <1>3 DEF CM!Recheck

LEMMA TryPoolInFlightInv ==
  ASSUME ManagerInv, NEW k \in CM!Keys, CM!TryPoolInFlight(k) PROVE ManagerInv'
<1> DEFINE f == flights[k]
<1>0. f \in CM!FlightType /\ f.stage \in {"holding", "holdingLate"}
  BY DEF ManagerInv, PoolsTyped, CM!TryPoolInFlight
<1>1. CASE \E p \in {f.pool, None} : CM!EndFlight(k, p) /\ (p # None => poolState[p] = "usable")
  <2>1. PICK p \in {f.pool, None} : CM!EndFlight(k, p) /\ (p # None => poolState[p] = "usable")
    BY <1>1
  <2>2. /\ p \in Pools \cup {None}
        /\ p # None => clientPools[f.service] = p
    BY <1>0, <2>1 DEF CM!FlightType, ManagerInv, FoundIsInstalled
  <2>3. UNCHANGED <<services, clientPools, generation, poolState, calls, connects, doomed>>
    BY DEF CM!TryPoolInFlight
  <2> QED  BY <1>0, <2>1, <2>2, <2>3, EndFlightInv
<1>2. CASE flights' = [flights EXCEPT ![k].stage = "creating", ![k].pool = None] /\ UNCHANGED calls
  <2> DEFINE h == [f EXCEPT !.stage = "creating", !.pool = None]
  <2>1. h \in CM!FlightType /\ h.stage = "creating" /\ h.pool = None
        /\ h.service = f.service /\ h.gen = f.gen
    BY <1>0 DEF CM!FlightType
  <2>2. flights' = [flights EXCEPT ![k] = h]
    BY <1>2, TwoFields DEF ManagerInv, PoolsTyped
  <2> HIDE DEF h
  <2>3. UNCHANGED <<services, clientPools, generation, poolState, calls, connects, doomed>>
    BY <1>2 DEF CM!TryPoolInFlight
  <2> QED  BY <1>0, <2>1, <2>2, <2>3, FlightStepInv
<1> QED  BY <1>1, <1>2 DEF CM!TryPoolInFlight

LEMMA RegisterServiceInv ==
  ASSUME ManagerInv, NEW s \in Services, CM!RegisterService(s) PROVE ManagerInv'
<1> USE DEF CM!RegisterService
<1>1. CM!Pending' = CM!Pending /\ Created' = Created
  BY DEF CM!Pending, Created
<1>2. PoolsTyped'
  BY DEF ManagerInv, PoolsTyped
<1> QED
  BY <1>1, <1>2 DEF ManagerInv, FlightsFit, CallsFit, ConnectsFit, OnePlace, FoundIsInstalled,
     DoomedIsLate, CM!NoPoolLeaks, CM!NoPoolFromThePast, CM!Installed

LEMMA CloseFromOutsideInv ==
  ASSUME ManagerInv, NEW p \in Pools, CM!CloseFromOutside(p) PROVE ManagerInv'
<1> USE DEF CM!CloseFromOutside, ManagerInv
<1>1. CM!Pending' = CM!Pending /\ Created' = Created
  BY DEF CM!Pending, Created
<1>2. PoolsTyped'
  BY DEF PoolsTyped
<1>3. FlightsFit' /\ CallsFit' /\ ConnectsFit' /\ OnePlace'
  BY <1>1 DEF FlightsFit, CallsFit, ConnectsFit, OnePlace
<1>4. FoundIsInstalled' /\ DoomedIsLate'
  BY <1>1 DEF FoundIsInstalled, DoomedIsLate, PoolsTyped, CM!CallType, CM!FlightType
<1>5. CM!NoPoolLeaks' /\ CM!NoPoolFromThePast'
  BY <1>1 DEF CM!NoPoolLeaks, CM!NoPoolFromThePast, CM!Installed, PoolsTyped
<1> QED  BY <1>2, <1>3, <1>4, <1>5

(* The pools after those in ps were dropped, and what is remembered.       *)
LEMMA CreateInv == ASSUME ManagerInv, NEW k \in CM!Keys, CM!Create(k) PROVE ManagerInv'
<1> USE ManagerConstants DEF ManagerInv
<1>1. CASE CM!EndFlight(k, None) /\ UNCHANGED <<poolState, doomed>>
  BY <1>1, EndFlightInv DEF CM!Create
<1>2. ASSUME NEW p \in Pools, CM!Free(p), poolState' = [poolState EXCEPT ![p] = "usable"],
             flights' = [flights EXCEPT ![k].stage = "created", ![k].pool = p],
             CM!Doom(p, flights[k].gen), UNCHANGED calls
      PROVE  ManagerInv'
  <2> DEFINE h == [flights[k] EXCEPT !.stage = "created", !.pool = p]
  <2>1. h \in CM!FlightType /\ h.stage = "created" /\ h.pool = p
        /\ h.service = flights[k].service /\ h.gen = flights[k].gen
    BY DEF CM!FlightType, PoolsTyped
  <2>2. flights' = [flights EXCEPT ![k] = h]
    BY <1>2, TwoFields DEF PoolsTyped
  <2>3. UNCHANGED <<services, clientPools, generation, calls, connects>>
        /\ flights[k].stage = "creating"
    BY <1>2 DEF CM!Create
  <2> HIDE DEF h
  <2>4. Created' = Created \cup {k} /\ k \notin Created
    BY <2>1, <2>2, <2>3 DEF Created, PoolsTyped
  <2>5. \A l \in CM!Keys : flights'[l] = IF l = k THEN h ELSE flights[l]
    BY <2>2 DEF PoolsTyped
  <2>6. CM!Pending' = CM!Pending \cup {p}
    <3>1. CM!Pending' = ({flights'[l].pool : l \in Created'} \cup {connects'[x].pool : x \in Connectors}) \ {None}
      BY DEF CM!Pending, Created
    <3>2. {flights'[l].pool : l \in Created'} = {flights[l].pool : l \in Created} \cup {p}
      BY <2>1, <2>4, <2>5 DEF Created
    <3> QED  BY <2>3, <3>1, <3>2, Pendings
  <2>7. poolState[p] = "unused" /\ p \notin CM!Pending /\ (\A s \in Services : clientPools[s] # p)
        /\ p \notin doomed /\ (\A g \in Getters : calls[g].pool # p)
        /\ (\A l \in CM!Keys : flights[l].pool # p)
    BY <1>2 DEF CM!Free, CM!NoPoolLeaks, DoomedIsLate
  <2>8. \A x \in Connectors : connects[x].pool # p
    BY <2>7, Pendings
  <2>9. doomed' \subseteq doomed \cup {p} /\ (h.gen = generation => doomed' = doomed)
    BY <1>2, <2>1 DEF CM!Doom
  <2>10. PoolsTyped'
    BY <1>2, <2>1, <2>2, <2>3, <2>9, ZenonT(40) DEF PoolsTyped
  <2>11. FlightsFit' /\ CallsFit' /\ ConnectsFit'
    BY <2>1, <2>3, <2>5 DEF FlightsFit, CallsFit, ConnectsFit
  <2>12. OnePlace'
    BY <2>1, <2>3, <2>4, <2>5, <2>7, <2>8 DEF OnePlace, Created
  <2>13. FoundIsInstalled'
    BY <1>2, <2>1, <2>3, <2>5, <2>7 DEF FoundIsInstalled, PoolsTyped
  <2>14. DoomedIsLate'
    BY <1>2, <2>1, <2>3, <2>4, <2>5, <2>7, <2>8, <2>9 DEF DoomedIsLate, PoolsTyped, Created
  <2>15. CM!NoPoolLeaks'
    BY <1>2, <2>3, <2>6, <2>7 DEF CM!NoPoolLeaks, CM!Installed, PoolsTyped
  <2>16. CM!NoPoolFromThePast'
    BY <2>3, <2>7, <2>9 DEF CM!NoPoolFromThePast
  <2> QED  BY <2>10, <2>11, <2>12, <2>13, <2>14, <2>15, <2>16
<1> QED  BY <1>1, <1>2 DEF CM!Create

LEMMA InstallInv == ASSUME ManagerInv, NEW k \in CM!Keys, CM!Install(k) PROVE ManagerInv'
<1> USE ManagerConstants DEF ManagerInv
<1> DEFINE f == flights[k]
           s == f.service
<1>0. /\ k \in Created /\ f.stage = "created" /\ f.pool # None /\ f.pool \in Pools
      /\ s \in Services /\ f.gen <= generation
  BY DEF CM!Install, Created, FlightsFit, PoolsTyped, CM!FlightType
<1>1. UNCHANGED <<services, generation, calls, connects>>
  BY DEF CM!Install
<1>2. PICK r \in Pools \cup {None} :
         /\ CM!EndFlight(k, r)
         /\ \/ r = None
            \/ CM!Usable(s) /\ r = clientPools[s] /\ poolState' = CM!Dropped({f.pool}) /\ UNCHANGED clientPools
            \/ r = f.pool /\ clientPools' = [clientPools EXCEPT ![s] = f.pool]
  BY <1>0 DEF CM!Install, PoolsTyped
<1>3. /\ flights' \in [CM!Keys -> CM!FlightType]
      /\ \A l \in CM!Keys : flights'[l] = IF l = k THEN [f EXCEPT !.stage = "ended", !.pool = r] ELSE flights[l]
      /\ flights'[k].stage = "ended" /\ flights'[k].pool = r
      /\ flights'[k].service = s /\ flights'[k].gen = f.gen
  <2>0. f \in CM!FlightType
    BY DEF PoolsTyped
  <2>1. [f EXCEPT !.stage = "ended", !.pool = r] \in CM!FlightType
    BY <2>0 DEF CM!FlightType
  <2>2. flights' = [flights EXCEPT ![k] = [f EXCEPT !.stage = "ended", !.pool = r]]
    BY <1>2, TwoFields DEF CM!EndFlight, PoolsTyped
  <2> QED  BY <2>0, <2>1, <2>2 DEF PoolsTyped, CM!FlightType
<1>e. ASSUME NEW p, CM!EndFlight(k, p) PROVE r = p
  BY <1>3, <1>e DEF CM!EndFlight, PoolsTyped
<1>c. Created' = Created \ {k}
  BY <1>3 DEF Created
<1>q. CM!Pending' = CM!Pending \ {f.pool}
  <2>1. CM!Pending' = ({flights'[l].pool : l \in Created'} \cup {connects'[x].pool : x \in Connectors}) \ {None}
    BY DEF CM!Pending, Created
  <2>2. {flights'[l].pool : l \in Created'} = {flights[l].pool : l \in Created \ {k}}
    BY <1>3, <1>c DEF Created
  <2>3. \A l \in Created \ {k} : flights[l].pool # f.pool
    BY <1>0 DEF OnePlace
  <2>4. \A x \in Connectors : connects[x].pool # f.pool
    BY <1>0 DEF OnePlace
  <2> QED  BY <1>0, <1>1, <2>1, <2>2, <2>3, <2>4, Pendings
<1>r. FlightsFit' /\ CallsFit' /\ ConnectsFit'
  BY <1>0, <1>1, <1>3 DEF FlightsFit, CallsFit, ConnectsFit
<1>s. OnePlace'
  BY <1>1, <1>3, <1>c DEF OnePlace, Created
<1>4. f.pool \in CM!Pending
  BY <1>0, Pendings
<1>p. CM!Pending \subseteq Pools
  BY PendingPools
<1>5. /\ poolState[f.pool] = "usable"
      /\ \A t \in Services : clientPools[t] # f.pool
      /\ \A l \in Created \ {k} : flights[l].pool # f.pool
      /\ \A x \in Connectors : connects[x].pool # f.pool
  BY <1>0, <1>4 DEF CM!NoPoolLeaks, OnePlace
<1>6. doomed' = {p \in doomed : poolState'[p] # "unused"}
  BY DEF CM!Install, CM!ForgetDropped
<1>7. \A l \in Created : poolState[flights[l].pool] # "unused"
  BY Pendings DEF CM!NoPoolLeaks, FlightsFit, Created
<1> HIDE DEF f, s
(* What the three ways on have in common.                                  *)
<1>8. ASSUME poolState' \in [Pools -> {"unused", "usable", "unusable", "closed"}],
             clientPools' \in [Services -> Pools \cup {None}],
             \A p \in Pools : poolState'[p] # "unused" => poolState[p] # "unused",
             \A t \in Services : clientPools'[t] # clientPools[t] =>
                 t = s /\ clientPools'[t] = f.pool /\ f.gen = generation
                 /\ (clientPools[t] # None => poolState'[clientPools[t]] = "unused"),
             \A p \in Pools : poolState'[p] # "unused" <=>
                 p \in CM!Pending \ {f.pool} \/ \E t \in Services : clientPools'[t] = p,
             \A p \in CM!Pending \ {f.pool} : poolState'[p] = "usable",
             r # None => clientPools'[s] = r
      PROVE  ManagerInv'
  <2>1. PoolsTyped'
    BY <1>1, <1>3, <1>6, <1>8 DEF PoolsTyped
  <2>2. FoundIsInstalled'
    <3>1. ASSUME NEW g \in Getters, calls[g].pool # None, poolState'[calls[g].pool] # "unused"
          PROVE  clientPools'[calls[g].service] = calls[g].pool
      <4>1. calls[g].pool \in Pools /\ calls[g].service \in Services
        <5>1. calls[g].stage # "idle" /\ calls[g] \in CM!CallType
          BY <3>1 DEF PoolsTyped
        <5> QED  BY <3>1, <5>1 DEF CM!CallType, CallsFit
      <4>2. clientPools[calls[g].service] = calls[g].pool
        BY <1>8, <3>1, <4>1 DEF FoundIsInstalled
      <4> QED  BY <1>8, <3>1, <4>1, <4>2
    <3>2. ASSUME NEW l \in CM!Keys \ {k}, flights[l].stage # "created", flights[l].pool # None,
                 poolState'[flights[l].pool] # "unused"
          PROVE  clientPools'[flights[l].service] = flights[l].pool
      <4>1. flights[l].pool \in Pools /\ flights[l].service \in Services
        BY <3>2 DEF PoolsTyped, CM!FlightType, FlightsFit
      <4>2. clientPools[flights[l].service] = flights[l].pool
        BY <1>8, <3>2, <4>1 DEF FoundIsInstalled
      <4> QED  BY <1>8, <3>2, <4>1, <4>2
    <3>3. flights'[k].pool # None => clientPools'[flights'[k].service] = flights'[k].pool
      BY <1>3, <1>8
    <3> QED  BY <1>1, <1>3, <3>1, <3>2, <3>3 DEF FoundIsInstalled
  <2>3. DoomedIsLate'
    BY <1>1, <1>3, <1>6, <1>c DEF DoomedIsLate, Created
  <2>4. CM!NoPoolFromThePast'
    BY <1>0, <1>6, <1>8 DEF CM!NoPoolFromThePast, DoomedIsLate, f
  <2>5. CM!NoPoolLeaks'
    <3>1. \A p \in CM!Pending' : \A t \in Services : clientPools'[t] # p
      BY <1>q, <1>8 DEF CM!NoPoolLeaks
    <3>2. \A t, u \in Services : clientPools'[t] # None /\ clientPools'[t] = clientPools'[u] => t = u
      BY <1>5, <1>8 DEF CM!NoPoolLeaks, CM!Installed
    <3> QED  BY <1>q, <1>8, <3>1, <3>2 DEF CM!NoPoolLeaks, CM!Installed
  <2> QED  BY <1>r, <1>s, <2>1, <2>2, <2>3, <2>4, <2>5
<1>9. CASE /\ CM!Usable(s) /\ CM!EndFlight(k, clientPools[s])
           /\ poolState' = CM!Dropped({f.pool}) /\ UNCHANGED clientPools
  <2>1. \A p \in Pools : poolState'[p] = IF p = f.pool THEN "unused" ELSE poolState[p]
    BY <1>9 DEF CM!Dropped
  <2>2. \A p \in Pools : poolState'[p] # "unused" <=>
                           p \in CM!Pending \ {f.pool} \/ \E t \in Services : clientPools'[t] = p
    BY <1>5, <1>9, <2>1 DEF CM!NoPoolLeaks
  <2>3. poolState' \in [Pools -> {"unused", "usable", "unusable", "closed"}]
    BY <1>9 DEF CM!Dropped, PoolsTyped
  <2>4. r = clientPools'[s]
    BY <1>9, <1>e
  <2>5. \A p \in CM!Pending \ {f.pool} : poolState'[p] = "usable"
    BY <1>p, <2>1 DEF CM!NoPoolLeaks
  <2>6. clientPools' \in [Services -> Pools \cup {None}]
    BY <1>9 DEF PoolsTyped
  <2> QED  BY <1>8, <1>9, <2>1, <2>2, <2>3, <2>4, <2>5, <2>6
<1>10. CASE /\ CM!EndFlight(k, None)
            /\ poolState' = [p \in Pools |-> IF p \in CM!Old(s) THEN "closed"
                                             ELSE CM!Dropped({f.pool})[p]]
            /\ UNCHANGED clientPools
  <2>1. \A p \in Pools : poolState'[p] = IF p \in CM!Old(s) THEN "closed"
                                         ELSE IF p = f.pool THEN "unused" ELSE poolState[p]
    BY <1>10 DEF CM!Dropped
  <2>2. \A p \in CM!Old(s) : poolState[p] # "unused" /\ p \notin CM!Pending
                             /\ \E t \in Services : clientPools[t] = p
    BY <1>0 DEF CM!Old, CM!NoPoolLeaks, PoolsTyped, f, s
  <2>3. \A p \in Pools : poolState'[p] # "unused" <=>
                           p \in CM!Pending \ {f.pool} \/ \E t \in Services : clientPools'[t] = p
    <3>1. \A p \in Pools : poolState[p] # "unused" <=>
                             p \in CM!Pending \/ \E t \in Services : clientPools[t] = p
      BY DEF CM!NoPoolLeaks
    <3>2. \A t \in Services : clientPools'[t] = clientPools[t] /\ clientPools[t] # f.pool
      BY <1>5, <1>10
    <3> TAKE p \in Pools
    <3>3. CASE p \in CM!Old(s)
      BY <2>1, <2>2, <3>1, <3>2, <3>3
    <3>4. CASE p \notin CM!Old(s) /\ p = f.pool
      BY <2>1, <3>2, <3>4
    <3>5. CASE p \notin CM!Old(s) /\ p # f.pool
      BY <2>1, <3>1, <3>2, <3>5
    <3> QED  BY <3>3, <3>4, <3>5
  <2>4. poolState' \in [Pools -> {"unused", "usable", "unusable", "closed"}]
    BY <1>10 DEF CM!Dropped, PoolsTyped
  <2>5. \A p \in CM!Pending \ {f.pool} : poolState'[p] = "usable"
    BY <1>p, <2>1, <2>2 DEF CM!NoPoolLeaks
  <2>6. r = None
    BY <1>10, <1>e
  <2>7. \A p \in Pools : poolState'[p] # "unused" => poolState[p] # "unused"
    BY <2>1, <2>2
  <2>8. clientPools' \in [Services -> Pools \cup {None}]
    BY <1>10 DEF PoolsTyped
  <2> QED  BY <1>8, <1>10, <2>3, <2>4, <2>5, <2>6, <2>7, <2>8
<1>11. CASE /\ CM!EndFlight(k, f.pool)
            /\ ~CM!Overtaken(s, f.gen) /\ poolState' = CM!Dropped(CM!Old(s))
            /\ clientPools' = [clientPools EXCEPT ![s] = f.pool]
  <2>0. s \in Services /\ f.pool \in Pools /\ f.pool # None
    BY <1>0 DEF f, s
  <2>1. \A p \in Pools : poolState'[p] = IF p = clientPools[s] THEN "unused" ELSE poolState[p]
    BY <1>11 DEF CM!Dropped, CM!Old
  <2>2. \A t \in Services : clientPools'[t] = IF t = s THEN f.pool ELSE clientPools[t]
    BY <1>11 DEF PoolsTyped
  <2>3. clientPools[s] # None => clientPools[s] \notin CM!Pending
                                 /\ \A t \in Services \ {s} : clientPools[t] # clientPools[s]
    BY <2>0 DEF CM!NoPoolLeaks, PoolsTyped, CM!Installed
  <2>4. \A p \in Pools : poolState'[p] # "unused" <=>
                           p \in CM!Pending \ {f.pool} \/ \E t \in Services : clientPools'[t] = p
    BY <1>4, <1>5, <2>0, <2>1, <2>2, <2>3 DEF CM!NoPoolLeaks
  <2>5. f.gen = generation
    BY <1>11 DEF CM!Overtaken
  <2>6. \A p \in CM!Pending \ {f.pool} : poolState'[p] = "usable"
    BY <1>p, <2>1, <2>3 DEF CM!NoPoolLeaks
  <2>7. /\ poolState' \in [Pools -> {"unused", "usable", "unusable", "closed"}]
        /\ clientPools' \in [Services -> Pools \cup {None}]
    BY <1>11, <2>0 DEF CM!Dropped, PoolsTyped
  <2>8. \A t \in Services : clientPools[t] # None => clientPools[t] \in Pools
    BY DEF PoolsTyped
  <2>9. clientPools'[s] = r
    BY <1>11, <1>e, <2>0, <2>2
  <2> QED
    BY <1>8, <2>0, <2>1, <2>2, <2>4, <2>5, <2>6, <2>7, <2>8, <2>9
<1> QED  BY <1>9, <1>10, <1>11 DEF CM!Install, f, s

(* A step of ConnectAll that has no pool before it and none after it.      *)
LEMMA ConnectStepInv ==
  ASSUME ManagerInv, NEW x \in Connectors, NEW c \in CM!ConnectType,
         connects[x].pool = None, c.pool = None, c.gen <= generation,
         connects' = [connects EXCEPT ![x] = c],
         UNCHANGED <<services, clientPools, generation, poolState, flights, calls, doomed>>
  PROVE  ManagerInv'
<1> USE ManagerConstants DEF ManagerInv
<1>1. Created' = Created
  BY DEF Created
<1>2. \A y \in Connectors : connects'[y] = IF y = x THEN c ELSE connects[y]
  BY DEF PoolsTyped
<1>3. CM!Pending' = CM!Pending
  <2>1. CM!Pending' = ({flights[l].pool : l \in Created} \cup {connects'[y].pool : y \in Connectors}) \ {None}
    BY DEF CM!Pending, Created
  <2>2. \A y \in Connectors : connects'[y].pool = connects[y].pool
    BY <1>2
  <2> QED  BY <2>1, <2>2, Pendings
<1>4. PoolsTyped'
  BY DEF PoolsTyped
<1>5. FlightsFit' /\ CallsFit' /\ FoundIsInstalled'
  BY DEF FlightsFit, CallsFit, FoundIsInstalled
<1>6. ConnectsFit' /\ OnePlace' /\ DoomedIsLate'
  BY <1>1, <1>2 DEF ConnectsFit, OnePlace, DoomedIsLate
<1>7. CM!NoPoolLeaks' /\ CM!NoPoolFromThePast'
  BY <1>3 DEF CM!NoPoolLeaks, CM!NoPoolFromThePast, CM!Installed
<1> QED  BY <1>4, <1>5, <1>6, <1>7

LEMMA BeginConnectAllInv ==
  ASSUME ManagerInv, NEW x \in Connectors, CM!BeginConnectAll(x) PROVE ManagerInv'
<1> DEFINE todo == {s \in services : ~CM!Installed(s)}
           c == [todo |-> todo, service |-> None, gen |-> generation, pool |-> None]
<1>1. c \in CM!ConnectType /\ c.pool = None /\ c.gen <= generation
  <2>1. services \subseteq Services /\ generation \in 0..MaxGeneration
    BY DEF ManagerInv, PoolsTyped, CM!Generations
  <2>2. todo \in SUBSET Services /\ generation <= generation
    BY <2>1, ManagerConstants
  <2> HIDE DEF todo
  <2> QED  BY <2>1, <2>2 DEF CM!ConnectType, CM!Generations
<1>2. /\ connects[x].pool = None /\ connects' = [connects EXCEPT ![x] = c]
      /\ UNCHANGED <<services, clientPools, generation, poolState, flights, calls, doomed>>
  BY DEF CM!BeginConnectAll, CM!NotConnecting
<1> HIDE DEF c
<1> QED  BY <1>1, <1>2, ConnectStepInv

LEMMA EndConnectAllInv ==
  ASSUME ManagerInv, NEW x \in Connectors, CM!EndConnectAll(x) PROVE ManagerInv'
<1>1. CM!NotConnecting \in CM!ConnectType /\ CM!NotConnecting.pool = None
      /\ CM!NotConnecting.gen <= generation
  BY ManagerConstants DEF CM!NotConnecting, CM!ConnectType, ManagerInv, PoolsTyped, CM!Generations
<1>2. /\ connects[x].pool = None /\ connects' = [connects EXCEPT ![x] = CM!NotConnecting]
      /\ UNCHANGED <<services, clientPools, generation, poolState, flights, calls, doomed>>
  BY DEF CM!EndConnectAll
<1> QED  BY <1>1, <1>2, ConnectStepInv

LEMMA ConnectCreateInv ==
  ASSUME ManagerInv, NEW x \in Connectors, CM!ConnectCreate(x) PROVE ManagerInv'
<1> USE ManagerConstants DEF ManagerInv
<1>1. ASSUME NEW s \in connects[x].todo, connects' = [connects EXCEPT ![x].todo = @ \ {s}],
             UNCHANGED <<poolState, doomed>>
      PROVE  ManagerInv'
  <2> DEFINE c == [connects[x] EXCEPT !.todo = @ \ {s}]
  <2>0. connects[x].pool = None /\ connects[x] \in CM!ConnectType /\ connects[x].gen <= generation
    BY DEF CM!ConnectCreate, PoolsTyped, ConnectsFit
  <2>1. c \in CM!ConnectType /\ c.pool = None /\ c.gen <= generation
    BY <2>0 DEF CM!ConnectType
  <2>2. connects' = [connects EXCEPT ![x] = c]
    BY <1>1 DEF PoolsTyped
  <2> HIDE DEF c
  <2> QED  BY <1>1, <2>1, <2>2, ConnectStepInv DEF CM!ConnectCreate
<1>2. ASSUME NEW s \in connects[x].todo, NEW p \in Pools, CM!Free(p),
             poolState' = [poolState EXCEPT ![p] = "usable"],
             connects' = [connects EXCEPT ![x].service = s, ![x].pool = p,
                                            ![x].todo = @ \ {s}],
             CM!Doom(p, connects[x].gen)
      PROVE  ManagerInv'
  <2> DEFINE c == connects'[x]
  <2>1. /\ UNCHANGED <<services, clientPools, generation, flights, calls>>
        /\ connects[x].pool = None /\ connects[x] \in CM!ConnectType /\ s \in Services
    BY DEF CM!ConnectCreate, PoolsTyped, CM!ConnectType
  <2>2. /\ c \in CM!ConnectType /\ c.pool = p /\ c.service = s /\ c.gen = connects[x].gen
        /\ \A y \in Connectors \ {x} : connects'[y] = connects[y]
        /\ connects' \in [Connectors -> CM!ConnectType]
    BY <1>2, <2>1 DEF CM!ConnectType, PoolsTyped
  <2> HIDE DEF c
  <2>3. Created' = Created
    BY <2>1 DEF Created
  <2>4. CM!Pending' = CM!Pending \cup {p}
    <3>1. CM!Pending' = ({flights[l].pool : l \in Created} \cup {connects'[y].pool : y \in Connectors}) \ {None}
      BY <2>1, <2>3 DEF CM!Pending, Created
    <3>2. \A y \in Connectors : connects'[y].pool = IF y = x THEN p ELSE connects[y].pool
      BY <2>2 DEF c
    <3> QED  BY <2>1, <3>1, <3>2, Pendings
  <2>5. poolState[p] = "unused" /\ p \notin CM!Pending /\ (\A t \in Services : clientPools[t] # p)
        /\ p \notin doomed /\ (\A g \in Getters : calls[g].pool # p)
        /\ (\A l \in CM!Keys : flights[l].pool # p)
    BY <1>2 DEF CM!Free, CM!NoPoolLeaks, DoomedIsLate
  <2>6. \A y \in Connectors : connects[y].pool # p
    BY <2>5, Pendings
  <2>7. doomed' \subseteq doomed \cup {p} /\ (c.gen = generation => doomed' = doomed)
    BY <1>2, <2>2 DEF CM!Doom
  <2>8. PoolsTyped'
    BY <1>2, <2>1, <2>2, <2>7 DEF PoolsTyped
  <2>9. FlightsFit' /\ CallsFit' /\ ConnectsFit'
    BY <2>1, <2>2 DEF FlightsFit, CallsFit, ConnectsFit, c
  <2>10. OnePlace'
    BY <2>1, <2>2, <2>3, <2>5, <2>6 DEF OnePlace, Created, c
  <2>11. FoundIsInstalled'
    BY <1>2, <2>1, <2>5 DEF FoundIsInstalled, PoolsTyped
  <2>12. DoomedIsLate'
    BY <1>2, <2>1, <2>2, <2>3, <2>5, <2>6, <2>7 DEF DoomedIsLate, PoolsTyped, Created, c
  <2>13. CM!NoPoolLeaks'
    BY <1>2, <2>1, <2>4, <2>5 DEF CM!NoPoolLeaks, CM!Installed, PoolsTyped
  <2>14. CM!NoPoolFromThePast'
    BY <2>1, <2>5, <2>7 DEF CM!NoPoolFromThePast
  <2> QED  BY <2>8, <2>9, <2>10, <2>11, <2>12, <2>13, <2>14
<1> QED  BY <1>1, <1>2 DEF CM!ConnectCreate

LEMMA ConnectInstallInv ==
  ASSUME ManagerInv, NEW x \in Connectors, CM!ConnectInstall(x) PROVE ManagerInv'
<1> USE ManagerConstants DEF ManagerInv
<1> DEFINE c == connects[x]
<1>0. /\ c.pool # None /\ c.pool \in Pools /\ c.service \in Services /\ c \in CM!ConnectType
      /\ c.gen <= generation
  BY DEF CM!ConnectInstall, PoolsTyped, CM!ConnectType, ConnectsFit
<1>1. UNCHANGED <<services, generation, flights, calls>>
  BY DEF CM!ConnectInstall
<1>2. /\ \A y \in Connectors : connects'[y] = IF y = x THEN [c EXCEPT !.service = None, !.pool = None]
                                              ELSE connects[y]
      /\ connects' \in [Connectors -> CM!ConnectType]
  BY DEF CM!ConnectInstall, PoolsTyped, CM!ConnectType
<1>3. connects'[x].pool = None /\ connects'[x].gen = c.gen
  BY <1>0, <1>2 DEF CM!ConnectType
<1>4. Created' = Created
  BY <1>1 DEF Created
<1>5. c.pool \in CM!Pending
  BY <1>0, Pendings
<1>p. CM!Pending \subseteq Pools
  BY PendingPools
<1>6. /\ poolState[c.pool] = "usable"
      /\ \A t \in Services : clientPools[t] # c.pool
      /\ \A l \in Created : flights[l].pool # c.pool
      /\ \A y \in Connectors \ {x} : connects[y].pool # c.pool
  BY <1>0, <1>5 DEF CM!NoPoolLeaks, OnePlace
<1>7. CM!Pending' = CM!Pending \ {c.pool}
  <2>1. CM!Pending' = ({flights[l].pool : l \in Created} \cup {connects'[y].pool : y \in Connectors}) \ {None}
    BY <1>1, <1>4 DEF CM!Pending, Created
  <2>2. \A y \in Connectors : connects'[y].pool = IF y = x THEN None ELSE connects[y].pool
    BY <1>2, <1>3
  <2> QED  BY <1>6, <2>1, <2>2, Pendings
<1>8. doomed' = {p \in doomed : poolState'[p] # "unused"}
  BY DEF CM!ConnectInstall, CM!ForgetDropped
<1>9. \A t \in Services : clientPools[t] # None => clientPools[t] \in Pools
  BY DEF PoolsTyped
<1> HIDE DEF c
(* What the two ways on have in common.                                    *)
<1>10. ASSUME poolState' \in [Pools -> {"unused", "usable", "unusable", "closed"}],
              clientPools' \in [Services -> Pools \cup {None}],
              \A p \in Pools : poolState'[p] = poolState[p] \/ (p = c.pool /\ poolState'[p] = "unused"),
              \A t \in Services : clientPools'[t] # clientPools[t] =>
                  t = c.service /\ clientPools'[t] = c.pool /\ c.gen = generation
                  /\ clientPools[t] = None,
              \A p \in Pools : poolState'[p] # "unused" <=>
                  p \in CM!Pending \ {c.pool} \/ \E t \in Services : clientPools'[t] = p
       PROVE  ManagerInv'
  <2>1. PoolsTyped'
    BY <1>1, <1>2, <1>8, <1>10 DEF PoolsTyped
  <2>2. FlightsFit' /\ CallsFit' /\ ConnectsFit'
    BY <1>0, <1>1, <1>2, <1>3 DEF FlightsFit, CallsFit, ConnectsFit
  <2>3. OnePlace'
    BY <1>1, <1>2, <1>3, <1>4 DEF OnePlace, Created, FlightsFit
  <2>4. FoundIsInstalled'
    <3>1. ASSUME NEW g \in Getters, calls[g].pool # None, poolState'[calls[g].pool] # "unused"
          PROVE  clientPools'[calls[g].service] = calls[g].pool
      <4>1. calls[g].pool \in Pools /\ calls[g].service \in Services
        <5>1. calls[g].stage # "idle" /\ calls[g] \in CM!CallType
          BY <3>1 DEF PoolsTyped
        <5> QED  BY <3>1, <5>1 DEF CM!CallType, CallsFit
      <4>2. clientPools[calls[g].service] = calls[g].pool
        BY <1>10, <3>1, <4>1 DEF FoundIsInstalled
      <4> QED  BY <1>10, <3>1, <4>1, <4>2
    <3>2. ASSUME NEW l \in CM!Keys, flights[l].stage # "created", flights[l].pool # None,
                 poolState'[flights[l].pool] # "unused"
          PROVE  clientPools'[flights[l].service] = flights[l].pool
      <4>1. flights[l].pool \in Pools /\ flights[l].service \in Services
        BY <3>2 DEF PoolsTyped, CM!FlightType, FlightsFit
      <4>2. clientPools[flights[l].service] = flights[l].pool
        BY <1>10, <3>2, <4>1 DEF FoundIsInstalled
      <4> QED  BY <1>10, <3>2, <4>1, <4>2
    <3> QED  BY <1>1, <3>1, <3>2 DEF FoundIsInstalled
  <2>5. DoomedIsLate'
    BY <1>1, <1>2, <1>3, <1>4, <1>8 DEF DoomedIsLate, Created
  <2>6. CM!NoPoolFromThePast'
    BY <1>0, <1>8, <1>10 DEF CM!NoPoolFromThePast, DoomedIsLate, c
  <2>7. CM!NoPoolLeaks'
    <3>1. \A p \in CM!Pending' : poolState'[p] = "usable" /\ \A t \in Services : clientPools'[t] # p
      BY <1>7, <1>10, <1>p DEF CM!NoPoolLeaks
    <3>2. \A t, u \in Services : clientPools'[t] # None /\ clientPools'[t] = clientPools'[u] => t = u
      BY <1>6, <1>10 DEF CM!NoPoolLeaks, CM!Installed
    <3> QED  BY <1>7, <1>10, <3>1, <3>2 DEF CM!NoPoolLeaks, CM!Installed
  <2> QED  BY <2>1, <2>2, <2>3, <2>4, <2>5, <2>6, <2>7
<1>11. CASE poolState' = CM!Dropped({c.pool}) /\ UNCHANGED clientPools
  <2>1. \A p \in Pools : poolState'[p] = IF p = c.pool THEN "unused" ELSE poolState[p]
    BY <1>11 DEF CM!Dropped
  <2>2. poolState' \in [Pools -> {"unused", "usable", "unusable", "closed"}]
    BY <1>11 DEF CM!Dropped, PoolsTyped
  <2>3. \A p \in Pools : poolState'[p] # "unused" <=>
                           p \in CM!Pending \ {c.pool} \/ \E t \in Services : clientPools'[t] = p
    BY <1>6, <1>11, <2>1 DEF CM!NoPoolLeaks
  <2> QED  BY <1>10, <1>11, <2>1, <2>2, <2>3 DEF PoolsTyped
<1>12. CASE /\ ~CM!Installed(c.service) /\ ~CM!Overtaken(c.service, c.gen) /\ UNCHANGED poolState
            /\ clientPools' = [clientPools EXCEPT ![c.service] = c.pool]
  <2>0. c.service \in Services /\ c.pool \in Pools
    BY <1>0
  <2>1. \A t \in Services : clientPools'[t] = IF t = c.service THEN c.pool ELSE clientPools[t]
    BY <1>12 DEF PoolsTyped
  <2>2. clientPools[c.service] = None /\ c.gen = generation
    BY <1>12 DEF CM!Installed, CM!Overtaken
  <2>3. /\ poolState' \in [Pools -> {"unused", "usable", "unusable", "closed"}]
        /\ clientPools' \in [Services -> Pools \cup {None}]
    BY <1>12, <2>0 DEF PoolsTyped
  <2>4. \A p \in Pools : poolState'[p] # "unused" <=>
                           p \in CM!Pending \ {c.pool} \/ \E t \in Services : clientPools'[t] = p
    BY <1>5, <1>12, <2>0, <2>1, <2>2 DEF CM!NoPoolLeaks
  <2> QED  BY <1>10, <1>12, <2>0, <2>1, <2>2, <2>3, <2>4
<1> QED  BY <1>11, <1>12 DEF CM!ConnectInstall, c

(* CloseClient and CloseAll: pools leave the maps, and the generation goes *)
(* on.                                                                     *)
LEMMA ResetInv ==
  ASSUME ManagerInv, generation < MaxGeneration, generation' = generation + 1,
         doomed' = doomed \cup CM!Pending,
         UNCHANGED <<services, flights, calls, connects>>,
         poolState' \in [Pools -> {"unused", "usable", "unusable", "closed"}],
         \A t \in Services : clientPools'[t] = clientPools[t]
                             \/ (clientPools'[t] = None /\ (clientPools[t] # None =>
                                                            poolState'[clientPools[t]] = "unused")),
         clientPools' \in [Services -> Pools \cup {None}],
         \A p \in Pools : poolState'[p] # "unused" <=>
                  p \in CM!Pending \/ \E t \in Services : clientPools'[t] = p,
         \A p \in CM!Pending : poolState'[p] = "usable"
  PROVE  ManagerInv'
<1> USE ManagerConstants DEF ManagerInv
<1>1. Created' = Created /\ CM!Pending' = CM!Pending /\ CM!Pending \subseteq Pools
  BY PendingPools DEF Created, CM!Pending
<1>2. generation \in Nat /\ generation' \in Nat /\ generation' > generation
      /\ generation' \in CM!Generations
  BY DEF PoolsTyped, CM!Generations
<1>3. PoolsTyped'
  BY <1>1, <1>2 DEF PoolsTyped
<1>4. FlightsFit' /\ CallsFit' /\ ConnectsFit'
  <2>1. \A n \in CM!Generations : n <= generation => n <= generation' /\ n # generation'
    BY <1>2 DEF CM!Generations
  <2> QED  BY <2>1 DEF FlightsFit, CallsFit, ConnectsFit, PoolsTyped, CM!FlightType, CM!CallType, CM!ConnectType
<1>5. OnePlace'
  BY <1>1 DEF OnePlace
<1>6. FoundIsInstalled'
  <2>1. \A p \in Pools : poolState'[p] # "unused" => poolState[p] # "unused"
    BY DEF CM!NoPoolLeaks
  <2>2. ASSUME NEW p \in Pools, NEW s \in Services, clientPools[s] = p, poolState'[p] # "unused"
        PROVE  clientPools'[s] = p
    BY <2>2
  <2>3. \A g \in Getters : calls[g].pool # None =>
                             calls[g].pool \in Pools /\ calls[g].service \in Services
    BY DEF PoolsTyped, CM!CallType, CallsFit
  <2>4. \A k \in CM!Keys : flights[k].pool # None =>
                             flights[k].pool \in Pools /\ flights[k].service \in Services
    BY DEF PoolsTyped, CM!FlightType, FlightsFit
  <2> QED  BY <2>1, <2>2, <2>3, <2>4 DEF FoundIsInstalled
<1>7. DoomedIsLate'
  <2>1. \A p \in doomed' : poolState'[p] # "unused"
    BY <1>1 DEF DoomedIsLate, CM!NoPoolFromThePast, PoolsTyped, CM!NoPoolLeaks
  <2>2. \A k \in Created : flights[k].gen # generation'
    BY <1>2 DEF FlightsFit, Created, PoolsTyped, CM!FlightType, CM!Generations
  <2>3. \A x \in Connectors : connects[x].gen # generation'
    BY <1>2 DEF ConnectsFit, PoolsTyped, CM!ConnectType, CM!Generations
  <2> QED  BY <1>1, <2>1, <2>2, <2>3 DEF DoomedIsLate
<1>8. CM!NoPoolLeaks'
  BY <1>1 DEF CM!NoPoolLeaks, CM!Installed
<1>9. CM!NoPoolFromThePast'
  BY <1>1 DEF CM!NoPoolFromThePast, CM!NoPoolLeaks, PoolsTyped
<1> QED  BY <1>3, <1>4, <1>5, <1>6, <1>7, <1>8, <1>9

LEMMA CloseClientInv == ASSUME ManagerInv, NEW s \in Services, CM!CloseClient(s) PROVE ManagerInv'
<1> USE ManagerConstants DEF ManagerInv
<1>1. /\ generation < MaxGeneration /\ generation' = generation + 1
      /\ doomed' = doomed \cup CM!Pending
      /\ UNCHANGED <<services, flights, calls, connects>>
  BY DEF CM!CloseClient
<1>2. CM!Pending \subseteq Pools
  BY PendingPools
<1>3. \A t \in Services : clientPools[t] # None => clientPools[t] \in Pools
  BY DEF PoolsTyped
<1>4. CASE UNCHANGED <<clientPools, poolState>>
  BY <1>1, <1>4, ResetInv DEF PoolsTyped, CM!NoPoolLeaks
<1>5. CASE /\ CM!Installed(s) /\ poolState' = CM!Dropped(CM!Old(s))
           /\ clientPools' = [clientPools EXCEPT ![s] = None]
  <2>1. clientPools[s] \in Pools /\ clientPools[s] \notin CM!Pending
        /\ \A t \in Services \ {s} : clientPools[t] # clientPools[s]
    BY <1>3, <1>5 DEF CM!Installed, CM!NoPoolLeaks
  <2>2. \A p \in Pools : poolState'[p] = IF p = clientPools[s] THEN "unused" ELSE poolState[p]
    BY <1>5 DEF CM!Dropped, CM!Old, CM!Installed
  <2>3. \A t \in Services : clientPools'[t] = IF t = s THEN None ELSE clientPools[t]
    BY <1>5 DEF PoolsTyped
  <2>4. /\ poolState' \in [Pools -> {"unused", "usable", "unusable", "closed"}]
        /\ clientPools' \in [Services -> Pools \cup {None}]
    BY <1>5 DEF CM!Dropped, PoolsTyped
  <2>5. \A p \in Pools : poolState'[p] # "unused" <=>
                           p \in CM!Pending \/ \E t \in Services : clientPools'[t] = p
    BY <2>1, <2>2, <2>3 DEF CM!NoPoolLeaks
  <2>6. \A p \in CM!Pending : poolState'[p] = "usable"
    BY <1>2, <2>1, <2>2 DEF CM!NoPoolLeaks
  <2> QED  BY <1>1, <2>1, <2>2, <2>3, <2>4, <2>5, <2>6, ResetInv
<1>6. CASE /\ CM!Installed(s) /\ poolState' = [poolState EXCEPT ![clientPools[s]] = "closed"]
           /\ UNCHANGED clientPools
  <2>1. clientPools[s] \in Pools /\ clientPools[s] \notin CM!Pending
    BY <1>3, <1>6 DEF CM!Installed, CM!NoPoolLeaks
  <2>2. \A p \in Pools : poolState'[p] = IF p = clientPools[s] THEN "closed" ELSE poolState[p]
    BY <1>6 DEF PoolsTyped
  <2>3. poolState' \in [Pools -> {"unused", "usable", "unusable", "closed"}]
    BY <1>6 DEF PoolsTyped
  <2>4. \A p \in Pools : poolState'[p] # "unused" <=>
                           p \in CM!Pending \/ \E t \in Services : clientPools'[t] = p
    BY <1>6, <2>1, <2>2 DEF CM!NoPoolLeaks
  <2>5. \A p \in CM!Pending : poolState'[p] = "usable"
    BY <1>2, <2>1, <2>2 DEF CM!NoPoolLeaks
  <2> QED  BY <1>1, <1>6, <2>3, <2>4, <2>5, ResetInv DEF PoolsTyped
<1> QED  BY <1>4, <1>5, <1>6 DEF CM!CloseClient

LEMMA CloseAllInv == ASSUME ManagerInv, CM!CloseAll PROVE ManagerInv'
<1> USE ManagerConstants DEF ManagerInv
<1>1. /\ generation < MaxGeneration /\ generation' = generation + 1
      /\ doomed' = doomed \cup CM!Pending
      /\ UNCHANGED <<services, flights, calls, connects>>
  BY DEF CM!CloseAll
<1>2. CM!Pending \subseteq Pools
  BY PendingPools
<1>3. \A p \in Pools : p \in UNION {CM!Old(s) : s \in Services} <=> \E s \in Services : clientPools[s] = p
  BY DEF CM!Old
<1>4. \A p \in Pools : poolState'[p] = IF \E s \in Services : clientPools[s] = p THEN "unused"
                                       ELSE poolState[p]
  BY <1>3 DEF CM!CloseAll, CM!Dropped
<1>5. /\ poolState' \in [Pools -> {"unused", "usable", "unusable", "closed"}]
      /\ clientPools' \in [Services -> Pools \cup {None}]
  BY DEF CM!CloseAll, CM!Dropped, PoolsTyped
<1>6. \A t \in Services : clientPools'[t] = None /\ (clientPools[t] # None => clientPools[t] \in Pools)
  BY DEF CM!CloseAll, PoolsTyped
<1>7. \A p \in Pools : poolState'[p] # "unused" <=>
                         p \in CM!Pending \/ \E t \in Services : clientPools'[t] = p
  BY <1>4, <1>6 DEF CM!NoPoolLeaks
<1>8. \A p \in CM!Pending : poolState'[p] = "usable"
  BY <1>2, <1>4 DEF CM!NoPoolLeaks
<1> QED  BY <1>1, <1>4, <1>5, <1>6, <1>7, <1>8, ResetInv

LEMMA ManagerStep == ManagerInv /\ [CM!Next]_CM!vars => ManagerInv'
<1> SUFFICES ASSUME ManagerInv, [CM!Next]_CM!vars PROVE ManagerInv'
  OBVIOUS
<1>1. CASE UNCHANGED CM!vars
  BY <1>1 DEF ManagerInv, PoolsTyped, FlightsFit, CallsFit, ConnectsFit, OnePlace, Created,
     FoundIsInstalled, DoomedIsLate, CM!NoPoolLeaks, CM!NoPoolFromThePast, CM!vars, CM!Installed,
     CM!Pending
<1>2. CASE CM!Next
  BY <1>2, RegisterServiceInv, CloseClientInv, CloseFromOutsideInv, LookInv, TryPoolInv, JoinInv,
     ReceiveInv, GiveUpInv, RecheckInv, TryPoolInFlightInv, CreateInv, InstallInv, DeliverInv,
     BeginConnectAllInv,
     ConnectCreateInv, ConnectInstallInv, EndConnectAllInv, CloseAllInv DEF CM!Next
<1> QED  BY <1>1, <1>2

LEMMA ManagerAlways == CM!Spec => []ManagerInv
BY InitManager, ManagerStep, PTL DEF CM!Spec

(* A pool is open exactly while it is installed or on its way in, and has  *)
(* one place: every pool that GetClient, ConnectAll, CloseClient or        *)
(* CloseAll drops is closed, and none is closed under its owner.           *)
THEOREM PoolsDoNotLeak == CM!Spec => []NoPoolLeaks
<1>1. ManagerInv => NoPoolLeaks
  BY DEF ManagerInv, NoPoolLeaks
<1> QED  BY <1>1, ManagerAlways, PTL

(* A pool whose creation began before a CloseClient or CloseAll never gets *)
(* into the map after it: the generations compared under m.mu suffice.     *)
THEOREM NoPoolOutlivesReset == CM!Spec => []NoPoolFromThePast
<1>1. ManagerInv => NoPoolFromThePast
  BY DEF ManagerInv, NoPoolFromThePast
<1> QED  BY <1>1, ManagerAlways, PTL

-----------------------------------------------------------------------------
(* What GetClient returns.  A caller that begins when a reset is over asks *)
(* under a key of its own, so that it can only get what a flight of its    *)
(* generation came to (EndedIsOpen), and what a flight ends with while it  *)
(* waits is usable then (TimesFit).                                        *)

(* The pool a flight of this generation ended with is open, and shut only  *)
(* if somebody who had one of its clients closed them.                     *)
EndedIsOpen ==
  /\ \A p \in outside : poolState[p] # "unused"
  /\ \A k \in CM!Keys :
       flights[k].stage = "ended" /\ flights[k].pool # None /\ flights[k].gen = generation =>
         poolState[flights[k].pool] = "usable" \/ flights[k].pool \in outside

(* What a caller has, or can be given by the flight under its key, was not *)
(* shut when its call began.                                               *)
TimesFit ==
  /\ shut \in [Getters -> SUBSET Pools]
  /\ \A g \in Getters : \A p \in shut[g] : poolState[p] # "usable"
  /\ \A g \in Getters : calls[g].stage # "idle" =>
       LET k == CM!PoolKey(calls[g].service, calls[g].gen) IN
       /\ calls[g].pool \notin shut[g]
       /\ flights[k].stage = "ended" => flights[k].pool \notin shut[g]

LEMMA CallKey == ASSUME ManagerInv, NEW g \in Getters, calls[g].stage # "idle"
                 PROVE  CM!PoolKey(calls[g].service, calls[g].gen) \in CM!Keys
BY DEF ManagerInv, PoolsTyped, CM!CallType, CallsFit, CM!Keys, CM!PoolKey

(* A step after which no call has begun and no pool has become usable, and *)
(* flights have ended only with what is usable.                            *)
LEMMA TimesStep ==
  ASSUME ManagerInv, TimesFit, shut' = shut,
         \A p \in Pools : poolState'[p] = "usable" => poolState[p] = "usable",
         \A g \in Getters : calls'[g].stage # "idle" =>
           /\ calls[g].stage # "idle"
           /\ calls'[g].service = calls[g].service /\ calls'[g].gen = calls[g].gen
           /\ LET k == CM!PoolKey(calls[g].service, calls[g].gen) IN
              \/ calls'[g].pool \in {calls[g].pool, None}
              \/ flights[k].stage = "ended" /\ calls'[g].pool = flights[k].pool,
         \A k \in CM!Keys : flights'[k].stage = "ended" =>
           \/ flights'[k] = flights[k]
           \/ flights'[k].pool # None => poolState[flights'[k].pool] = "usable"
  PROVE  TimesFit'
<1> USE ManagerConstants DEF TimesFit
<1>1. \A g \in Getters : shut[g] \subseteq Pools /\ None \notin shut[g]
  OBVIOUS
<1>2. ASSUME NEW g \in Getters, calls'[g].stage # "idle"
      PROVE  LET k == CM!PoolKey(calls'[g].service, calls'[g].gen) IN
             /\ calls'[g].pool \notin shut[g]
             /\ flights'[k].stage = "ended" => flights'[k].pool \notin shut[g]
  <2> DEFINE k == CM!PoolKey(calls[g].service, calls[g].gen)
  <2>1. /\ calls[g].stage # "idle" /\ CM!PoolKey(calls'[g].service, calls'[g].gen) = k
        /\ calls[g].pool \notin shut[g]
        /\ flights[k].stage = "ended" => flights[k].pool \notin shut[g]
        /\ \/ calls'[g].pool \in {calls[g].pool, None}
           \/ flights[k].stage = "ended" /\ calls'[g].pool = flights[k].pool
    BY <1>2 DEF CM!PoolKey
  <2>2. k \in CM!Keys
    BY <2>1, CallKey
  <2> HIDE DEF k
  <2>3. calls'[g].pool \notin shut[g]
    BY <1>1, <2>1
  <2>4. ASSUME flights'[k].stage = "ended" PROVE flights'[k].pool \notin shut[g]
    BY <1>1, <2>1, <2>2, <2>4
  <2> QED  BY <2>1, <2>3, <2>4
<1>3. \A g \in Getters : \A p \in shut'[g] : poolState'[p] # "usable"
  BY <1>1
<1> QED  BY <1>2, <1>3

(* A caller that goes back to being idle.                                  *)
LEMMA ReturnTimes ==
  ASSUME ManagerInv, TimesFit, NEW g \in Getters, CM!Return(g), UNCHANGED <<poolState, flights>>
  PROVE  TimesFit'
<1>1. /\ shut' = [shut EXCEPT ![g] = {}] /\ calls'[g].stage = "idle"
      /\ \A h \in Getters \ {g} : calls'[h] = calls[h]
  BY IdleCall DEF CM!Return, ManagerInv, PoolsTyped
<1> QED  BY <1>1 DEF TimesFit

LEMMA LookTimes ==
  ASSUME ManagerInv, TimesFit, EndedIsOpen, NEW g \in Getters, NEW s \in Services, CM!Look(g, s)
  PROVE  TimesFit'
<1>0. UNCHANGED <<poolState, flights>>
  BY DEF CM!Look
<1>1. CASE CM!Return(g)
  BY <1>0, <1>1, ReturnTimes
<1>2. CASE /\ shut' = [shut EXCEPT ![g] = CM!Shut]
           /\ \E st \in {"holding", "looked"}, p \in Pools \cup {None} :
                /\ calls' = [calls EXCEPT ![g] = [stage |-> st, service |-> s, gen |-> generation, pool |-> p]]
                /\ p = None \/ poolState[p] = "usable"
  <2>1. PICK st \in {"holding", "looked"}, p \in Pools \cup {None} :
          /\ calls' = [calls EXCEPT ![g] = [stage |-> st, service |-> s, gen |-> generation, pool |-> p]]
          /\ p = None \/ poolState[p] = "usable"
    BY <1>2
  <2>2. /\ calls'[g].service = s /\ calls'[g].gen = generation /\ calls'[g].pool = p
        /\ \A h \in Getters \ {g} : calls'[h] = calls[h]
    BY <2>1 DEF ManagerInv, PoolsTyped
  <2>3. CM!Shut \subseteq Pools /\ \A q \in CM!Shut : poolState[q] # "usable" /\ q \notin outside
    BY DEF CM!Shut
  <2>4. p \notin CM!Shut
    BY <2>1, <2>3, ManagerConstants
  <2> DEFINE k == CM!PoolKey(s, generation)
  <2>5. ASSUME flights[k].stage = "ended" PROVE flights[k].pool \notin CM!Shut
    <3>1. k \in CM!Keys
      BY DEF CM!Keys, CM!PoolKey, ManagerInv, PoolsTyped
    <3>2. flights[k].gen = generation
      BY <2>5, <3>1 DEF CM!PoolKey, ManagerInv, FlightsFit
    <3> HIDE DEF k
    <3> QED  BY <2>3, <2>5, <3>1, <3>2, ManagerConstants DEF EndedIsOpen
  <2> QED  BY <1>0, <1>2, <2>2, <2>3, <2>4, <2>5 DEF TimesFit
<1>3. CM!Return(g) \/
        /\ shut' = [shut EXCEPT ![g] = CM!Shut]
        /\ \E st \in {"holding", "looked"}, p \in Pools \cup {None} :
             /\ calls' = [calls EXCEPT ![g] = [stage |-> st, service |-> s, gen |-> generation, pool |-> p]]
             /\ p = None \/ poolState[p] = "usable"
  BY DEF CM!Look, CM!Usable, CM!Installed, ManagerInv, PoolsTyped
<1> QED  BY <1>1, <1>2, <1>3

(* A pool object is used again: nobody remembers it.                       *)
LEMMA RenewTimes ==
  ASSUME ManagerInv, TimesFit, NEW p \in Pools, CM!Free(p), CM!Renew(p),
         poolState' = [poolState EXCEPT ![p] = "usable"], UNCHANGED calls,
         \A k \in CM!Keys : flights'[k] = flights[k] \/ flights'[k].stage = "created"
  PROVE  TimesFit'
<1>1. shut' = [g \in Getters |-> shut[g] \ {p}]
  BY DEF CM!Renew
<1>2. \A q \in Pools : poolState'[q] = IF q = p THEN "usable" ELSE poolState[q]
  BY DEF ManagerInv, PoolsTyped
<1>3. ASSUME NEW g \in Getters, calls'[g].stage # "idle"
      PROVE  LET k == CM!PoolKey(calls'[g].service, calls'[g].gen) IN
             /\ calls'[g].pool \notin shut'[g]
             /\ flights'[k].stage = "ended" => flights'[k].pool \notin shut'[g]
  <2> DEFINE k == CM!PoolKey(calls[g].service, calls[g].gen)
  <2>1. /\ k \in CM!Keys /\ calls[g].pool \notin shut[g]
        /\ flights[k].stage = "ended" => flights[k].pool \notin shut[g]
        /\ shut'[g] \subseteq shut[g]
    BY <1>1, <1>3, CallKey DEF TimesFit
  <2> HIDE DEF k
  <2>2. flights'[k].stage = "ended" => flights'[k].pool \notin shut'[g]
    BY <2>1
  <2> QED  BY <2>1, <2>2 DEF k
<1>4. shut' \in [Getters -> SUBSET Pools]
  BY <1>1 DEF TimesFit
<1>5. \A g \in Getters : \A q \in shut'[g] : poolState'[q] # "usable"
  BY <1>1, <1>2 DEF TimesFit
<1> QED  BY <1>3, <1>4, <1>5 DEF TimesFit

(* What a pool that is created or installed leaves alone.                  *)
LEMMA CreatedIsNew ==
  ASSUME ManagerInv, NEW p \in CM!Pending, NEW k \in CM!Keys, flights[k].stage = "ended"
  PROVE  flights[k].pool # p
<1>1. poolState[p] = "usable" /\ \A s \in Services : clientPools[s] # p
  BY DEF ManagerInv, CM!NoPoolLeaks
<1>2. flights[k].service \in Services /\ p # None
  BY DEF ManagerInv, FlightsFit, CM!Pending
<1> QED  BY <1>1, <1>2 DEF ManagerInv, FoundIsInstalled

LEMMA InstallTimes ==
  ASSUME ManagerInv, TimesFit, EndedIsOpen, NEW k \in CM!Keys, CM!Install(k)
  PROVE  TimesFit' /\ EndedIsOpen'
<1> DEFINE f == flights[k]
           s == f.service
<1>0. /\ f.stage = "created" /\ f.pool \in Pools /\ f.pool \in CM!Pending /\ s \in Services
      /\ k = <<s, f.gen>> /\ poolState[f.pool] = "usable"
      /\ \A t \in Services : clientPools[t] # f.pool
  <2>1. f.stage = "created" /\ f.pool # None /\ s \in Services /\ k = <<s, f.gen>>
    BY DEF CM!Install, ManagerInv, FlightsFit
  <2>2. f.pool \in CM!Pending
    BY <2>1, Pendings DEF Created
  <2> QED  BY <2>1, <2>2, PendingPools DEF ManagerInv, CM!NoPoolLeaks
<1>1. /\ UNCHANGED <<services, generation, calls, connects, shut>>
      /\ outside' = {p \in outside : poolState'[p] # "unused"}
  BY DEF CM!Install, CM!ForgetDropped
<1>2. PICK r \in Pools \cup {None} :
        /\ CM!EndFlight(k, r)
        /\ r # None => poolState[r] = "usable" /\ poolState'[r] = "usable"
  <2>1. CASE CM!Usable(s) /\ poolState' = CM!Dropped({f.pool}) /\ CM!EndFlight(k, clientPools[s])
    BY <1>0, <2>1 DEF CM!Usable, CM!Installed, CM!Dropped, ManagerInv, PoolsTyped
  <2>2. CASE CM!EndFlight(k, None)
    BY <2>2
  <2>3. CASE ~CM!Usable(s) /\ poolState' = CM!Dropped(CM!Old(s)) /\ CM!EndFlight(k, f.pool)
    BY <1>0, <2>3 DEF CM!Dropped, CM!Old, ManagerInv, PoolsTyped
  <2> QED  BY <2>1, <2>2, <2>3 DEF CM!Install
<1>3. /\ \A l \in CM!Keys \ {k} : flights'[l] = flights[l]
      /\ flights'[k].pool = r
  BY <1>2 DEF CM!EndFlight, ManagerInv, PoolsTyped
<1>4. \A p \in Pools : poolState'[p] = "usable" => poolState[p] = "usable"
  BY DEF CM!Install, CM!Dropped, CM!Old
<1>5. TimesFit'
  BY <1>1, <1>2, <1>3, <1>4, TimesStep
<1>6. EndedIsOpen'
  <2> SUFFICES ASSUME NEW l \in CM!Keys, flights'[l].stage = "ended", flights'[l].pool # None,
                      flights'[l].gen = generation
               PROVE  poolState'[flights'[l].pool] = "usable" \/ flights'[l].pool \in outside'
    BY <1>1 DEF EndedIsOpen
  <2>1. CASE l = k
    BY <1>2, <1>3, <2>1
  <2>2. CASE l # k
    <3> DEFINE p == flights[l].pool
    <3>1. /\ flights'[l] = flights[l] /\ p \in Pools /\ p # f.pool /\ p # None
          /\ poolState[p] = "usable" \/ p \in outside
      BY <1>0, <1>3, <2>2, CreatedIsNew DEF EndedIsOpen, ManagerInv, PoolsTyped, CM!FlightType
    <3>2. flights[l].service \in Services /\ l = <<flights[l].service, flights[l].gen>>
      BY <3>1 DEF ManagerInv, FlightsFit
    <3>3. poolState[p] # "unused" => clientPools[flights[l].service] = p
      BY <3>1 DEF ManagerInv, FoundIsInstalled
    <3> HIDE DEF p
    <3>4. CASE poolState'[p] = poolState[p] /\ poolState[p] # "unused"
      BY <1>1, <3>1, <3>4 DEF p
    <3>5. CASE poolState[p] = "unused"
      BY <3>1, <3>5 DEF EndedIsOpen
    <3>6. CASE poolState'[p] # poolState[p] /\ poolState[p] # "unused"
      <4>1. CASE CM!Usable(s) /\ poolState' = CM!Dropped({f.pool})
        BY <3>1, <3>6, <4>1 DEF CM!Dropped
      <4>2. CASE /\ ~CM!Usable(s)
                 /\ poolState' = [q \in Pools |-> IF q \in CM!Old(s) THEN "closed"
                                                  ELSE CM!Dropped({f.pool})[q]]
        <5>1. p \in CM!Old(s) /\ poolState'[p] = "closed"
          BY <3>1, <3>6, <4>2 DEF CM!Dropped
        <5>2. poolState[p] # "usable"
          BY <4>2, <5>1 DEF CM!Old, CM!Usable, CM!Installed
        <5> QED  BY <1>1, <3>1, <5>1, <5>2 DEF p
      <4>3. CASE /\ ~CM!Overtaken(s, f.gen) /\ poolState' = CM!Dropped(CM!Old(s))
        <5>1. clientPools[s] = p
          BY <3>1, <3>6, <4>3 DEF CM!Dropped, CM!Old
        <5>2. flights[l].service = s
          BY <1>0, <3>1, <3>2, <3>3, <3>6, <5>1 DEF ManagerInv, CM!NoPoolLeaks, CM!Installed
        <5>3. f.gen = flights[l].gen
          BY <3>1, <4>3 DEF CM!Overtaken
        <5> QED  BY <1>0, <2>2, <3>2, <5>2, <5>3
      <4> QED  BY <4>1, <4>2, <4>3 DEF CM!Install
    <3> QED  BY <3>4, <3>5, <3>6
  <2> QED  BY <2>1, <2>2
<1> QED  BY <1>5, <1>6

(* A step that leaves the pools, the generation and the clients alone.     *)
LEMMA QuietEnds ==
  ASSUME EndedIsOpen, UNCHANGED <<poolState, generation, outside>>,
         \A k \in CM!Keys : flights'[k].stage = "ended" =>
           \/ flights'[k] = flights[k]
           \/ flights'[k].pool # None => poolState[flights'[k].pool] = "usable"
  PROVE  EndedIsOpen'
BY DEF EndedIsOpen

(* A flight that ends as EndFlight and the steps before say.               *)
LEMMA FlightTimes ==
  ASSUME ManagerInv, TimesFit, EndedIsOpen, NEW k \in CM!Keys,
         UNCHANGED <<calls, shut, poolState, generation, outside>>,
         \/ \E p \in Pools \cup {None} : CM!EndFlight(k, p) /\ (p # None => poolState[p] = "usable")
         \/ /\ \A l \in CM!Keys \ {k} : flights'[l] = flights[l]
            /\ flights'[k].stage # "ended"
  PROVE  TimesFit' /\ EndedIsOpen'
<1>1. \A l \in CM!Keys : flights'[l].stage = "ended" =>
        \/ flights'[l] = flights[l]
        \/ flights'[l].pool # None => poolState[flights'[l].pool] = "usable"
  <2>1. ASSUME NEW p \in Pools \cup {None}, CM!EndFlight(k, p), p # None => poolState[p] = "usable"
        PROVE  /\ \A l \in CM!Keys \ {k} : flights'[l] = flights[l]
               /\ flights'[k].pool = p
    <3>1. flights \in [CM!Keys -> CM!FlightType]
      BY DEF ManagerInv, PoolsTyped
    <3>2. flights' = [flights EXCEPT ![k] = [flights[k] EXCEPT !.stage = "ended", !.pool = p]]
      BY <2>1, <3>1, TwoFields DEF CM!EndFlight
    <3> QED  BY <3>1, <3>2 DEF CM!FlightType
  <2> QED  BY <2>1
<1>2. \A g \in Getters : calls'[g] = calls[g]
  OBVIOUS
<1>3. TimesFit'
  BY <1>1, <1>2, TimesStep
<1>4. EndedIsOpen'
  BY <1>1, QuietEnds
<1> QED  BY <1>3, <1>4

LEMMA CallerTimes ==
  ASSUME ManagerInv, TimesFit, EndedIsOpen, NEW g \in Getters,
         CM!TryPool(g) \/ CM!Join(g) \/ CM!Receive(g) \/ CM!GiveUp(g)
  PROVE  TimesFit' /\ EndedIsOpen'
<1>1. CASE UNCHANGED flights /\ CM!Return(g) /\ UNCHANGED <<poolState, generation, outside>>
  BY <1>1, ReturnTimes, QuietEnds
<1>2. CASE CM!TryPool(g) /\ ~CM!Return(g)
  <2>1. /\ calls' = [calls EXCEPT ![g].stage = "looked", ![g].pool = None]
        /\ calls[g].stage = "holding"
        /\ UNCHANGED <<shut, poolState, flights, generation, outside>>
    BY <1>2 DEF CM!TryPool
  <2>2. /\ \A h \in Getters \ {g} : calls'[h] = calls[h]
        /\ calls'[g].pool = None /\ calls'[g].service = calls[g].service
        /\ calls'[g].gen = calls[g].gen
    BY <2>1 DEF ManagerInv, PoolsTyped, CM!CallType
  <2> QED  BY <2>1, <2>2, TimesStep, QuietEnds
<1>3. CASE CM!Join(g)
  <2>1. /\ calls[g].stage = "looked"
        /\ UNCHANGED <<shut, poolState, generation, outside>>
    BY <1>3 DEF CM!Join, CM!times
  <2>2. /\ \A h \in Getters \ {g} : calls'[h] = calls[h]
        /\ calls'[g].pool = calls[g].pool /\ calls'[g].service = calls[g].service
        /\ calls'[g].gen = calls[g].gen
    BY <1>3 DEF CM!Join, ManagerInv, PoolsTyped, CM!CallType
  <2>3. \A l \in CM!Keys : flights'[l] = flights[l] \/ flights'[l].stage = "begun"
    BY <1>3 DEF CM!Join, CM!Flight, ManagerInv, PoolsTyped
  <2> QED  BY <2>1, <2>2, <2>3, TimesStep, QuietEnds
<1> QED  BY <1>1, <1>2, <1>3 DEF CM!TryPool, CM!Receive, CM!GiveUp

LEMMA FlyingTimes ==
  ASSUME ManagerInv, TimesFit, EndedIsOpen, NEW k \in CM!Keys,
         CM!Recheck(k) \/ CM!TryPoolInFlight(k) \/ CM!Deliver(k)
  PROVE  TimesFit' /\ EndedIsOpen'
<1>0. flights \in [CM!Keys -> CM!FlightType]
  BY DEF ManagerInv, PoolsTyped
<1>1. CASE CM!Recheck(k)
  <2>1. UNCHANGED <<calls, shut, poolState, generation, outside>>
    BY <1>1 DEF CM!Recheck, CM!times
  <2>2. \/ CM!EndFlight(k, None)
        \/ \E st \in {"holding", "holdingLate", "creating"}, p \in Pools \cup {None} :
             flights' = [flights EXCEPT ![k].stage = st, ![k].pool = p]
        \/ flights' = [flights EXCEPT ![k].stage = "creating"]
    BY <1>1 DEF CM!Recheck, ManagerInv, PoolsTyped, FlightsFit
  <2> QED  BY <1>0, <2>1, <2>2, FlightTimes DEF CM!FlightType
<1>2. CASE CM!TryPoolInFlight(k)
  <2>1. UNCHANGED <<calls, shut, poolState, generation, outside>>
    BY <1>2 DEF CM!TryPoolInFlight, CM!times
  <2>2. \/ CM!EndFlight(k, None)
        \/ CM!EndFlight(k, flights[k].pool) /\ poolState[flights[k].pool] = "usable"
        \/ flights' = [flights EXCEPT ![k].stage = "creating", ![k].pool = None]
    BY <1>2 DEF CM!TryPoolInFlight
  <2>3. flights[k].pool \in Pools \cup {None}
    BY <1>0 DEF CM!FlightType
  <2> QED  BY <1>0, <2>1, <2>2, <2>3, FlightTimes DEF CM!FlightType
<1>3. CASE CM!Deliver(k)
  <2>1. /\ UNCHANGED <<shut, poolState, generation, outside>> /\ flights[k].stage = "ended"
    BY <1>3 DEF CM!Deliver, CM!times
  <2>2. \A l \in CM!Keys : flights'[l] = flights[l] \/ flights'[l].stage = "none"
    BY <1>3 DEF CM!Deliver, CM!NoFlight, ManagerInv, PoolsTyped
  <2>3. ASSUME NEW g \in Getters, calls'[g].stage # "idle"
        PROVE  /\ calls[g].stage # "idle"
               /\ calls'[g].service = calls[g].service /\ calls'[g].gen = calls[g].gen
               /\ \/ calls'[g].pool = calls[g].pool
                  \/ k = CM!PoolKey(calls[g].service, calls[g].gen) /\ calls'[g].pool = flights[k].pool
    BY <1>3, <2>3 DEF CM!Deliver, ManagerInv, PoolsTyped, CM!CallType
  <2> QED  BY <2>1, <2>2, <2>3, TimesStep, QuietEnds
<1> QED  BY <1>1, <1>2, <1>3

(* Pool objects that are used again.                                       *)
LEMMA RenewEnds ==
  ASSUME ManagerInv, EndedIsOpen, NEW p \in Pools, CM!Free(p),
         poolState' = [poolState EXCEPT ![p] = "usable"], UNCHANGED <<generation, outside>>,
         \A k \in CM!Keys : flights'[k] = flights[k] \/ flights'[k].stage = "created"
  PROVE  EndedIsOpen'
<1>1. \A q \in Pools : poolState'[q] = IF q = p THEN "usable" ELSE poolState[q]
  BY DEF ManagerInv, PoolsTyped
<1>2. p \notin outside /\ \A q : q # p => poolState'[q] = poolState[q]
  BY DEF EndedIsOpen, CM!Free
<1> QED  BY <1>1, <1>2 DEF EndedIsOpen

LEMMA CreationTimes ==
  ASSUME ManagerInv, TimesFit, EndedIsOpen,
         \/ \E k \in CM!Keys : CM!Create(k)
         \/ \E x \in Connectors : CM!ConnectCreate(x)
  PROVE  TimesFit' /\ EndedIsOpen'
<1>1. ASSUME NEW k \in CM!Keys, CM!Create(k) PROVE TimesFit' /\ EndedIsOpen'
  <2>1. CASE CM!EndFlight(k, None) /\ UNCHANGED <<poolState, doomed, shut>>
    BY <1>1, <2>1, FlightTimes DEF CM!Create
  <2>2. ASSUME NEW p \in Pools, CM!Free(p), poolState' = [poolState EXCEPT ![p] = "usable"],
               flights' = [flights EXCEPT ![k].stage = "created", ![k].pool = p], CM!Renew(p)
        PROVE  TimesFit' /\ EndedIsOpen'
    <3>1. \A l \in CM!Keys : flights'[l] = flights[l] \/ flights'[l].stage = "created"
      BY <2>2 DEF ManagerInv, PoolsTyped, CM!FlightType
    <3> QED  BY <1>1, <2>2, <3>1, RenewTimes, RenewEnds DEF CM!Create
  <2> QED  BY <1>1, <2>1, <2>2 DEF CM!Create
<1>2. ASSUME NEW x \in Connectors, CM!ConnectCreate(x) PROVE TimesFit' /\ EndedIsOpen'
  <2>1. UNCHANGED <<generation, flights, calls, outside>>
    BY <1>2 DEF CM!ConnectCreate
  <2>2. CASE UNCHANGED <<poolState, doomed, shut>>
    BY <2>1, <2>2, TimesStep, QuietEnds
  <2>3. CASE \E p \in Pools : CM!Free(p) /\ CM!Renew(p) /\ poolState' = [poolState EXCEPT ![p] = "usable"]
    BY <2>1, <2>3, RenewTimes, RenewEnds
  <2> QED  BY <1>2, <2>2, <2>3 DEF CM!ConnectCreate
<1> QED  BY <1>1, <1>2

(* Pools that are closed, or not installed.                                *)
LEMMA ClosingTimes ==
  ASSUME ManagerInv, TimesFit, EndedIsOpen,
         \/ \E p \in Pools : CM!CloseFromOutside(p)
         \/ \E x \in Connectors : CM!ConnectInstall(x)
         \/ CM!CloseAll \/ \E s \in Services : CM!CloseClient(s)
  PROVE  TimesFit' /\ EndedIsOpen'
<1>1. UNCHANGED <<flights, calls, shut>>
  BY DEF CM!CloseFromOutside, CM!ConnectInstall, CM!CloseAll, CM!CloseClient
<1>2. \A p \in Pools : poolState'[p] = "usable" => poolState[p] = "usable"
  BY DEF CM!CloseFromOutside, CM!ConnectInstall, CM!CloseAll, CM!CloseClient, CM!Dropped,
     ManagerInv, PoolsTyped
<1>3. TimesFit'
  BY <1>1, <1>2, TimesStep
<1>4. ASSUME NEW p \in Pools, CM!CloseFromOutside(p) PROVE EndedIsOpen'
  <2>1. /\ \A q : q # p => poolState'[q] = poolState[q]
        /\ poolState'[p] = "unusable" /\ outside' = outside \cup {p} /\ generation' = generation
    BY <1>4 DEF CM!CloseFromOutside, ManagerInv, PoolsTyped
  <2> QED  BY <1>1, <2>1 DEF EndedIsOpen
<1>5. ASSUME NEW x \in Connectors, CM!ConnectInstall(x) PROVE EndedIsOpen'
  <2>1. /\ generation' = generation /\ outside' = {p \in outside : poolState'[p] # "unused"}
        /\ connects[x].pool \in CM!Pending
    BY <1>5, Pendings DEF CM!ConnectInstall, CM!ForgetDropped
  <2>2. \A q \in Pools : q # connects[x].pool => poolState'[q] = poolState[q]
    BY <1>5 DEF CM!ConnectInstall, CM!Dropped
  <2> SUFFICES ASSUME NEW k \in CM!Keys, flights[k].stage = "ended", flights[k].pool # None,
                      flights[k].gen = generation
               PROVE  poolState'[flights[k].pool] = "usable" \/ flights[k].pool \in outside'
    BY <1>1, <2>1 DEF EndedIsOpen
  <2>3. flights[k].pool # connects[x].pool /\ flights[k].pool \in Pools
    BY <2>1, CreatedIsNew DEF ManagerInv, PoolsTyped, CM!FlightType
  <2> QED  BY <2>1, <2>2, <2>3 DEF EndedIsOpen
<1>6. ASSUME CM!CloseAll \/ \E s \in Services : CM!CloseClient(s) PROVE EndedIsOpen'
  <2>1. generation' = generation + 1 /\ outside' = {p \in outside : poolState'[p] # "unused"}
    BY <1>6 DEF CM!CloseAll, CM!CloseClient
  <2>2. \A k \in CM!Keys : flights[k].stage # "none" => flights[k].gen # generation'
    BY <2>1, ManagerConstants DEF ManagerInv, FlightsFit, PoolsTyped, CM!FlightType, CM!Generations
  <2> QED  BY <1>1, <2>1, <2>2 DEF EndedIsOpen
<1> QED  BY <1>3, <1>4, <1>5, <1>6

LEMMA TimesKept ==
  ManagerInv /\ TimesFit /\ EndedIsOpen /\ [CM!Next]_CM!vars => TimesFit' /\ EndedIsOpen'
<1> SUFFICES ASSUME ManagerInv, TimesFit, EndedIsOpen, [CM!Next]_CM!vars
             PROVE  TimesFit' /\ EndedIsOpen'
  OBVIOUS
<1>1. CASE UNCHANGED <<shut, calls, flights, poolState, generation, outside>>
  BY <1>1, TimesStep, QuietEnds
<1>2. CASE \E g \in Getters, s \in Services : CM!Look(g, s)
  <2>1. UNCHANGED <<flights, poolState, generation, outside>>
    BY <1>2 DEF CM!Look
  <2> QED  BY <1>2, <2>1, LookTimes, QuietEnds
<1>3. CASE CM!Next /\ ~UNCHANGED <<shut, calls, flights, poolState, generation, outside>>
            /\ ~\E g \in Getters, s \in Services : CM!Look(g, s)
  <2>1. ~\E s \in Services : CM!RegisterService(s)
    BY <1>3 DEF CM!RegisterService, CM!times
  <2>2. ~\E x \in Connectors : CM!BeginConnectAll(x) \/ CM!EndConnectAll(x)
    BY <1>3 DEF CM!BeginConnectAll, CM!EndConnectAll, CM!times
  <2> QED  BY <1>3, <2>1, <2>2, CallerTimes, FlyingTimes, CreationTimes, InstallTimes, ClosingTimes
           DEF CM!Next
<1> QED  BY <1>1, <1>2, <1>3 DEF CM!vars, CM!times

(* The client that GetClient returns is not one the manager had shut when  *)
(* the call began, however late the flight's result reaches the caller and *)
(* whatever CloseClient, CloseAll and other callers do meanwhile, for any  *)
(* sets of services, callers and pools; and it is of the service asked for.*)
THEOREM ClientsReturnedAreOfTheirCalls == CM!Spec => []ReturnedClientIsOfItsCall
<1>1. CM!Init => TimesFit /\ EndedIsOpen
  BY DEF CM!Init, CM!Idle, CM!NoFlight, TimesFit, EndedIsOpen
<1>2. ManagerInv /\ TimesFit => ReturnedClientIsOfItsCall
  <2> SUFFICES ASSUME ManagerInv, TimesFit, NEW g \in Getters,
                      calls[g].stage \in {"holding", "answered"}
               PROVE  /\ calls[g].pool \notin shut[g]
                      /\ calls[g].pool # None /\ poolState[calls[g].pool] # "unused" =>
                           clientPools[calls[g].service] = calls[g].pool
    BY DEF ReturnedClientIsOfItsCall, CM!ReturnedClientIsOfItsCall
  <2> QED  BY DEF TimesFit, ManagerInv, FoundIsInstalled
<1> QED  BY <1>1, <1>2, ManagerAlways, TimesKept, PTL DEF CM!Spec

-----------------------------------------------------------------------------
(* The stand-alone client.  The counter of the shared entry is exact       *)
(* because an object holds a reference exactly after the stages that take  *)
(* one (EntryFits), so that no reference is taken over one it has or given *)
(* back twice, and because the entry never names an object whose discovery *)
(* is still to be registered.  A failed Close happens at most once: the    *)
(* reference it leaves keeps the counter above one from then on.           *)

Stages == {"new", "failed", "credentials", "register", "lend", "undo", "made",
           "disconnected", "unlent", "closed"}
EntryType == [sd : Objects \cup {None}, key : {ConfigOf[o] : o \in Objects} \cup {None}, refs : Nat]
ClientTypeOK ==
  /\ entry \in EntryType
  /\ stranded \in BOOLEAN
  /\ discoveries \subseteq Objects
  /\ stage \in [Objects -> Stages]
  /\ own \in [Objects -> Objects \cup {None}]
  /\ lent \in [Objects -> Objects \cup {None}]
  /\ conn \in [Objects -> GC!ConnIds \cup {None}]
  /\ open \subseteq GC!ConnIds
  /\ dialled \in 0..MaxConns
  /\ call \in [Callers -> [at : {"idle", "dialling"}, obj : Objects \cup {None},
                           conn : GC!ConnIds \cup {None}]]
  /\ \A p \in Callers : call[p].at = "dialling" => call[p].obj \in Objects
  /\ overtaken \subseteq Objects

(* The entry has a discovery exactly when it has references, not one that  *)
(* is still to be registered; which stages may hold what; and whoever      *)
(* holds a reference keeps the entry at its own configuration, so that the *)
(* registration for its Client is never refused.                           *)
EntryFits ==
  /\ entry.refs # 0 => entry.sd \in Objects /\ stage[entry.sd] \notin {"new", "register"}
  /\ entry.refs = 0 => entry.sd = None
  /\ \A o \in Objects :
       /\ stage[o] \in {"new", "register"} => own[o] = None
       /\ stage[o] \in {"new", "register", "lend"} => lent[o] = None
       /\ stage[o] = "lend" => own[o] # None
       /\ own[o] # None => entry.key = ConfigOf[o]

ClientInv == ClientTypeOK /\ EntryFits /\ GC!ReferencesBalanced /\ GC!ConnectionsAreOwned

(* The objects that hold a reference of this kind.                         *)
Borrowers(f) == {o \in Objects : f[o] # None}

LEMMA BorrowersFinite ==
  ASSUME NEW f
  PROVE  IsFiniteSet(Borrowers(f)) /\ Cardinality(Borrowers(f)) \in Nat
<1>1. Borrowers(f) \in SUBSET Objects
  BY DEF Borrowers
<1>2. IsFiniteSet(Objects)
  BY ClientFits DEF GC!ClientAssumption, GC!IsFiniteSet, IsFiniteSet
<1>3. IsFiniteSet(Borrowers(f))
  BY <1>1, <1>2, FS_Subset
<1> QED  BY <1>3, FS_CardinalityType

LEMMA Borrowing ==
  ASSUME NEW f \in [Objects -> Objects \cup {None}], NEW o \in Objects, NEW d \in Objects, f[o] = None
  PROVE  Cardinality(Borrowers([f EXCEPT ![o] = d])) = Cardinality(Borrowers(f)) + 1
<1>1. Borrowers([f EXCEPT ![o] = d]) = Borrowers(f) \cup {o} /\ o \notin Borrowers(f)
  BY ClientFits DEF Borrowers, GC!ClientAssumption
<1> QED  BY <1>1, BorrowersFinite, FS_AddElement

LEMMA Returning ==
  ASSUME NEW f \in [Objects -> Objects \cup {None}], NEW o \in Objects
  PROVE  Cardinality(Borrowers([f EXCEPT ![o] = None])) =
           IF f[o] = None THEN Cardinality(Borrowers(f)) ELSE Cardinality(Borrowers(f)) - 1
<1>1. Borrowers([f EXCEPT ![o] = None]) = Borrowers(f) \ {o} /\ (o \in Borrowers(f) <=> f[o] # None)
  BY DEF Borrowers
<1> QED  BY <1>1, BorrowersFinite, FS_RemoveElement

LEMMA BorrowedSplits ==
  /\ GC!Borrowed = Cardinality(Borrowers(own)) + Cardinality(Borrowers(lent))
  /\ GC!Borrowed' = Cardinality(Borrowers(own')) + Cardinality(Borrowers(lent'))
<1>1. /\ Borrowers(own) = {o \in Objects : own[o] # None}
      /\ Borrowers(lent) = {o \in Objects : lent[o] # None}
      /\ Borrowers(own') = {o \in Objects : own'[o] # None}
      /\ Borrowers(lent') = {o \in Objects : lent'[o] # None}
  BY DEF Borrowers
<1>2. \A S : GC!Cardinality(S) = Cardinality(S)
  BY DEF GC!Cardinality, Cardinality
<1> QED  BY <1>1, <1>2 DEF GC!Borrowed

LEMMA InitClient == GC!Init => ClientInv
<1> SUFFICES ASSUME GC!Init PROVE ClientInv
  OBVIOUS
<1> USE ClientFits DEF GC!ClientAssumption, GC!Init, GC!Idle
<1>1. ClientTypeOK
  <2>1. entry \in EntryType
    BY DEF EntryType
  <2>2. stage \in [Objects -> Stages] /\ stranded \in BOOLEAN
    BY DEF Stages
  <2>3. call \in [Callers -> [at : {"idle", "dialling"}, obj : Objects \cup {None},
                             conn : GC!ConnIds \cup {None}]]
    OBVIOUS
  <2> QED  BY <2>1, <2>2, <2>3 DEF ClientTypeOK
<1>2. EntryFits
  BY DEF EntryFits
<1>3. Borrowers(own) = {} /\ Borrowers(lent) = {}
  BY DEF Borrowers
<1>4. GC!ReferencesBalanced
  BY <1>3, BorrowedSplits, FS_EmptySet DEF GC!ReferencesBalanced
<1>5. GC!ConnectionsAreOwned
  BY DEF GC!ConnectionsAreOwned
<1> QED  BY <1>1, <1>2, <1>4, <1>5 DEF ClientInv

(* Steps that leave the references alone, and steps that leave the         *)
(* connections alone.                                                      *)
LEMMA DialStep ==
  ASSUME ClientInv, ClientTypeOK', GC!ConnectionsAreOwned', UNCHANGED <<entry, discoveries, own, lent, stranded>>,
         \A o \in Objects : stage'[o] = stage[o]
                            \/ {stage[o], stage'[o]} \cap {"new", "register", "lend"} = {}
  PROVE  ClientInv'
<1> USE DEF ClientInv
<1>1. EntryFits'
  BY DEF EntryFits
<1>2. GC!Borrowed' = GC!Borrowed
  BY DEF GC!Borrowed
<1>3. GC!ReferencesBalanced'
  BY <1>2 DEF GC!ReferencesBalanced
<1> QED  BY <1>1, <1>3

LEMMA RefStep ==
  ASSUME ClientInv, UNCHANGED <<conn, open, dialled, call, overtaken>>,
         NEW o \in Objects, NEW s \in Stages, stage' = [stage EXCEPT ![o] = s],
         s \in {"disconnected", "unlent", "closed"} =>
            stage[o] \in {"disconnected", "unlent", "closed"}
  PROVE  GC!ConnectionsAreOwned' /\ stage' \in [Objects -> Stages]
BY DEF ClientInv, ClientTypeOK, GC!ConnectionsAreOwned

LEMMA NormalizeInv == ASSUME ClientInv, NEW o \in Objects, GC!Normalize(o) PROVE ClientInv'
<1> USE DEF GC!Normalize, GC!Goto, ClientInv, GC!dials
<1>0. PICK s \in {"failed", "credentials", "register"} : stage' = [stage EXCEPT ![o] = s]
  OBVIOUS
<1>1. GC!ConnectionsAreOwned' /\ stage' \in [Objects -> Stages]
  BY <1>0, RefStep DEF Stages
<1>2. ClientTypeOK'
  BY <1>1 DEF ClientTypeOK
<1>3. EntryFits'
  BY <1>0 DEF EntryFits, ClientTypeOK
<1>4. GC!Borrowed' = GC!Borrowed
  BY DEF GC!Borrowed
<1>5. discoveries' = discoveries \cup {p \in {o} : stage'[o] = "register"}
  BY DEF ClientTypeOK
<1>6. {p \in Objects : stage'[p] = "register"} =
         {p \in Objects : stage[p] = "register"} \cup {p \in {o} : stage'[o] = "register"}
  BY <1>0 DEF ClientTypeOK
<1>7. GC!ReferencesBalanced'
  BY <1>4, <1>5, <1>6 DEF GC!ReferencesBalanced
<1> QED  BY <1>1, <1>2, <1>3, <1>7

(* A discovery that the entry refuses is closed.                           *)
LEMMA RefusedInv ==
  ASSUME ClientInv, NEW o \in Objects, stage[o] = "register", stage' = [stage EXCEPT ![o] = "failed"],
         discoveries' = discoveries \ {o},
         UNCHANGED <<entry, own, lent, stranded, conn, open, dialled, call, overtaken>>
  PROVE  ClientInv'
<1> USE DEF ClientInv
<1>1. GC!ConnectionsAreOwned' /\ stage' \in [Objects -> Stages]
  BY RefStep DEF Stages
<1>2. ClientTypeOK'
  BY <1>1 DEF ClientTypeOK
<1>3. EntryFits'
  BY DEF EntryFits, ClientTypeOK
<1>4. GC!Borrowed' = GC!Borrowed
  BY DEF GC!Borrowed
<1>5. {p \in Objects : stage'[p] = "register"} = {p \in Objects : stage[p] = "register"} \ {o}
  BY DEF ClientTypeOK
<1>6. entry.refs # 0 => entry.sd # o
  BY DEF EntryFits
<1>7. GC!ReferencesBalanced'
  BY <1>4, <1>5, <1>6 DEF GC!ReferencesBalanced
<1> QED  BY <1>1, <1>2, <1>3, <1>7

(* Nobody has a reference to an entry without any.                         *)
LEMMA UnusedEntry == ASSUME ClientInv, entry.refs = 0 PROVE ~stranded /\ \A o \in Objects : own[o] = None
<1>1. Cardinality(Borrowers(own)) + Cardinality(Borrowers(lent)) = 0 /\ ~stranded
  BY BorrowedSplits, BorrowersFinite DEF ClientInv, GC!ReferencesBalanced
<1>2. Cardinality(Borrowers(own)) = 0
  BY <1>1, BorrowersFinite
<1>3. Borrowers(own) = {}
  BY <1>2, BorrowersFinite, FS_EmptySet
<1> QED  BY <1>1, <1>3 DEF Borrowers

LEMMA RegisterOwnInv == ASSUME ClientInv, NEW o \in Objects, GC!RegisterOwn(o) PROVE ClientInv'
<1> USE DEF ClientInv
<1> DEFINE d == GC!Shared(o)
<1>a. CASE GC!Refused(o) /\ UNCHANGED <<entry, own>>
  BY <1>a, RefusedInv DEF GC!RegisterOwn, GC!Goto, GC!dials
<1>b. CASE ~(GC!Refused(o) /\ UNCHANGED <<entry, own>>)
  <2>0. /\ stage[o] = "register" /\ entry' = [sd |-> d, key |-> ConfigOf[o], refs |-> entry.refs + 1]
        /\ own' = [own EXCEPT ![o] = d] /\ stage' = [stage EXCEPT ![o] = "lend"]
        /\ discoveries' = IF d = o THEN discoveries ELSE discoveries \ {o}
        /\ ~GC!Refused(o)
        /\ UNCHANGED <<lent, stranded, conn, open, dialled, call, overtaken>>
    BY <1>b DEF GC!RegisterOwn, GC!Goto, GC!dials
  <2>1. /\ d \in Objects /\ own[o] = None /\ lent[o] = None
        /\ entry.refs = 0 => d = o
        /\ entry.refs # 0 => d = entry.sd /\ d # o /\ stage[d] \notin {"new", "register"}
    BY <2>0 DEF EntryFits, GC!Shared
  <2> HIDE DEF d
  <2>2. /\ entry.refs \in Nat /\ entry'.refs = entry.refs + 1 /\ entry'.sd = d /\ d # None
        /\ entry'.key = ConfigOf[o] /\ entry' \in EntryType
    BY <2>0, <2>1, ClientFits DEF ClientTypeOK, EntryType, GC!ClientAssumption
  <2>3. GC!ConnectionsAreOwned' /\ stage' \in [Objects -> Stages]
    BY <2>0, RefStep DEF Stages
  <2>4. ClientTypeOK'
    BY <2>0, <2>1, <2>2, <2>3 DEF ClientTypeOK
  <2>9. \A p \in Objects : own'[p] # None => entry'.key = ConfigOf[p]
    <3>1. entry.refs # 0 => entry.key = ConfigOf[o]
      BY <2>0, <2>2 DEF GC!Refused
    <3>2. \A p \in Objects \ {o} : own'[p] = own[p]
      BY <2>0 DEF ClientTypeOK
    <3>3. CASE entry.refs # 0
      BY <2>2, <3>1, <3>2, <3>3 DEF EntryFits
    <3>4. CASE entry.refs = 0
      BY <2>2, <3>2, <3>4, UnusedEntry
    <3> QED  BY <3>3, <3>4
  <2>5. EntryFits'
    <3>1. entry'.refs # 0 /\ entry'.sd \in Objects /\ stage'[entry'.sd] \notin {"new", "register"}
      BY <2>0, <2>1, <2>2 DEF ClientTypeOK
    <3>2. \A p \in Objects : /\ stage'[p] \in {"new", "register"} => own'[p] = None
                             /\ stage'[p] \in {"new", "register", "lend"} => lent'[p] = None
                             /\ stage'[p] = "lend" => own'[p] # None
      BY <2>0, <2>1, <2>2 DEF EntryFits, ClientTypeOK
    <3> QED  BY <2>9, <3>1, <3>2 DEF EntryFits
  <2>6. GC!Borrowed' = GC!Borrowed + 1
    <3>1. Cardinality(Borrowers(own')) = Cardinality(Borrowers(own)) + 1
      BY <2>0, <2>1, Borrowing DEF ClientTypeOK
    <3>2. GC!Borrowed' = Cardinality(Borrowers(own')) + Cardinality(Borrowers(lent'))
      BY BorrowedSplits
    <3> QED  BY <2>0, <3>1, <3>2, BorrowedSplits, BorrowersFinite
  <2>7. {p \in Objects : stage'[p] = "register"} = {p \in Objects : stage[p] = "register"} \ {o}
    BY <2>0 DEF ClientTypeOK
  <2>8. GC!ReferencesBalanced'
    <3>1. entry'.refs = GC!Borrowed' + (IF stranded' THEN 1 ELSE 0) /\ entry'.refs # 0
      BY <2>0, <2>2, <2>6, BorrowedSplits, BorrowersFinite DEF GC!ReferencesBalanced
    <3>2. discoveries' = (IF stranded THEN {} ELSE {d}) \cup {p \in Objects : stage'[p] = "register"}
      <4>1. o \in discoveries
        BY <2>0 DEF GC!ReferencesBalanced
      <4>2. CASE entry.refs = 0
        BY <2>0, <2>1, <2>7, <4>1, <4>2, UnusedEntry DEF GC!ReferencesBalanced
      <4>3. CASE entry.refs # 0
        BY <2>0, <2>1, <2>7, <4>1, <4>3 DEF GC!ReferencesBalanced
      <4> QED  BY <4>2, <4>3
    <3> QED  BY <2>0, <2>2, <3>1, <3>2 DEF GC!ReferencesBalanced
  <2> QED  BY <2>3, <2>4, <2>5, <2>8
<1> QED  BY <1>a, <1>b

LEMMA RegisterLentInv == ASSUME ClientInv, NEW o \in Objects, GC!RegisterLent(o) PROVE ClientInv'
<1> USE DEF ClientInv
<1>0. /\ stage[o] = "lend" /\ entry' = [entry EXCEPT !.refs = @ + 1]
      /\ lent' = [lent EXCEPT ![o] = entry.sd] /\ stage' = [stage EXCEPT ![o] = "credentials"]
      /\ UNCHANGED <<discoveries, own, stranded, conn, open, dialled, call, overtaken>>
  BY DEF GC!RegisterLent, GC!Goto, GC!dials
<1>1. o \in Borrowers(own) /\ lent[o] = None
  BY <1>0 DEF EntryFits, Borrowers
<1>2. entry.refs \in Nat /\ entry.refs # 0 /\ entry.sd \in Objects
  <2>1. Cardinality(Borrowers(own)) # 0
    BY <1>1, BorrowersFinite, FS_EmptySet
  <2>2. GC!Borrowed # 0 /\ GC!Borrowed \in Nat
    BY <2>1, BorrowedSplits, BorrowersFinite
  <2>3. entry.refs # 0
    BY <2>2 DEF GC!ReferencesBalanced
  <2> QED  BY <2>3 DEF EntryFits, ClientTypeOK, EntryType
<1>3. /\ entry'.refs = entry.refs + 1 /\ entry'.sd = entry.sd /\ entry'.key = entry.key
      /\ entry' \in EntryType
  BY <1>0, <1>2 DEF ClientTypeOK, EntryType
<1>4. GC!ConnectionsAreOwned' /\ stage' \in [Objects -> Stages]
  BY <1>0, RefStep DEF Stages
<1>5. ClientTypeOK'
  BY <1>0, <1>2, <1>3, <1>4 DEF ClientTypeOK
<1>6. EntryFits'
  BY <1>0, <1>1, <1>2, <1>3 DEF EntryFits, ClientTypeOK
<1>7. GC!Borrowed' = GC!Borrowed + 1
  <2>1. Cardinality(Borrowers(lent')) = Cardinality(Borrowers(lent)) + 1
    BY <1>0, <1>1, <1>2, Borrowing DEF ClientTypeOK
  <2>2. GC!Borrowed' = Cardinality(Borrowers(own')) + Cardinality(Borrowers(lent'))
    BY BorrowedSplits
  <2> QED  BY <1>0, <2>1, <2>2, BorrowedSplits, BorrowersFinite
<1>8. {p \in Objects : stage'[p] = "register"} = {p \in Objects : stage[p] = "register"}
  BY <1>0 DEF ClientTypeOK
<1>9. GC!ReferencesBalanced'
  <2>1. GC!Borrowed \in Nat
    BY BorrowedSplits, BorrowersFinite
  <2>2. entry'.refs = GC!Borrowed' + (IF stranded' THEN 1 ELSE 0)
    BY <1>0, <1>3, <1>7, <2>1 DEF GC!ReferencesBalanced
  <2>3. entry'.refs # 0
    BY <1>2, <1>3
  <2> QED  BY <1>0, <1>2, <1>3, <1>8, <2>2, <2>3 DEF GC!ReferencesBalanced
<1> QED  BY <1>4, <1>5, <1>6, <1>9

(* A reference given back, or none held.                                   *)
LEMMA ReleaseStep ==
  ASSUME ClientInv, NEW o \in Objects, NEW ref, GC!ReleaseRef(ref),
         NEW s \in {"undo", "failed", "unlent", "closed"}, stage' = [stage EXCEPT ![o] = s],
         stage[o] \in {"credentials", "undo", "disconnected", "unlent"},
         s \in {"unlent", "closed"} => stage[o] \in {"disconnected", "unlent"},
         own' \in [Objects -> Objects \cup {None}], lent' \in [Objects -> Objects \cup {None}],
         own'[o] \in {own[o], None}, lent'[o] \in {lent[o], None},
         \A p \in Objects \ {o} : own'[p] = own[p] /\ lent'[p] = lent[p],
         GC!Borrowed' = IF ref = None THEN GC!Borrowed ELSE GC!Borrowed - 1,
         UNCHANGED <<conn, open, dialled, call, overtaken>>
  PROVE  ClientInv'
<1> USE DEF ClientInv
<1>1. GC!ConnectionsAreOwned' /\ stage' \in [Objects -> Stages]
  BY RefStep DEF Stages
<1>2. {p \in Objects : stage'[p] = "register"} = {p \in Objects : stage[p] = "register"}
  BY DEF ClientTypeOK
<1>3. CASE ref = None
  <2>1. UNCHANGED <<entry, discoveries, stranded>>
    BY <1>3 DEF GC!ReleaseRef
  <2>2. ClientTypeOK' /\ EntryFits'
    BY <1>1, <2>1 DEF ClientTypeOK, EntryFits
  <2> QED  BY <1>1, <1>2, <1>3, <2>1, <2>2 DEF GC!ReferencesBalanced
<1>4. CASE ref # None /\ entry.refs = 1
  <2>1. GC!Borrowed = 1 /\ GC!Borrowed' = 0 /\ ~stranded
    <3>1. GC!Borrowed' \in Nat /\ GC!Borrowed \in Nat
      BY BorrowedSplits, BorrowersFinite
    <3>2. GC!Borrowed' = GC!Borrowed - 1 /\ entry.refs = GC!Borrowed + (IF stranded THEN 1 ELSE 0)
      BY <1>4 DEF GC!ReferencesBalanced
    <3> QED  BY <1>4, <3>1, <3>2
  <2>2. entry.sd \in Objects /\ stage[entry.sd] # "register"
    BY <1>4 DEF EntryFits
  <2>3. discoveries' = {p \in Objects : stage'[p] = "register"}
    BY <1>2, <1>4, <2>1, <2>2 DEF GC!ReleaseRef, GC!ReferencesBalanced
  <2>4. CASE entry' = [entry EXCEPT !.sd = None, !.refs = 0] /\ UNCHANGED stranded
    <3>1. entry'.sd = None /\ entry'.refs = 0 /\ entry'.key = entry.key /\ entry' \in EntryType
      BY <2>4 DEF ClientTypeOK, EntryType
    <3>2. ClientTypeOK' /\ EntryFits'
      BY <1>1, <2>3, <2>4, <3>1 DEF ClientTypeOK, EntryFits
    <3> QED  BY <1>1, <2>1, <2>3, <2>4, <3>1, <3>2 DEF GC!ReferencesBalanced
  <2>5. CASE stranded' = TRUE /\ UNCHANGED entry
    <3>1. ClientTypeOK' /\ EntryFits'
      BY <1>1, <2>3, <2>5 DEF ClientTypeOK, EntryFits
    <3> QED  BY <1>1, <1>4, <2>1, <2>3, <2>5, <3>1 DEF GC!ReferencesBalanced
  <2>6. ref # None /\ ~(entry.refs > 1)
    BY <1>4
  <2> QED  BY <2>4, <2>5, <2>6 DEF GC!ReleaseRef
<1>5. CASE ref # None /\ entry.refs # 1
  <2>1. entry' = [entry EXCEPT !.refs = @ - 1] /\ UNCHANGED <<discoveries, stranded>> /\ entry.refs > 1
    BY <1>5 DEF GC!ReleaseRef
  <2>3. entry.refs \in Nat /\ entry.refs > 1
    BY <1>5, <2>1 DEF ClientTypeOK, EntryType
  <2>4. /\ entry'.refs = entry.refs - 1 /\ entry'.sd = entry.sd /\ entry'.key = entry.key
        /\ entry' \in EntryType
    BY <2>1, <2>3 DEF ClientTypeOK, EntryType
  <2>5. ClientTypeOK' /\ EntryFits'
    BY <1>1, <2>1, <2>3, <2>4 DEF ClientTypeOK, EntryFits
  <2>6. GC!ReferencesBalanced'
    <3>1. GC!Borrowed \in Nat
      BY BorrowedSplits, BorrowersFinite
    <3>2. entry'.refs = GC!Borrowed' + (IF stranded' THEN 1 ELSE 0)
      BY <1>5, <2>1, <2>4, <3>1 DEF GC!ReferencesBalanced
    <3>3. entry.refs # 0 /\ entry'.refs # 0
      BY <2>3, <2>4
    <3> QED  BY <1>2, <2>1, <2>4, <3>2, <3>3 DEF GC!ReferencesBalanced
  <2> QED  BY <1>1, <2>5, <2>6
<1> QED  BY <1>3, <1>4, <1>5

LEMMA ReleaseOwnEffect ==
  ASSUME ClientInv, NEW o \in Objects, own' = [own EXCEPT ![o] = None], lent' = lent
  PROVE  GC!Borrowed' = IF own[o] = None THEN GC!Borrowed ELSE GC!Borrowed - 1
<1>1. Cardinality(Borrowers(own')) = IF own[o] = None THEN Cardinality(Borrowers(own))
                                                    ELSE Cardinality(Borrowers(own)) - 1
  BY Returning DEF ClientInv, ClientTypeOK
<1>2. GC!Borrowed' = Cardinality(Borrowers(own')) + Cardinality(Borrowers(lent'))
  BY BorrowedSplits
<1> QED  BY <1>1, <1>2, BorrowedSplits, BorrowersFinite

LEMMA ReleaseLentEffect ==
  ASSUME ClientInv, NEW o \in Objects, lent' = [lent EXCEPT ![o] = None], own' = own
  PROVE  GC!Borrowed' = IF lent[o] = None THEN GC!Borrowed ELSE GC!Borrowed - 1
<1>1. Cardinality(Borrowers(lent')) = IF lent[o] = None THEN Cardinality(Borrowers(lent))
                                                      ELSE Cardinality(Borrowers(lent)) - 1
  BY Returning DEF ClientInv, ClientTypeOK
<1>2. GC!Borrowed' = Cardinality(Borrowers(own')) + Cardinality(Borrowers(lent'))
  BY BorrowedSplits
<1> QED  BY <1>1, <1>2, BorrowedSplits, BorrowersFinite

LEMMA ReleasesInv ==
  ASSUME ClientInv, NEW o \in Objects,
         GC!BadCredentials(o) \/ GC!Undo(o) \/ GC!ReleaseLent(o) \/ GC!ReleaseOwn(o)
  PROVE  ClientInv'
<1> USE DEF GC!Goto, GC!dials
<1>0. own \in [Objects -> Objects \cup {None}] /\ lent \in [Objects -> Objects \cup {None}]
  BY DEF ClientInv, ClientTypeOK
<1>1. CASE GC!BadCredentials(o)
  BY <1>0, <1>1, ReleaseStep, ReleaseLentEffect DEF GC!BadCredentials
<1>2. CASE GC!Undo(o)
  BY <1>0, <1>2, ReleaseStep, ReleaseOwnEffect DEF GC!Undo
<1>3. CASE GC!ReleaseLent(o)
  BY <1>0, <1>3, ReleaseStep, ReleaseLentEffect DEF GC!ReleaseLent
<1>4. CASE GC!ReleaseOwn(o)
  BY <1>0, <1>4, ReleaseStep, ReleaseOwnEffect DEF GC!ReleaseOwn
<1> QED  BY <1>1, <1>2, <1>3, <1>4

LEMMA MadeInv == ASSUME ClientInv, NEW o \in Objects, GC!Made(o) PROVE ClientInv'
<1> USE DEF GC!Made, GC!Goto, GC!refs, GC!dials
<1>1. GC!ConnectionsAreOwned' /\ stage' \in [Objects -> Stages]
  BY RefStep DEF Stages
<1>2. ClientTypeOK'
  BY <1>1 DEF ClientInv, ClientTypeOK
<1>3. \A p \in Objects : stage'[p] = stage[p] \/ {stage[p], stage'[p]} \cap {"new", "register", "lend"} = {}
  BY DEF ClientInv, ClientTypeOK
<1> QED  BY <1>1, <1>2, <1>3, DialStep

LEMMA BeginConnectInv ==
  ASSUME ClientInv, NEW p \in Callers, NEW o \in Objects, GC!BeginConnect(p, o) PROVE ClientInv'
<1> USE ClientFits DEF GC!ClientAssumption, GC!BeginConnect, GC!refs
<1> DEFINE c == [at |-> "dialling", obj |-> o, conn |-> dialled + 1]
<1>1. dialled + 1 \in GC!ConnIds /\ dialled + 1 \in 0..MaxConns
  BY DEF ClientInv, ClientTypeOK, GC!ConnIds
<1>2. ClientTypeOK'
  BY <1>1 DEF ClientInv, ClientTypeOK
<1>3. \A q \in Callers : call'[q] = IF q = p THEN c ELSE call[q]
  BY DEF ClientInv, ClientTypeOK
<1>4. call[p].conn = None /\ None \notin open
  BY DEF GC!Idle, ClientInv, ClientTypeOK
<1>5. open' \subseteq {conn'[q] : q \in Objects} \cup {call'[q].conn : q \in Callers}
  BY <1>3, <1>4 DEF ClientInv, GC!ConnectionsAreOwned
<1>6. GC!ConnectionsAreOwned'
  BY <1>5 DEF ClientInv, GC!ConnectionsAreOwned
<1> QED  BY <1>2, <1>6, DialStep

(* The end of a Connect.                                                   *)
LEMMA HangUp ==
  ASSUME ClientInv, NEW p \in Callers, call' = [call EXCEPT ![p] = GC!Idle]
  PROVE  /\ \A q \in Callers : call'[q] = IF q = p THEN GC!Idle ELSE call[q]
         /\ GC!Idle.conn = None /\ GC!Idle.at = "idle" /\ None \notin open
         /\ call' \in [Callers -> [at : {"idle", "dialling"}, obj : Objects \cup {None},
                                   conn : GC!ConnIds \cup {None}]]
BY ClientFits DEF GC!Idle, ClientInv, ClientTypeOK, GC!ClientAssumption

LEMMA GiveUpConnectInv == ASSUME ClientInv, NEW p \in Callers, GC!GiveUp(p) PROVE ClientInv'
<1> USE DEF GC!GiveUp, GC!refs
<1>1. ClientTypeOK'
  BY HangUp DEF ClientInv, ClientTypeOK
<1>2. GC!ConnectionsAreOwned'
  BY HangUp DEF ClientInv, GC!ConnectionsAreOwned
<1> QED  BY <1>1, <1>2, DialStep

LEMMA EndConnectInv == ASSUME ClientInv, NEW p \in Callers, GC!EndConnect(p) PROVE ClientInv'
<1> USE DEF GC!EndConnect, GC!refs
<1> DEFINE o == call[p].obj
<1>0. o \in Objects /\ call[p].conn \in GC!ConnIds \cup {None}
  BY DEF ClientInv, ClientTypeOK
<1>1. \/ conn[o] = None /\ conn' = [conn EXCEPT ![o] = call[p].conn] /\ UNCHANGED open
      \/ open' = open \ {call[p].conn} /\ UNCHANGED conn
  BY DEF GC!Keep
<1>2. ClientTypeOK'
  BY <1>0, <1>1, HangUp DEF ClientInv, ClientTypeOK
<1>3. \A q \in Objects : conn'[q] = conn[q] \/ (q = o /\ conn[q] = None /\ conn'[q] = call[p].conn)
  BY <1>0, <1>1 DEF ClientInv, ClientTypeOK
<1>4. \A q \in Objects \ overtaken' :
         stage'[q] \in {"disconnected", "unlent", "closed"} => conn'[q] = None
  BY <1>3 DEF ClientInv, GC!ConnectionsAreOwned
<1>5. open' \subseteq {conn'[q] : q \in Objects} \cup {call'[q].conn : q \in Callers}
  <2> SUFFICES ASSUME NEW x \in open'
               PROVE  (\E q \in Objects : conn'[q] = x) \/ (\E q \in Callers : call'[q].conn = x)
    OBVIOUS
  <2>1. x \in open /\ x # None /\ (x = call[p].conn => conn'[o] = call[p].conn)
    <3>1. x \in open /\ x # None
      BY <1>1, HangUp
    <3>2. conn \in [Objects -> GC!ConnIds \cup {None}]
      BY DEF ClientInv, ClientTypeOK
    <3>3. x = call[p].conn => conn'[o] = call[p].conn
      BY <1>0, <1>1, <3>2
    <3> QED  BY <3>1, <3>3
  <2>2. (\E q \in Objects : conn[q] = x) \/ (\E q \in Callers : call[q].conn = x)
    BY <2>1 DEF ClientInv, GC!ConnectionsAreOwned
  <2>3. CASE \E q \in Objects : conn[q] = x
    BY <1>3, <2>1, <2>3
  <2>4. CASE \E q \in Callers : call[q].conn = x
    BY <1>0, <2>1, <2>4, HangUp
  <2> QED  BY <2>2, <2>3, <2>4
<1>6. GC!ConnectionsAreOwned'
  BY <1>4, <1>5 DEF GC!ConnectionsAreOwned
<1> QED  BY <1>2, <1>6, DialStep

LEMMA DisconnectInv == ASSUME ClientInv, NEW o \in Objects, GC!Disconnect(o) PROVE ClientInv'
<1> USE DEF GC!Disconnect, GC!refs, GC!Goto
<1>1. ClientTypeOK'
  BY DEF ClientInv, ClientTypeOK, Stages
<1>2. \A q \in Objects : conn'[q] = IF q = o THEN None ELSE conn[q]
  BY DEF ClientInv, ClientTypeOK
<1>3. open' \subseteq {conn'[q] : q \in Objects} \cup {call'[q].conn : q \in Callers}
  BY <1>2 DEF ClientInv, GC!ConnectionsAreOwned
<1>4. GC!ConnectionsAreOwned'
  BY <1>2, <1>3 DEF ClientInv, GC!ConnectionsAreOwned, ClientTypeOK
<1>5. \A p \in Objects : stage'[p] = stage[p] \/ {stage[p], stage'[p]} \cap {"new", "register", "lend"} = {}
  BY DEF ClientInv, ClientTypeOK
<1> QED  BY <1>1, <1>4, <1>5, DialStep

LEMMA ClientStep == ClientInv /\ [GC!Next]_GC!vars => ClientInv'
<1> SUFFICES ASSUME ClientInv, [GC!Next]_GC!vars PROVE ClientInv'
  OBVIOUS
<1>1. CASE UNCHANGED GC!vars
  BY <1>1 DEF ClientInv, ClientTypeOK, EntryFits, GC!ReferencesBalanced, GC!Borrowed,
     GC!ConnectionsAreOwned, GC!vars, GC!refs, GC!dials
<1>2. CASE GC!Next
  BY <1>2, NormalizeInv, RegisterOwnInv, RegisterLentInv, ReleasesInv, MadeInv, BeginConnectInv,
     GiveUpConnectInv, EndConnectInv, DisconnectInv
     DEF GC!Next, GC!NewGrpcClient, GC!Close, GC!Connect
<1> QED  BY <1>1, <1>2

LEMMA ClientAlways == GC!Spec => []ClientInv
BY InitClient, ClientStep, PTL DEF GC!Spec

(* Whatever fails half way or is refused, and in whatever order clients    *)
(* are made and closed, the shared discovery counts the references that    *)
(* are held and is open exactly while there are any: NewGrpcClient gives   *)
(* back what it took before it failed, and Close gives nothing back twice. *)
(* Once the Close of a shared discovery has failed, the entry counts one   *)
(* reference more, for good, and the discovery it names is closed.         *)
THEOREM ReferencesAreCounted == GC!Spec => []ReferencesBalanced
<1>1. ClientInv => ReferencesBalanced
  BY DEF ClientInv, ReferencesBalanced
<1> QED  BY <1>1, ClientAlways, PTL

(* An open connection is stored in a client or in the hands of a Connect,  *)
(* and a closed client stores none unless a Connect begun before the Close *)
(* has overtaken it.                                                       *)
THEOREM NoConnectionIsLost == GC!Spec => []ConnectionsAreOwned
<1>1. ClientInv => ConnectionsAreOwned
  BY DEF ClientInv, ConnectionsAreOwned
<1> QED  BY <1>1, ClientAlways, PTL
=============================================================================
