-------------------------- MODULE EtcdRegistryProofs --------------------------
(***************************************************************************)
(* Proofs about EtcdRegistry, for any addresses, leases and goroutines:    *)
(* what is registered is what is kept alive and watched, and a service     *)
(* that was deregistered does not come back.                               *)
(*                                                                         *)
(* The invariant says what the holder of operationMu may rely on at each   *)
(* stage of its requests (OpFits), and that a goroutine whose context has  *)
(* not been cancelled has that of the current lease (LoopsFit), so that it *)
(* goes on to recover only after the stream of that lease has ended.       *)
(***************************************************************************)
EXTENDS EtcdRegistry, TLAPS

Establishing == {"granting", "putting", "keeping"}

OpFits ==
  /\ op.kind = "none" \/ op.stage = "idle" => op = NoOp
  /\ op.kind \in {"register", "recover"} =>
       /\ registered /\ op.stage \in Establishing \cup {"revoking"}
       /\ op.stage = "revoking" => keeping # None /\ op.lease # keeping
  /\ op.kind = "register" =>
       op.loop = None /\ (op.stage # "revoking" => keeping = None)
  /\ op.kind = "recover" =>
       /\ op.loop \in Loops /\ loops[op.loop].stage = "locking"
       /\ op.stage # "revoking" =>
            keeping # None /\ loops[op.loop].ctx = keeping /\ stream[keeping] = "ended"
  /\ op.kind \in {"deregister", "close"} => ~registered /\ op.stage \in {"revoking", "deleting"}
  /\ op.stage = "deleting" => op.kind = "deregister"
  /\ op.kind = "deregister" => op.addr \in Addresses
  /\ op.stage \in {"putting", "keeping"} => op.lease \in Leases /\ op.lease # leaseID
  /\ op.stage = "keeping" /\ op.lease \in live => keys[address] = op.lease

LoopsFit ==
  \A w \in Loops :
    /\ loops[w].ctx \in Leases => loops[w].ctx = keeping
    /\ loops[w].stage \in {"recovering", "locking"} /\ loops[w].ctx # Done =>
         stream[loops[w].ctx] = "ended"

RegistrationFits ==
  /\ registered => ~closed /\ address \in Addresses /\ gone = None
  /\ ~registered => keeping = None

IInv == /\ TypeOK /\ OpFits /\ LoopsFit /\ RegistrationFits
        /\ RegistrationIsKept /\ NoResurrection

-----------------------------------------------------------------------------
LEMMA InitIInv == Init => IInv
<1> SUFFICES ASSUME Init PROVE IInv
  OBVIOUS
<1> USE EtcdAssumption DEF Init, NoOp, NoLoop
<1>1. TypeOK
  BY DEF TypeOK, OpType, LoopType
<1>2. OpFits /\ LoopsFit
  BY DEF OpFits, LoopsFit
<1>3. RegistrationFits /\ RegistrationIsKept /\ NoResurrection
  BY DEF RegistrationFits, RegistrationIsKept, SomeoneWatches, OnlyCurrentLeaseKept,
         KeptLeaseCarriesKey, NoResurrection
<1> QED  BY <1>1, <1>2, <1>3 DEF IInv

(* What cancelling the current keep-alive does.                            *)
LEMMA CancelledLoops ==
  ASSUME TypeOK, LoopsFit, CancelLoops
  PROVE  /\ loops' \in [Loops -> LoopType]
         /\ \A w \in Loops : /\ loops'[w].stage = loops[w].stage
                             /\ loops'[w].stage = "none" <=> loops'[w].ctx = None
                             /\ loops'[w].ctx \notin Leases
<1> SUFFICES ASSUME NEW w \in Loops
             PROVE  /\ loops'[w] \in LoopType
                    /\ loops'[w].stage = loops[w].stage
                    /\ loops'[w].stage = "none" <=> loops'[w].ctx = None
                    /\ loops'[w].ctx \notin Leases
  BY DEF CancelLoops
<1> USE EtcdAssumption DEF TypeOK, LoopType
<1>1. CASE keeping # None /\ loops[w].ctx = keeping
  BY <1>1 DEF CancelLoops
<1>2. CASE ~(keeping # None /\ loops[w].ctx = keeping)
  BY <1>2 DEF CancelLoops, LoopsFit
<1> QED  BY <1>1, <1>2

LEMMA CancelledStreams ==
  ASSUME TypeOK
  PROVE  /\ Cancelled \in [Leases -> {"none", "open", "ended"}]
         /\ OnlyCurrentLeaseKept => \A l \in Leases : Cancelled[l] # "open"
BY DEF TypeOK, Cancelled, OnlyCurrentLeaseKept

LEMMA RegisterInv == ASSUME IInv, NEW a \in Addresses, Register(a) PROVE IInv'
<1> USE EtcdAssumption DEF IInv, Register, NoOp, Free, stopKeepAliveLocked
<1>0. op' = [kind |-> "register", stage |-> "granting", lease |-> None, addr |-> None, loop |-> None]
  OBVIOUS
<1>1. TypeOK'
  BY <1>0, CancelledLoops, CancelledStreams DEF TypeOK, OpType, etcd
<1>2. OpFits'
  BY <1>0 DEF OpFits, Establishing
<1>3. LoopsFit'
  BY CancelledLoops, CancelledStreams, <1>1 DEF LoopsFit, TypeOK, LoopType
<1>4. RegistrationFits' /\ NoResurrection'
  BY DEF RegistrationFits, NoResurrection
<1>5. RegistrationIsKept'
  BY <1>0, CancelledStreams
  DEF RegistrationIsKept, SomeoneWatches, OnlyCurrentLeaseKept, KeptLeaseCarriesKey
<1> QED  BY <1>1, <1>2, <1>3, <1>4, <1>5

(* Deregister and Close give the registration up.                          *)
LEMMA DeactivateInv ==
  ASSUME IInv, Free, Deactivate, NEW k \in {"deregister", "close"},
         NEW a \in Addresses \cup {None}, k = "deregister" => a \in Addresses,
         op' = [kind |-> k, stage |-> "revoking", lease |-> leaseID, addr |-> a, loop |-> None],
         closed' \in BOOLEAN,
         UNCHANGED <<address, etcd, healthy, gone>>
  PROVE  IInv'
<1> USE EtcdAssumption DEF IInv, NoOp, Free, Deactivate, stopKeepAliveLocked
<1>1. TypeOK'
  BY CancelledLoops, CancelledStreams DEF TypeOK, OpType, etcd
<1>2. OpFits'
  BY DEF OpFits, Establishing
<1>3. LoopsFit'
  BY CancelledLoops, CancelledStreams, <1>1 DEF LoopsFit, TypeOK, LoopType
<1>4. RegistrationFits' /\ NoResurrection'
  BY DEF RegistrationFits, NoResurrection, etcd
<1>5. RegistrationIsKept'
  BY CancelledStreams
  DEF RegistrationIsKept, SomeoneWatches, OnlyCurrentLeaseKept, KeptLeaseCarriesKey
<1> QED  BY <1>1, <1>2, <1>3, <1>4, <1>5

LEMMA DeregisterInv == ASSUME IInv, NEW a \in Addresses, Deregister(a) PROVE IInv'
<1>1. closed' \in BOOLEAN
  BY DEF Deregister, IInv, TypeOK
<1>2. op' = [kind |-> "deregister", stage |-> "revoking", lease |-> leaseID, addr |-> a, loop |-> None]
  BY DEF Deregister, NoOp
<1> QED  BY <1>1, <1>2, DeactivateInv DEF Deregister

LEMMA CloseInv == ASSUME IInv, Close PROVE IInv'
<1>1. op' = [kind |-> "close", stage |-> "revoking", lease |-> leaseID, addr |-> None, loop |-> None]
  BY DEF Close, NoOp
<1> QED  BY <1>1, DeactivateInv DEF Close

(* A step that only changes what etcd has, and no more than that leases    *)
(* and the keys under them go, or keys that are not the current one's.     *)
LEMMA EtcdOnlyInv ==
  ASSUME IInv, UNCHANGED <<registry, loops, stream, gone>>, healthy' \in BOOLEAN,
         op' = op, live' \subseteq live,
         keys' \in [Addresses -> live' \cup {None}],
         \A a \in Addresses : keys'[a] \in {keys[a], None},
         keeping \in live' /\ keys[address] = keeping /\ address \in Addresses => keys'[address] = keeping,
         op.stage = "keeping" /\ op.lease \in live' /\ keys[address] = op.lease =>
            keys'[address] = op.lease
  PROVE  IInv'
<1> USE EtcdAssumption DEF IInv, registry
<1>1. TypeOK'
  BY DEF TypeOK
<1>2. OpFits'
  BY DEF OpFits, Establishing
<1>3. LoopsFit' /\ RegistrationFits'
  BY DEF LoopsFit, RegistrationFits
<1>4. NoResurrection'
  BY DEF NoResurrection, TypeOK
<1>5. RegistrationIsKept'
  BY DEF RegistrationIsKept, SomeoneWatches, OnlyCurrentLeaseKept, KeptLeaseCarriesKey, RegistrationFits, Free, NoOp
<1> QED  BY <1>1, <1>2, <1>3, <1>4, <1>5

LEMMA RevokedKeys ==
  ASSUME IInv, NEW l \in Leases, Revoked(l)
  PROVE  /\ live' \subseteq live /\ keys' \in [Addresses -> live' \cup {None}]
         /\ \A a \in Addresses : keys'[a] \in {keys[a], None}
         /\ \A a \in Addresses : keys[a] # l => keys'[a] = keys[a]
BY DEF IInv, TypeOK, Revoked, Without

LEMMA ExpireInv == ASSUME IInv, NEW l \in Leases, Expire(l) PROVE IInv'
<1>1. address \in Addresses \/ op.stage # "keeping"
  BY DEF IInv, RegistrationFits, OpFits, OpType, TypeOK, NoOp
<1>2. Revoked(l) /\ healthy' \in BOOLEAN /\ op' = op /\ UNCHANGED <<registry, loops, stream, gone>>
  BY DEF Expire, IInv, TypeOK
<1>3. l \notin live'
  BY <1>2 DEF Revoked
<1> QED  BY <1>1, <1>2, <1>3, RevokedKeys, EtcdOnlyInv

LEMMA HealInv == ASSUME IInv, Heal PROVE IInv'
BY EtcdOnlyInv DEF Heal, etcd, registry, IInv, TypeOK

LEMMA StreamEndsInv == ASSUME IInv, NEW l \in Leases, StreamEnds(l) PROVE IInv'
<1> USE EtcdAssumption DEF IInv, StreamEnds, registry, etcd
<1>1. TypeOK'
  BY DEF TypeOK
<1>2. OpFits'
  BY DEF OpFits, Establishing, TypeOK
<1>3. LoopsFit' /\ RegistrationFits' /\ NoResurrection'
  BY DEF LoopsFit, RegistrationFits, NoResurrection, TypeOK, LoopType
<1>4. RegistrationIsKept'
  BY DEF RegistrationIsKept, SomeoneWatches, OnlyCurrentLeaseKept, KeptLeaseCarriesKey, TypeOK, Free, NoOp
<1> QED  BY <1>1, <1>2, <1>3, <1>4

(* Until the new lease is installed no stream is open: a Register has      *)
(* cancelled its predecessor's, and a recovery begins when it has ended.   *)
LEMMA WhileEstablishing ==
  ASSUME IInv, op.stage \in Establishing
  PROVE  /\ op.kind \in {"register", "recover"} /\ registered /\ gone = None
         /\ address \in Addresses
         /\ keeping # None => stream[keeping] = "ended" /\ keeping \in Leases
         /\ \A l \in Leases : stream[l] # "open"
BY EtcdAssumption
DEF IInv, OpFits, Establishing, RegistrationFits, RegistrationIsKept, OnlyCurrentLeaseKept,
    TypeOK, OpType, NoOp

LEMMA FailInv ==
  ASSUME IInv, op.stage \in Establishing, Fail, live' \subseteq live,
         keys' \in [Addresses -> live' \cup {None}],
         UNCHANGED <<closed, address, leaseID, keeping, stream, healthy, gone>>
  PROVE  IInv'
<1> USE EtcdAssumption, WhileEstablishing DEF IInv, Fail
<1>1. loops' \in [Loops -> LoopType]
      /\ \A w \in Loops : loops'[w].ctx = loops[w].ctx
                         /\ (w # op.loop => loops'[w] = loops[w])
                         /\ (w = op.loop => loops'[w].stage = "recovering")
  BY DEF TypeOK, LoopType
<1>2. op.kind = "recover" => /\ op.loop \in Loops /\ loops[op.loop].stage = "locking"
                             /\ keeping # None /\ loops[op.loop].ctx = keeping
  BY DEF OpFits, Establishing
<1>3. op.kind = "register" => op.loop = None
  BY DEF OpFits
<1>4. TypeOK'
  BY <1>1, <1>2, <1>3 DEF TypeOK, OpType, LoopType, NoOp
<1>5. OpFits'
  BY DEF OpFits, NoOp
<1>6. LoopsFit'
  BY <1>1, <1>2, <1>3 DEF LoopsFit
<1>7. RegistrationFits' /\ NoResurrection'
  BY DEF RegistrationFits, NoResurrection, OpFits, Establishing
<1>8. RegistrationIsKept'
  BY <1>1, <1>2 DEF RegistrationIsKept, SomeoneWatches, OnlyCurrentLeaseKept, KeptLeaseCarriesKey
<1> QED  BY <1>4, <1>5, <1>6, <1>7, <1>8

LEMMA GrantInv == ASSUME IInv, Grant PROVE IInv'
<1> USE EtcdAssumption, WhileEstablishing DEF IInv, Grant, Establishing
<1>1. CASE ~healthy /\ Fail /\ UNCHANGED <<live, stream>>
  BY <1>1, FailInv DEF TypeOK
<1>2. ASSUME NEW l \in Leases, Forgotten(l), live' = live \cup {l},
             stream' = [stream EXCEPT ![l] = "none"],
             op' = [op EXCEPT !.stage = "putting", !.lease = l],
             UNCHANGED <<registered, loops>>
      PROVE  IInv'
  <2> USE <1>2
  <2>1. /\ op'.stage = "putting" /\ op'.lease = l /\ op'.kind = op.kind
        /\ op'.loop = op.loop /\ op' \in OpType
    BY DEF TypeOK, OpType
  <2>2. TypeOK'
    BY <2>1 DEF TypeOK
  <2>3. l # leaseID /\ l # keeping
    BY ZenonT(40) DEF Forgotten, TypeOK
  <2>4. OpFits'
    BY <2>1, <2>3, ZenonT(40) DEF OpFits, TypeOK, OpType, NoOp
  <2>5. LoopsFit'
    BY <2>3 DEF LoopsFit, Forgotten, TypeOK, LoopType
  <2>6. RegistrationFits' /\ NoResurrection'
    BY DEF RegistrationFits, NoResurrection
  <2>7. SomeoneWatches'
    BY <2>1 DEF SomeoneWatches, Free, NoOp
  <2>8. \A m \in Leases : stream'[m] # "open"
    BY DEF TypeOK
  <2>9. RegistrationIsKept'
    BY <2>7, <2>8 DEF RegistrationIsKept, OnlyCurrentLeaseKept, KeptLeaseCarriesKey
  <2> QED  BY <2>2, <2>4, <2>5, <2>6, <2>9
<1> QED  BY <1>1, <1>2

LEMMA PutInv == ASSUME IInv, Put PROVE IInv'
<1> USE EtcdAssumption, WhileEstablishing DEF IInv, Put, Establishing, registry
<1>1. /\ op'.stage = "keeping" /\ op'.lease = op.lease /\ op'.kind = op.kind
      /\ op'.loop = op.loop /\ op' \in OpType
  BY DEF TypeOK, OpType
<1>2. TypeOK'
  BY <1>1 DEF TypeOK
<1>3. OpFits'
  BY <1>1 DEF OpFits, TypeOK, OpType, NoOp
<1>4. LoopsFit' /\ RegistrationFits' /\ NoResurrection'
  BY DEF LoopsFit, RegistrationFits, NoResurrection
<1>5. RegistrationIsKept'
  BY <1>1
  DEF RegistrationIsKept, SomeoneWatches, OnlyCurrentLeaseKept, KeptLeaseCarriesKey, TypeOK, Free, NoOp
<1> QED  BY <1>2, <1>3, <1>4, <1>5

LEMMA PutFailsInv == ASSUME IInv, PutFails PROVE IInv'
<1> USE EtcdAssumption, WhileEstablishing DEF IInv, PutFails, Establishing
<1>1. PICK written \in {keys} \cup {[keys EXCEPT ![address] = l] : l \in {op.lease} \cap live} :
        \/ live' = live \ {op.lease} /\ keys' = Without(written, op.lease)
        \/ ~healthy /\ live' = live /\ keys' = written
  OBVIOUS
<1>2. written \in [Addresses -> live \cup {None}]
  BY DEF TypeOK
<1>3. live' \subseteq live /\ keys' \in [Addresses -> live' \cup {None}]
  BY <1>1, <1>2 DEF Without
<1> QED  BY <1>3, FailInv

LEMMA KeepAliveFailsInv == ASSUME IInv, KeepAliveFails PROVE IInv'
<1> USE DEF IInv, KeepAliveFails, Establishing
<1>1. live' \subseteq live /\ keys' \in [Addresses -> live' \cup {None}]
  BY DEF TypeOK, Revoke, Revoked, Without, etcd
<1> QED  BY <1>1, FailInv

(* The new lease becomes the current one, with the key under it.           *)
LEMMA InstallInv == ASSUME IInv, Install PROVE IInv'
<1> USE EtcdAssumption, WhileEstablishing DEF IInv, Install, Establishing
<1>1. /\ op'.stage = "revoking" /\ op'.lease = leaseID /\ op'.kind = op.kind
      /\ op'.loop = op.loop /\ op' \in OpType
  BY DEF TypeOK, OpType
<1>2. op.lease \in Leases /\ op.lease # leaseID /\ (op.lease \in live => keys[address] = op.lease)
  BY DEF OpFits
<1>3. stream' \in [Leases -> {"none", "open", "ended"}]
      /\ \A l \in Leases : stream'[l] = "open" => l = op.lease
  BY CancelledStreams, <1>2 DEF TypeOK, RegistrationIsKept
<1>4. TypeOK'
  BY <1>1, <1>2, <1>3, CancelledLoops DEF TypeOK, etcd
<1>5. OpFits'
  BY <1>1, <1>2, CancelledLoops DEF OpFits, NoOp
<1>6. LoopsFit'
  BY <1>4, CancelledLoops DEF LoopsFit, TypeOK, LoopType
<1>7. RegistrationFits' /\ NoResurrection'
  BY DEF RegistrationFits, NoResurrection, etcd
<1>8. SomeoneWatches'
  BY <1>1 DEF SomeoneWatches, Free, NoOp
<1>9. RegistrationIsKept'
  BY <1>2, <1>3, <1>8
  DEF RegistrationIsKept, OnlyCurrentLeaseKept, KeptLeaseCarriesKey, RegistrationFits, etcd
<1> QED  BY <1>4, <1>5, <1>6, <1>7, <1>9

(* Goroutine w starts to watch the current lease, if there is one.         *)
LEMMA StartedLoops ==
  ASSUME IInv, NEW w \in Loops
  PROVE  /\ Started(w) \in [Loops -> LoopType]
         /\ \A v \in Loops \ {w} : Started(w)[v] = loops[v]
         /\ Started(w)[w] = NoLoop \/ Started(w)[w] = [stage |-> "watching", ctx |-> keeping]
         /\ \A v \in Loops : Started(w)[v].stage = "none" <=> Started(w)[v].ctx = None
         /\ registered /\ keeping # None =>
              Started(w)[w] = [stage |-> "watching", ctx |-> keeping]
BY EtcdAssumption DEF IInv, TypeOK, LoopType, Started, NoLoop, RegistrationFits

LEMMA RevokedOrNot ==
  ASSUME IInv, Revoke(op.lease)
  PROVE  /\ live' \subseteq live /\ keys' \in [Addresses -> live' \cup {None}]
         /\ \A a \in Addresses : keys'[a] \in {keys[a], None}
         /\ \A a \in Addresses : keys[a] # op.lease => keys'[a] = keys[a]
BY DEF IInv, TypeOK, OpType, Revoke, Revoked, Without, etcd

LEMMA RevokeLeaseInv == ASSUME IInv, RevokeLease PROVE IInv'
<1> USE EtcdAssumption DEF IInv, registry
<1>0. /\ op.stage = "revoking" /\ op.kind \in {"register", "recover", "deregister", "close"}
      /\ live' \subseteq live /\ keys' \in [Addresses -> live' \cup {None}]
      /\ \A a \in Addresses : keys'[a] \in {keys[a], None}
      /\ \A a \in Addresses : keys[a] # op.lease => keys'[a] = keys[a]
      /\ UNCHANGED <<registry, stream, healthy, gone>>
  BY RevokedOrNot DEF RevokeLease, OpFits, TypeOK, OpType, NoOp
<1>1. KeptLeaseCarriesKey' /\ OnlyCurrentLeaseKept' /\ NoResurrection' /\ RegistrationFits'
  BY <1>0 DEF RegistrationIsKept, KeptLeaseCarriesKey, OnlyCurrentLeaseKept, NoResurrection,
              RegistrationFits, OpFits, TypeOK
<1>2. CASE op.kind = "register"
  <2>1. op' = NoOp /\ registered /\ keeping # None
    BY <1>0, <1>2 DEF RevokeLease, OpFits
  <2>2. PICK w \in Loops : loops[w] = NoLoop /\ loops' = Started(w)
    BY <1>2 DEF RevokeLease
  <2>3. TypeOK'
    BY <1>0, <2>1, <2>2, StartedLoops DEF TypeOK, OpType, NoOp
  <2>4. OpFits' /\ LoopsFit'
    BY <1>0, <2>1, <2>2, StartedLoops DEF OpFits, LoopsFit, NoOp, NoLoop
  <2>5. SomeoneWatches'
    BY <1>0, <2>1, <2>2, StartedLoops DEF SomeoneWatches
  <2> QED  BY <1>1, <2>3, <2>4, <2>5 DEF RegistrationIsKept
<1>3. CASE op.kind = "recover"
  <2>1. /\ op' = NoOp /\ registered /\ keeping # None
        /\ op.loop \in Loops /\ loops[op.loop].stage = "locking"
        /\ loops' = [loops EXCEPT ![op.loop].stage = "recovered"]
    BY <1>0, <1>3 DEF RevokeLease, OpFits
  <2>2. /\ loops' \in [Loops -> LoopType] /\ loops'[op.loop].stage = "recovered"
        /\ \A v \in Loops \ {op.loop} : loops'[v] = loops[v]
        /\ loops'[op.loop].ctx = loops[op.loop].ctx
    BY <2>1 DEF TypeOK, LoopType
  <2>3. TypeOK'
    BY <1>0, <2>1, <2>2 DEF TypeOK, OpType, NoOp
  <2>4. OpFits' /\ LoopsFit'
    BY <1>0, <2>1, <2>2 DEF OpFits, LoopsFit, NoOp
  <2>5. SomeoneWatches'
    BY <1>0, <2>1, <2>2 DEF SomeoneWatches
  <2> QED  BY <1>1, <2>3, <2>4, <2>5 DEF RegistrationIsKept
<1>4. CASE op.kind = "deregister"
  <2>1. ~registered
    BY <1>4 DEF OpFits
  <2>2. UNCHANGED loops /\ op' = [op EXCEPT !.stage = "deleting"]
    BY <1>4 DEF RevokeLease
  <2>3. TypeOK'
    BY <1>0, <2>2 DEF TypeOK, OpType
  <2>4. OpFits' /\ LoopsFit'
    BY <1>0, <1>4, <2>1, <2>2 DEF OpFits, LoopsFit, NoOp, TypeOK, OpType
  <2>5. SomeoneWatches'
    BY <1>0, <2>1 DEF SomeoneWatches
  <2> QED  BY <1>1, <2>3, <2>4, <2>5 DEF RegistrationIsKept
<1>5. CASE op.kind = "close"
  <2>1. ~registered
    BY <1>5 DEF OpFits
  <2>2. UNCHANGED loops /\ op' = NoOp
    BY <1>5 DEF RevokeLease
  <2>3. TypeOK'
    BY <1>0, <2>2 DEF TypeOK, OpType, NoOp
  <2>4. OpFits' /\ LoopsFit'
    BY <1>0, <2>1, <2>2 DEF OpFits, LoopsFit, NoOp
  <2>5. SomeoneWatches'
    BY <1>0, <2>1 DEF SomeoneWatches
  <2> QED  BY <1>1, <2>3, <2>4, <2>5 DEF RegistrationIsKept
<1> QED  BY <1>0, <1>2, <1>3, <1>4, <1>5

LEMMA DeleteKeyInv == ASSUME IInv, DeleteKey PROVE IInv'
<1> USE EtcdAssumption DEF IInv, DeleteKey, registry
<1>1. ~registered /\ keeping = None /\ op.addr \in Addresses /\ op' = NoOp
  BY DEF OpFits, RegistrationFits, NoOp
<1>2. /\ keys' \in [Addresses -> live \cup {None}]
      /\ \A a \in Addresses : keys'[a] \in {keys[a], None}
      /\ \/ gone' = op.addr /\ keys'[op.addr] = None
         \/ gone' = gone
  BY <1>1 DEF TypeOK
<1>3. TypeOK'
  BY <1>1, <1>2 DEF TypeOK, OpType, NoOp
<1>4. OpFits' /\ LoopsFit' /\ RegistrationFits'
  BY <1>1 DEF OpFits, LoopsFit, RegistrationFits, NoOp
<1>5. NoResurrection'
  BY <1>2, <1>3 DEF NoResurrection, TypeOK
<1>6. RegistrationIsKept'
  BY <1>1 DEF RegistrationIsKept, SomeoneWatches, OnlyCurrentLeaseKept, KeptLeaseCarriesKey
<1> QED  BY <1>3, <1>4, <1>5, <1>6

(* A step of a goroutine that watches.                                     *)
LEMMA LoopStepInv ==
  ASSUME IInv, NEW w \in Loops, loops' \in [Loops -> LoopType],
         \A v \in Loops \ {w} : loops'[v] = loops[v],
         loops'[w].stage = "none" <=> loops'[w].ctx = None,
         loops'[w].ctx \in Leases => loops'[w].ctx = keeping,
         loops'[w].stage \in {"recovering", "locking"} /\ loops'[w].ctx # Done =>
            stream[loops'[w].ctx] = "ended",
         op.kind = "recover" => w # op.loop,
         Free /\ registered /\ (loops[w].stage = "recovered" \/ loops[w].ctx = keeping) =>
            loops'[w].ctx = keeping,
         UNCHANGED <<registry, op, stream, etcd, healthy, gone>>
  PROVE  IInv'
<1> USE EtcdAssumption DEF IInv, registry, etcd
<1>1. TypeOK'
  BY DEF TypeOK
<1>2. OpFits'
  BY DEF OpFits
<1>3. LoopsFit'
  BY DEF LoopsFit
<1>4. RegistrationFits' /\ NoResurrection'
  BY DEF RegistrationFits, NoResurrection
<1>5. SomeoneWatches'
  BY <1>1 DEF RegistrationIsKept, SomeoneWatches, Free, TypeOK
<1>6. RegistrationIsKept'
  BY <1>5 DEF RegistrationIsKept, OnlyCurrentLeaseKept, KeptLeaseCarriesKey
<1> QED  BY <1>1, <1>2, <1>3, <1>4, <1>6

LEMMA LoopInv == ASSUME IInv, NEW w \in Loops, Loop(w) PROVE IInv'
<1> USE EtcdAssumption DEF IInv, SetLoop
<1>1. CASE LoopEnds(w)
  <2>1. op.kind = "recover" => w # op.loop
    BY <1>1 DEF LoopEnds, OpFits
  <2>2. loops'[w] = NoLoop /\ loops' \in [Loops -> LoopType]
        /\ \A v \in Loops \ {w} : loops'[v] = loops[v]
    BY <1>1 DEF LoopEnds, TypeOK, LoopType, NoLoop
  <2>3. registered => loops[w].stage # "recovered" /\ loops[w].ctx # keeping
    BY <1>1 DEF LoopEnds, RegistrationFits, TypeOK
  <2> QED  BY <1>1, <2>1, <2>2, <2>3, LoopStepInv DEF LoopEnds, NoLoop
<1>2. CASE LoopNotices(w)
  <2>1. op.kind = "recover" => w # op.loop
    BY <1>2 DEF LoopNotices, OpFits
  <2>2. loops'[w].stage = "recovering" /\ loops'[w].ctx = loops[w].ctx /\ loops' \in [Loops -> LoopType]
        /\ \A v \in Loops \ {w} : loops'[v] = loops[v]
    BY <1>2 DEF LoopNotices, TypeOK, LoopType
  <2> QED  BY <1>2, <2>1, <2>2, LoopStepInv DEF LoopNotices, TypeOK, LoopsFit
<1>3. CASE LoopRetries(w)
  <2>1. op.kind = "recover" => w # op.loop
    BY <1>3 DEF LoopRetries, OpFits
  <2>2. loops'[w].stage = "locking" /\ loops'[w].ctx = loops[w].ctx /\ loops' \in [Loops -> LoopType]
        /\ \A v \in Loops \ {w} : loops'[v] = loops[v]
    BY <1>3 DEF LoopRetries, TypeOK, LoopType
  <2> QED  BY <1>3, <2>1, <2>2, LoopStepInv DEF LoopRetries, TypeOK, LoopsFit
<1>4. CASE StartSuccessor(w)
  <2>1. op.kind = "recover" => w # op.loop
    BY <1>4 DEF StartSuccessor, OpFits
  <2>2. Free /\ registered => keeping # None
    BY DEF RegistrationIsKept, SomeoneWatches
  <2> QED  BY <1>4, <2>1, <2>2, StartedLoops, LoopStepInv DEF StartSuccessor, NoLoop
<1>5. CASE BeginRecovery(w) /\ (closed \/ ~registered \/ loops[w].ctx = Done)
  <2>1. op.kind # "recover"
    BY <1>5 DEF BeginRecovery, Free, NoOp
  <2>2. loops'[w].stage = "recovering" /\ loops'[w].ctx = loops[w].ctx /\ loops' \in [Loops -> LoopType]
        /\ \A v \in Loops \ {w} : loops'[v] = loops[v]
    BY <1>5 DEF BeginRecovery, TypeOK, LoopType
  <2>3. registered => loops[w].ctx # keeping /\ loops[w].stage # "recovered"
    BY <1>5 DEF BeginRecovery, RegistrationFits, TypeOK
  <2> QED  BY <1>5, <2>1, <2>2, <2>3, LoopStepInv DEF BeginRecovery, TypeOK, LoopsFit
<1>6. CASE BeginRecovery(w) /\ ~(closed \/ ~registered \/ loops[w].ctx = Done)
  <2>1. op' = [kind |-> "recover", stage |-> "granting", lease |-> None, addr |-> None, loop |-> w]
    BY <1>6 DEF BeginRecovery, NoOp
  <2>2. loops[w].stage = "locking" /\ loops[w].ctx = keeping /\ keeping # None /\ stream[keeping] = "ended"
    BY <1>6 DEF BeginRecovery, LoopsFit, TypeOK, LoopType
  <2> USE <1>6 DEF BeginRecovery, registry, etcd
  <2>3. TypeOK'
    BY <2>1 DEF TypeOK, OpType
  <2>4. OpFits'
    BY <2>1, <2>2 DEF OpFits, Establishing
  <2>5. LoopsFit' /\ RegistrationFits' /\ NoResurrection'
    BY DEF LoopsFit, RegistrationFits, NoResurrection
  <2>6. RegistrationIsKept'
    BY <2>1 DEF RegistrationIsKept, SomeoneWatches, OnlyCurrentLeaseKept, KeptLeaseCarriesKey, Free, NoOp
  <2> QED  BY <2>3, <2>4, <2>5, <2>6
<1> QED  BY <1>1, <1>2, <1>3, <1>4, <1>5, <1>6 DEF Loop

LEMMA StepInv == IInv /\ [Next]_vars => IInv'
<1> SUFFICES ASSUME IInv, [Next]_vars PROVE IInv'
  OBVIOUS
<1>1. CASE UNCHANGED vars
  BY <1>1 DEF vars, registry, etcd, IInv, TypeOK, OpFits, LoopsFit, RegistrationFits, RegistrationIsKept,
              SomeoneWatches, OnlyCurrentLeaseKept, KeptLeaseCarriesKey, NoResurrection, Free
<1>2. CASE Operation
  BY <1>2, GrantInv, PutInv, PutFailsInv, InstallInv, KeepAliveFailsInv, RevokeLeaseInv, DeleteKeyInv
     DEF Operation
<1> QED  BY <1>1, <1>2, RegisterInv, DeregisterInv, CloseInv, LoopInv, ExpireInv, StreamEndsInv, HealInv
            DEF Next

LEMMA Invariance == Spec => []IInv
<1> QED  BY InitIInv, StepInv, PTL DEF Spec

(* Every variable keeps its type, and the lease that is kept alive is the  *)
(* registration's (fields of EtcdRegistry, grpc/etcd.go:369-384).          *)
THEOREM TypeCorrect == Spec => []TypeOK
<1>1. IInv => TypeOK
  BY DEF IInv
<1> QED  BY <1>1, Invariance, PTL

(* However registrations, recoveries, expired leases and failing requests  *)
(* interleave: while a service is registered some goroutine watches its    *)
(* lease, no other lease is kept alive, and the lease carries the key      *)
(* (grpc/etcd.go:541-677).                                                 *)
THEOREM RegistrationStaysKept == Spec => []RegistrationIsKept
<1>1. IInv => RegistrationIsKept
  BY DEF IInv
<1> QED  BY <1>1, Invariance, PTL

(* No recovery that was under way, or waited, brings back a service that   *)
(* was deregistered (grpc/etcd.go:459-491 and 648-652).                    *)
THEOREM DeregisteredStaysAway == Spec => []NoResurrection
<1>1. IInv => NoResurrection
  BY DEF IInv
<1> QED  BY <1>1, Invariance, PTL
=============================================================================
