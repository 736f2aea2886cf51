----------------------------- MODULE ClientManager -----------------------------
(***************************************************************************)
(* GrpcClientManager of grpc_client.go: connection pools that GetClient    *)
(* and ConnectAll create outside m.mu and install under it, while          *)
(* CloseClient and CloseAll close pools and start a new generation.        *)
(*                                                                         *)
(* GetClient creates a pool in a flight (singleflight.Group, DoChan) that  *)
(* callers asking for the same service in the same generation share; the   *)
(* flight goes on when its callers give up.  A section under m.mu is one   *)
(* step; so is createClientPool, whose clients nobody else can see.  What  *)
(* the flight came to is handed out by singleflight after m.mu was let go, *)
(* under a lock of its own, and received later still.                      *)
(***************************************************************************)
EXTENDS Naturals, FiniteSets

CONSTANTS
  Services,     \* service names
  Getters,      \* callers of GetClient
  Connectors,   \* callers of ConnectAll
  Pools,        \* pool objects; one that is closed and dropped is used again
  MaxGeneration,\* bound on the resets explored
  MaxFlights,   \* bound on the flights in progress at a time
  None

Generations == 0..MaxGeneration

ManagerAssumption == None \notin Pools /\ MaxGeneration \in Nat /\ MaxFlights \in Nat

VARIABLES
  services,    \* the registered services
  clientPools, \* the installed pool of each service, or None
  generation,  \* poolGeneration
  poolState,   \* "unused", "usable", "unusable" (its connections were shut down)
               \* or "closed" but still installed
  flights,     \* the creation in progress under each singleflight key
  calls,       \* what each caller of GetClient is doing
  connects,    \* what each caller of ConnectAll is doing
  doomed,      \* history: pools whose creation a reset overtook
  outside,     \* history: open pools whose connections a holder has closed
  shut         \* history: pools the manager had shut when a caller's call began

times == <<outside, shut>>
vars == <<services, clientPools, generation, poolState, flights, calls,
          connects, doomed, times>>

(* poolKey: callers that saw different generations do not share a flight.  *)
(* Mutant: they do.                                                        *)
PoolKeyOfService(s, gen) == <<s, 0>>
PoolKey(s, gen) == <<s, gen>>
Keys == {PoolKey(s, gen) : s \in Services, gen \in Generations}

(* A flight: its service, the generation its first caller saw, where it is *)
(* and the pool it holds: one it found in the map and has still to try     *)
(* ("holding"; "holdingLate" when it began in another generation), the one *)
(* it has created, or the one whose client its function has returned       *)
(* ("ended", without a pool for an error).                                 *)
NoFlight == [stage |-> "none", service |-> None, gen |-> 0, pool |-> None]
Flight(stage, s, gen, p) == [stage |-> stage, service |-> s, gen |-> gen, pool |-> p]
FlightType == [stage : {"none", "begun", "holding", "holdingLate", "creating", "created",
                        "ended"},
               service : Services \cup {None}, gen : Generations,
               pool : Pools \cup {None}]

(* A caller of GetClient: idle, past its look at the maps with a pool to   *)
(* try ("holding") or without ("looked"), waiting for a flight, or with    *)
(* the flight's result, which may be an error, in its channel ("answered").*)
CallType == [stage : {"idle", "holding", "looked", "waiting", "answered"},
             service : Services \cup {None}, gen : Generations,
             pool : Pools \cup {None}]
Idle == [stage |-> "idle", service |-> None, gen |-> 0, pool |-> None]

(* A caller of ConnectAll: the services left to connect, those that had a  *)
(* pool when it began left out, and the pool it has just created.          *)
ConnectType == [todo : SUBSET Services, service : Services \cup {None},
                gen : Generations, pool : Pools \cup {None}]
NotConnecting == [todo |-> {}, service |-> None, gen |-> 0, pool |-> None]

Init ==
  /\ services = {}
  /\ clientPools = [s \in Services |-> None]
  /\ generation = 0
  /\ poolState = [p \in Pools |-> "unused"]
  /\ flights = [k \in Keys |-> NoFlight]
  /\ calls = [g \in Getters |-> Idle]
  /\ connects = [x \in Connectors |-> NotConnecting]
  /\ doomed = {} /\ outside = {}
  /\ shut = [g \in Getters |-> {}]

Installed(s) == clientPools[s] # None

Usable(s) == Installed(s) /\ poolState[clientPools[s]] = "usable"

-----------------------------------------------------------------------------
RegisterService(s) ==
  /\ services' = services \cup {s}
  /\ UNCHANGED <<clientPools, generation, poolState, flights, calls, connects, doomed, times>>

(* The holder of a client may close it; the manager is not told.           *)
CloseFromOutside(p) ==
  /\ poolState[p] = "usable" /\ \E s \in Services : clientPools[s] = p
  /\ poolState' = [poolState EXCEPT ![p] = "unusable"]
  /\ outside' = outside \cup {p}
  /\ UNCHANGED <<services, clientPools, generation, flights, calls, connects, doomed, shut>>

-----------------------------------------------------------------------------
(* GetClient, up to the flight.                                            *)

(* A pool object nobody refers to.                                         *)
Free(p) ==
  /\ poolState[p] = "unused"
  /\ \A g \in Getters : calls[g].pool # p
  /\ \A k \in Keys : flights[k].pool # p

(* What the manager has shut and somebody still refers to.                 *)
Shut == {p \in Pools : poolState[p] # "usable" /\ ~Free(p)} \ outside

(* GetClient returns the client its caller has, if any, or an error.       *)
Return(g) ==
  /\ calls' = [calls EXCEPT ![g] = Idle]
  /\ shut' = [shut EXCEPT ![g] = {}]

(* The first look at the maps.  Whether a pool found there has a usable    *)
(* client is asked outside m.mu, when it may have been closed; one that is *)
(* not usable now will not become so.                                      *)
Look(g, s) ==
  LET saw(stage, p) ==
        /\ calls' = [calls EXCEPT ![g] = [stage |-> stage, service |-> s, gen |-> generation,
                                          pool |-> p]]
        /\ shut' = [shut EXCEPT ![g] = Shut]
  IN
  /\ calls[g].stage = "idle"
  /\ IF Usable(s) THEN saw("holding", clientPools[s])
     ELSE IF s \in services THEN saw("looked", None) ELSE Return(g)
  /\ UNCHANGED <<services, clientPools, generation, poolState, flights, connects, doomed, outside>>

(* pool.getClient, under the pool's own lock.                              *)
TryPool(g) ==
  /\ calls[g].stage = "holding"
  /\ IF poolState[calls[g].pool] = "usable" THEN Return(g)
     ELSE /\ calls' = [calls EXCEPT ![g].stage = "looked", ![g].pool = None]
          /\ UNCHANGED shut
  /\ UNCHANGED <<services, clientPools, generation, poolState, flights, connects, doomed, outside>>

(* DoChan: joins the flight under the key or begins it.                    *)
Join(g) ==
  LET k == PoolKey(calls[g].service, calls[g].gen)
      flying == {l \in Keys : flights[l].stage # "none"} IN
  /\ calls[g].stage = "looked"
  /\ k \in flying \/ Cardinality(flying) < MaxFlights
  /\ calls' = [calls EXCEPT ![g].stage = "waiting"]
  /\ flights' = IF k \in flying THEN flights
                ELSE [flights EXCEPT ![k] =
                        Flight("begun", calls[g].service, calls[g].gen, None)]
  /\ UNCHANGED <<services, clientPools, generation, poolState, connects, doomed, times>>

(* The flight's function returns a client of pool p, or an error (None).   *)
EndFlight(k, p) == flights' = [flights EXCEPT ![k].stage = "ended", ![k].pool = p]

(* doCall of singleflight: everybody who has joined gets the result in his *)
(* channel, and the next caller begins another flight.                     *)
Deliver(k) ==
  /\ flights[k].stage = "ended"
  /\ flights' = [flights EXCEPT ![k] = NoFlight]
  /\ calls' = [g \in Getters |->
       IF calls[g].stage = "waiting" /\ PoolKey(calls[g].service, calls[g].gen) = k
       THEN [calls[g] EXCEPT !.stage = "answered", !.pool = flights[k].pool]
       ELSE calls[g]]
  /\ UNCHANGED <<services, clientPools, generation, poolState, connects, doomed, times>>

Receive(g) ==
  /\ calls[g].stage = "answered"
  /\ Return(g)
  /\ UNCHANGED <<services, clientPools, generation, poolState, flights, connects, doomed, outside>>

(* The caller's context has ended, and select sees it before the result;   *)
(* the flight goes on without it.                                          *)
GiveUp(g) ==
  /\ calls[g].stage \in {"waiting", "answered"}
  /\ Return(g)
  /\ UNCHANGED <<services, clientPools, generation, poolState, flights, connects, doomed, outside>>

-----------------------------------------------------------------------------
(* The flight.                                                             *)

(* The second look at the maps, in the flight.                             *)
Recheck(k) ==
  LET f == flights[k] IN
  /\ f.stage = "begun"
  /\ \/ /\ Usable(f.service)
        /\ flights' = [flights EXCEPT
             ![k].stage = IF f.gen = generation THEN "holding" ELSE "holdingLate",
             ![k].pool = clientPools[f.service]]
     \/ /\ ~Usable(f.service)
        /\ f.service \notin services \/ f.gen # generation
        /\ EndFlight(k, None)
     \/ /\ ~Usable(f.service) /\ f.service \in services /\ f.gen = generation
        /\ flights' = [flights EXCEPT ![k].stage = "creating"]
  /\ UNCHANGED <<services, clientPools, generation, poolState, calls, connects, doomed, times>>

(* getClient on the pool the flight found; it goes by the generation it    *)
(* read together with that pool.                                           *)
TryPoolInFlight(k) ==
  LET f == flights[k]
      usable == poolState[f.pool] = "usable" IN
  /\ \/ /\ f.stage \in {"holding", "holdingLate"} /\ usable
        /\ EndFlight(k, f.pool)
     \/ /\ f.stage = "holdingLate" /\ ~usable
        /\ EndFlight(k, None)
     \/ /\ f.stage = "holding" /\ ~usable
        /\ flights' = [flights EXCEPT ![k].stage = "creating", ![k].pool = None]
  /\ UNCHANGED <<services, clientPools, generation, poolState, calls, connects, doomed, times>>

(* Pool p is created for somebody who saw generation gen.                  *)
Doom(p, gen) == doomed' = IF gen = generation THEN doomed ELSE doomed \cup {p}

(* A pool object used again is a new pool: what happened to the last one   *)
(* is forgotten.                                                           *)
Renew(p) == shut' = [g \in Getters |-> shut[g] \ {p}]

(* createClientPool: all the clients of the pool, or none.                 *)
Create(k) ==
  /\ flights[k].stage = "creating"
  /\ \/ \E p \in Pools :
          /\ Free(p)
          /\ poolState' = [poolState EXCEPT ![p] = "usable"]
          /\ flights' = [flights EXCEPT ![k].stage = "created", ![k].pool = p]
          /\ Doom(p, flights[k].gen)
          /\ Renew(p)
     \/ /\ EndFlight(k, None)
        /\ UNCHANGED <<poolState, doomed, shut>>
  /\ UNCHANGED <<services, clientPools, generation, calls, connects, outside>>

(* Why a pool created for s since gen must not be installed.  Mutant: only *)
(* because the service is unknown.                                         *)
OvertakenIfUnknown(s, gen) == s \notin services
Overtaken(s, gen) == s \notin services \/ generation # gen

Dropped(ps) == [p \in Pools |-> IF p \in ps THEN "unused" ELSE poolState[p]]

(* A pool that was dropped is a new one when it is used again.             *)
ForgetDropped ==
  /\ doomed' = {p \in doomed : poolState'[p] # "unused"}
  /\ outside' = {p \in outside : poolState'[p] # "unused"}

(* The pool a new one replaces.  Mutant: it is not closed.                 *)
OldNone(s) == {}
Old(s) == {clientPools[s]} \ {None}

(* The section under m.mu: a pool someone else installed is preferred if   *)
(* it is usable and closed if it is not; the new one is closed when the    *)
(* manager was reset meanwhile, and installed otherwise.                   *)
Install(k) ==
  LET f == flights[k]
      s == f.service IN
  /\ f.stage = "created"
  /\ \/ /\ Usable(s)
        /\ poolState' = Dropped({f.pool})
        /\ EndFlight(k, clientPools[s])
        /\ UNCHANGED clientPools
     \/ /\ ~Usable(s) /\ Overtaken(s, f.gen)
        /\ poolState' = [p \in Pools |-> IF p \in Old(s) THEN "closed"
                                         ELSE Dropped({f.pool})[p]]
        /\ EndFlight(k, None)
        /\ UNCHANGED clientPools
     \/ /\ ~Usable(s) /\ ~Overtaken(s, f.gen)
        /\ poolState' = Dropped(Old(s))
        /\ clientPools' = [clientPools EXCEPT ![s] = f.pool]
        /\ EndFlight(k, f.pool)
  /\ ForgetDropped
  /\ UNCHANGED <<services, generation, calls, connects, shut>>

-----------------------------------------------------------------------------
(* ConnectAll: the services without a pool, one after the other.           *)

BeginConnectAll(x) ==
  /\ connects[x] = NotConnecting
  /\ connects' = [connects EXCEPT ![x] =
       [todo |-> {s \in services : ~Installed(s)}, service |-> None,
        gen |-> generation, pool |-> None]]
  /\ UNCHANGED <<services, clientPools, generation, poolState, flights, calls, doomed, times>>

ConnectCreate(x) ==
  /\ connects[x].pool = None
  /\ \E s \in connects[x].todo :
       \/ \E p \in Pools :
            /\ Free(p)
            /\ poolState' = [poolState EXCEPT ![p] = "usable"]
            /\ connects' = [connects EXCEPT ![x].service = s, ![x].pool = p,
                                            ![x].todo = @ \ {s}]
            /\ Doom(p, connects[x].gen)
            /\ Renew(p)
       \/ /\ connects' = [connects EXCEPT ![x].todo = @ \ {s}]
          /\ UNCHANGED <<poolState, doomed, shut>>
  /\ UNCHANGED <<services, clientPools, generation, flights, calls, outside>>

(* Any installed pool is preferred here, usable or not.                    *)
ConnectInstall(x) ==
  LET c == connects[x]
      refused == Installed(c.service) \/ Overtaken(c.service, c.gen) IN
  /\ c.pool # None
  /\ IF refused
     THEN poolState' = Dropped({c.pool}) /\ UNCHANGED clientPools
     ELSE clientPools' = [clientPools EXCEPT ![c.service] = c.pool] /\ UNCHANGED poolState
  /\ connects' = [connects EXCEPT ![x].service = None, ![x].pool = None]
  /\ ForgetDropped
  /\ UNCHANGED <<services, generation, flights, calls, shut>>

EndConnectAll(x) ==
  /\ connects[x] # NotConnecting /\ connects[x].pool = None /\ connects[x].todo = {}
  /\ connects' = [connects EXCEPT ![x] = NotConnecting]
  /\ UNCHANGED <<services, clientPools, generation, poolState, flights, calls, doomed, times>>

-----------------------------------------------------------------------------
(* CloseClient and CloseAll.                                               *)

(* Pools created and not yet installed.                                    *)
Pending == ( {flights[k].pool : k \in {k \in Keys : flights[k].stage = "created"}}
               \cup {connects[x].pool : x \in Connectors} ) \ {None}

(* A pool whose close fails has no clients left all the same; CloseClient  *)
(* leaves it in the map.  Every CloseClient makes the pools that are being *)
(* created stale, whatever their service.                                  *)
CloseClient(s) ==
  /\ generation < MaxGeneration
  /\ generation' = generation + 1
  /\ \/ /\ ~Installed(s)
        /\ UNCHANGED <<clientPools, poolState>>
     \/ /\ Installed(s)
        /\ poolState' = Dropped(Old(s))
        /\ clientPools' = [clientPools EXCEPT ![s] = None]
     \/ /\ Installed(s) /\ poolState[clientPools[s]] # "closed"
        /\ poolState' = [poolState EXCEPT ![clientPools[s]] = "closed"]
        /\ UNCHANGED clientPools
  /\ doomed' = doomed \cup Pending
  /\ outside' = {p \in outside : poolState'[p] # "unused"}
  /\ UNCHANGED <<services, flights, calls, connects, shut>>

CloseAll ==
  /\ generation < MaxGeneration
  /\ generation' = generation + 1
  /\ poolState' = Dropped(UNION {Old(s) : s \in Services})
  /\ clientPools' = [s \in Services |-> None]
  /\ doomed' = doomed \cup Pending
  /\ outside' = {p \in outside : poolState'[p] # "unused"}
  /\ UNCHANGED <<services, flights, calls, connects, shut>>

Next ==
  \/ \E s \in Services : RegisterService(s) \/ CloseClient(s)
  \/ \E p \in Pools : CloseFromOutside(p)
  \/ \E g \in Getters : \/ \E s \in Services : Look(g, s)
                        \/ TryPool(g) \/ Join(g) \/ Receive(g) \/ GiveUp(g)
  \/ \E k \in Keys : Recheck(k) \/ TryPoolInFlight(k) \/ Create(k) \/ Install(k) \/ Deliver(k)
  \/ \E x \in Connectors : \/ BeginConnectAll(x) \/ ConnectCreate(x)
                           \/ ConnectInstall(x) \/ EndConnectAll(x)
  \/ CloseAll

Spec == Init /\ [][Next]_vars

-----------------------------------------------------------------------------
(* Every variable keeps its type, and a caller that has found a pool, and  *)
(* no other but one that has been given its client, has it.                *)
TypeOK ==
  /\ services \subseteq Services
  /\ clientPools \in [Services -> Pools \cup {None}]
  /\ generation \in Generations
  /\ poolState \in [Pools -> {"unused", "usable", "unusable", "closed"}]
  /\ flights \in [Keys -> FlightType]
  /\ calls \in [Getters -> CallType]
  /\ \A g \in Getters :
       /\ calls[g].stage = "holding" => calls[g].pool # None
       /\ calls[g].pool # None => calls[g].stage \in {"holding", "answered"}
  /\ connects \in [Connectors -> ConnectType]
  /\ doomed \subseteq Pools /\ outside \subseteq Pools
  /\ shut \in [Getters -> SUBSET Pools]

(* No pool leaks and none is closed under its user: a pool is open exactly *)
(* while it is installed or on its way in, it has one place at a time, and *)
(* a pool that is pending has all its connections (every newPool.close of  *)
(* GetClient and pool.close of ConnectAll and CloseAll).                   *)
NoPoolLeaks ==
  /\ \A p \in Pools :
       poolState[p] # "unused" <=> p \in Pending \/ \E s \in Services : clientPools[s] = p
  /\ \A p \in Pending :
       poolState[p] = "usable" /\ \A s \in Services : clientPools[s] # p
  /\ \A s, t \in Services : Installed(s) /\ clientPools[s] = clientPools[t] => s = t

(* A pool whose creation began before a CloseAll or CloseClient never gets *)
(* into the maps after it (poolGeneration).                                *)
NoPoolFromThePast == \A s \in Services : clientPools[s] \notin doomed

(* The pool whose client GetClient returns, directly or as the late result *)
(* of a flight, is not one that CloseClient, CloseAll or a failing close   *)
(* had shut before the call began, unless a holder of its clients closed   *)
(* them first; and it is the pool installed for the service asked for, if  *)
(* it is still open.  (The generation in poolKey, grpc_client.go:214.)     *)
ReturnedClientIsOfItsCall ==
  \A g \in Getters :
    LET p == calls[g].pool IN
    calls[g].stage \in {"holding", "answered"} =>
      /\ p \notin shut[g]
      /\ p # None /\ poolState[p] # "unused" => clientPools[calls[g].service] = p
=============================================================================
