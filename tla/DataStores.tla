----------------------------- MODULE DataStores -----------------------------
(***************************************************************************)
(* The data-store managers of db/redis, db/gorm and db/mongodb, and the    *)
(* clients they own.  The three managers are the same code in three        *)
(* packages; their clients differ in how many connection pools they open,  *)
(* in which order, and in how they close them.  `kind' says which package  *)
(* a behaviour is about.                                                   *)
(*                                                                         *)
(* NewManager connects to the configured databases one after the other;    *)
(* RegisterClient connects without the lock, and checks twice under it     *)
(* that the manager is open and the name free; Close empties the maps      *)
(* under the lock and closes the clients after it.                         *)
(*                                                                         *)
(* A pool is <<client, part>>: a client's own, the one it tests a replica  *)
(* with, and one for each replica.  Pools that have been opened and not    *)
(* closed are in `open', those whose Close returned an error in `stuck',   *)
(* and those that a failing gorm.Open or db.Use has left behind in `lost'. *)
(***************************************************************************)
EXTENDS Naturals, Sequences, FiniteSets

CONSTANTS
  Callers,     \* goroutines that use the manager
  Boot,        \* the goroutine that runs NewManager
  Names,       \* names of databases
  NoName,      \* the empty name
  Configs,     \* the lists of database names NewManager may be given
  Replicas,    \* the replicas a gorm configuration may name
  MaxClients   \* bound: clients made in a behaviour

Procs == Callers \cup {Boot}
NoClient == 0
Ids == 1..MaxClients
Parts == {"primary", "probe"} \cup Replicas

StoreAssumption == Replicas \cap {"primary", "probe"} = {}

VARIABLES
  kind,        \* "redis", "gorm" or "mongodb"
  configs,     \* config.Databases, as names
  allow,       \* config.AllowUnavailable
  phase,       \* of NewManager: "boot", "up" (returned a manager), "gone" (an error)
  clients,     \* Manager.clients: name -> client, NoClient for no entry
  unavailable, \* the names in Manager.unavailable
  closed,      \* Manager.closed
  made,        \* clients made so far
  open,        \* pools opened and not yet closed
  stuck,       \* pools whose Close returned an error
  lost,        \* history: pools left open by a call that failed and returned no handle
  pc,          \* what each goroutine is about to do
  name,        \* the name it connects, NoName when it does not
  own,         \* the client it is making
  slaves,      \* the replicas it has still to test
  slaveDialectors, \* those that have answered
  taken,       \* the clients Close has taken from the map and not closed yet
  result       \* what its last Close returned: "none", "nil", "error"

manager == <<phase, clients, unavailable, closed>>
pools == <<made, open, stuck, lost>>
probing == <<slaves, slaveDialectors>>
proc == <<pc, name, own, probing, taken, result>>
vars == <<kind, configs, allow, manager, pools, proc>>

(* A manager whose NewManager has just been called, db/redis/manager.go:26. *)
Init ==
  /\ kind \in {"redis", "gorm", "mongodb"}
  /\ configs \in Configs /\ allow \in BOOLEAN
  /\ phase = "boot"
  /\ clients = [n \in Names |-> NoClient] /\ unavailable = {} /\ closed = FALSE
  /\ made = 0 /\ open = {} /\ stuck = {} /\ lost = {}
  /\ pc = [p \in Procs |-> IF p = Boot THEN "next" ELSE "idle"]
  /\ name = [p \in Procs |-> NoName]
  /\ own = [p \in Procs |-> NoClient]
  /\ slaves = [p \in Procs |-> {}] /\ slaveDialectors = [p \in Procs |-> {}]
  /\ taken = [p \in Procs |-> {}]
  /\ result = [p \in Procs |-> "none"]

Installed == {clients[n] : n \in Names} \ {NoClient}
PoolsOf(c) == {q \in open : q[1] = c}
At(p, l) == pc' = [pc EXCEPT ![p] = l]

----------------------------------------------------------------------------
(* Close, the part under the lock: nothing to do when closed; otherwise    *)
(* the maps are emptied and the clients are p's to close.                  *)
TakeAll(p) ==
  /\ closed' = TRUE /\ unavailable' = {}
  /\ clients' = [n \in Names |-> NoClient]
  /\ taken' = [taken EXCEPT ![p] = Installed]
  /\ result' = [result EXCEPT ![p] = "nil"]
  /\ At(p, "closing")

(* NewClient has returned an error: NewManager notes the name or closes    *)
(* everything and fails; RegisterClient returns the error.                 *)
NewClientFails(p) ==
  /\ own' = [own EXCEPT ![p] = NoClient]
  /\ slaves' = [slaves EXCEPT ![p] = {}]
  /\ slaveDialectors' = [slaveDialectors EXCEPT ![p] = {}]
  /\ name' = [name EXCEPT ![p] = NoName]
  /\ UNCHANGED <<kind, configs, allow>>
  /\ \/ /\ p = Boot /\ allow
        /\ unavailable' = unavailable \cup {name[p]}
        /\ At(p, "next")
        /\ UNCHANGED <<phase, clients, closed, taken, result>>
     \/ /\ p = Boot /\ ~allow
        /\ TakeAll(p) /\ UNCHANGED phase
     \/ /\ p # Boot
        /\ At(p, "idle")
        /\ UNCHANGED <<manager, taken, result>>

(* Some pools are closed, and those in `bad' return an error: they may be  *)
(* left open.  Those in `left' are open and nobody has a handle to them.   *)
ShutPools(pls, bad, left) ==
  /\ open' = (open \ (pls \ bad)) \cup left
  /\ stuck' = stuck \cup bad
  /\ lost' = lost \cup left
  /\ UNCHANGED made

(* NewClient closes `parts' of what it has opened of its client before it  *)
(* returns an error, and ignores the error of that; the parts in `left'    *)
(* stay open.                                                              *)
CloseAndFail(p, parts, left) ==
  LET pls == {q \in PoolsOf(own[p]) : q[2] \in parts} IN
  /\ \E bad \in SUBSET pls : ShutPools(pls, bad, {own[p]} \X left)
  /\ NewClientFails(p)

(* Options that do not parse fail before anything is opened; then the      *)
(* driver makes the client and its pool.                                   *)
Dial(p) ==
  /\ pc[p] = "dial"
  /\ \/ NewClientFails(p) /\ UNCHANGED pools
     \/ /\ made < MaxClients
        /\ made' = made + 1
        /\ own' = [own EXCEPT ![p] = made + 1]
        /\ open' = open \cup {<<made + 1, "primary">>}
        /\ At(p, "ping")
        /\ UNCHANGED <<kind, configs, allow, manager, stuck, lost, name, probing, taken, result>>

(* The connection test: a client that does not answer is closed, and one   *)
(* that answers has no replicas to test.                                   *)
Ping(p) ==
  /\ pc[p] = "ping"
  /\ \/ CloseAndFail(p, {"primary"}, {})
     \/ /\ At(p, "opened")
        /\ UNCHANGED <<kind, configs, allow, manager, pools, name, own, probing, taken, result>>

RedisNewClient(p) == kind = "redis" /\ (Dial(p) \/ Ping(p))
MongoNewClient(p) == kind = "mongodb" /\ (Dial(p) \/ Ping(p))

(* gorm.Open, which makes the gorm client's pool, tests the connection     *)
(* itself, and when that fails returns an error with its pool left open.   *)
OpenFails(p) ==
  /\ pc[p] = "ping"
  /\ CloseAndFail(p, {}, {"primary"})

(* The primary has answered, and its configuration has replicas.           *)
PingWithSlaves(p) ==
  /\ pc[p] = "ping"
  /\ \E named \in SUBSET Replicas \ {{}} : slaves' = [slaves EXCEPT ![p] = named]
  /\ At(p, "probe")
  /\ UNCHANGED <<kind, configs, allow, manager, pools, name, own, slaveDialectors, taken, result>>

(* The loop over config.Slaves.  A replica is tested with a connection of  *)
(* its own; the gorm.Open that makes it may fail before it opens anything, *)
(* or leave its pool open.  The connection is closed whatever the test     *)
(* says, and only if the replica has answered and the close has worked     *)
(* does the loop go on.                                                    *)
OpenProbe(p) ==
  /\ pc[p] = "probe" /\ slaves[p] # {}
  /\ \/ \E left \in SUBSET {"probe"} : CloseAndFail(p, {"primary"}, left)
     \/ /\ open' = open \cup {<<own[p], "probe">>}
        /\ At(p, "tested")
        /\ UNCHANGED <<kind, configs, allow, manager, made, stuck, lost, name, own, probing,
                       taken, result>>
CloseProbe(p) ==
  /\ pc[p] = "tested"
  /\ \/ CloseAndFail(p, {"primary", "probe"}, {})
     \/ /\ open' = open \ {<<own[p], "probe">>}
        /\ \E slave \in slaves[p] :
              /\ slaves' = [slaves EXCEPT ![p] = @ \ {slave}]
              /\ slaveDialectors' = [slaveDialectors EXCEPT ![p] = @ \cup {slave}]
        /\ At(p, "probe")
        /\ UNCHANGED <<kind, configs, allow, manager, made, stuck, lost, name, own, taken, result>>

(* db.Use opens the pools of the replicas one after the other.  When one   *)
(* of them fails only the primary is closed, and those that were opened    *)
(* stay open.                                                              *)
Use(p) ==
  /\ pc[p] = "probe" /\ slaves[p] = {}
  /\ \/ \E left \in SUBSET slaveDialectors[p] : CloseAndFail(p, {"primary"}, left)
     \/ /\ open' = open \cup ({own[p]} \X slaveDialectors[p])
        /\ slaveDialectors' = [slaveDialectors EXCEPT ![p] = {}]
        /\ At(p, "opened")
        /\ UNCHANGED <<kind, configs, allow, manager, made, stuck, lost, name, own, slaves,
                       taken, result>>

GormNewClient(p) ==
  /\ kind = "gorm"
  /\ \/ Dial(p) \/ OpenFails(p) \/ Ping(p) \/ PingWithSlaves(p)
     \/ OpenProbe(p) \/ CloseProbe(p) \/ Use(p)

NewClient(p) == RedisNewClient(p) \/ MongoNewClient(p) \/ GormNewClient(p)

----------------------------------------------------------------------------
(* NewManager: the next configured name; one that is empty or taken closes *)
(* everything and fails, and so does an empty configuration.               *)
BootNext ==
  /\ pc[Boot] = "next"
  /\ UNCHANGED <<kind, allow, pools, own, probing>>
  /\ \/ /\ configs # <<>> /\ Head(configs) \in Names
        /\ clients[Head(configs)] = NoClient /\ Head(configs) \notin unavailable
        /\ name' = [name EXCEPT ![Boot] = Head(configs)]
        /\ configs' = Tail(configs)
        /\ At(Boot, "dial")
        /\ UNCHANGED <<manager, taken, result>>
     \/ /\ configs # <<>>
        /\ \/ Head(configs) = NoName
           \/ Head(configs) \in unavailable
           \/ Head(configs) \in Names /\ clients[Head(configs)] # NoClient
        /\ TakeAll(Boot)
        /\ UNCHANGED <<phase, configs, name>>
     \/ /\ configs = <<>>
        /\ phase' = IF Installed = {} /\ unavailable = {} THEN "gone" ELSE "up"
        /\ At(Boot, "idle")
        /\ UNCHANGED <<configs, clients, unavailable, closed, name, taken, result>>

(* A client NewManager has connected goes into the map.                    *)
BootInstall ==
  /\ pc[Boot] = "opened"
  /\ clients' = [clients EXCEPT ![name[Boot]] = own[Boot]]
  /\ own' = [own EXCEPT ![Boot] = NoClient]
  /\ name' = [name EXCEPT ![Boot] = NoName]
  /\ At(Boot, "next")
  /\ UNCHANGED <<kind, configs, allow, phase, unavailable, closed, pools, probing, taken,
                 result>>

(* RegisterClient up to its call of NewClient.                             *)
BeginRegister(p, n) ==
  /\ phase = "up" /\ p # Boot /\ pc[p] = "idle"
  /\ ~closed /\ clients[n] = NoClient
  /\ name' = [name EXCEPT ![p] = n]
  /\ At(p, "dial")
  /\ UNCHANGED <<kind, configs, allow, manager, pools, own, probing, taken, result>>

(* RegisterClient locks again: is the manager closed or the name taken?    *)
LateIfTaken(n) == clients[n] # NoClient
Late(n) == closed \/ clients[n] # NoClient

Refuse(p) ==
  /\ Late(name[p])
  /\ \E bad \in SUBSET PoolsOf(own[p]) : ShutPools(PoolsOf(own[p]), bad, {})
  /\ UNCHANGED manager
Add(p) ==
  /\ ~Late(name[p])
  /\ clients' = [clients EXCEPT ![name[p]] = own[p]]
  /\ unavailable' = unavailable \ {name[p]}
  /\ UNCHANGED <<phase, closed, pools>>

EndRegister(p) ==
  /\ p # Boot /\ pc[p] = "opened"
  /\ Refuse(p) \/ Add(p)
  /\ own' = [own EXCEPT ![p] = NoClient]
  /\ name' = [name EXCEPT ![p] = NoName]
  /\ At(p, "idle")
  /\ UNCHANGED <<kind, configs, allow, probing, taken, result>>

(* Close by its user; a second one returns nil at once.                    *)
BeginClose(p) ==
  /\ phase = "up" /\ p # Boot /\ pc[p] = "idle"
  /\ UNCHANGED <<kind, configs, allow, pools, name, own, probing, phase>>
  /\ \/ ~closed /\ TakeAll(p)
     \/ /\ closed
        /\ result' = [result EXCEPT ![p] = "nil"]
        /\ UNCHANGED <<clients, unavailable, closed, pc, taken>>

(* One client of those taken is closed.  A redis client closes its pool, a *)
(* mongodb client disconnects within five seconds, and a gorm client       *)
(* closes the pools of the replicas and the primary, every one of them     *)
(* also after one has failed.                                              *)
JoinedPrimary(p, bad) == IF \E q \in bad : q[2] = "primary" THEN "error" ELSE result[p]
Joined(p, bad) == IF bad = {} THEN result[p] ELSE "error"

CloseClient(p, c, parts) ==
  LET pls == {q \in PoolsOf(c) : q[2] \in parts} IN
  \E bad \in SUBSET pls :
     /\ ShutPools(pls, bad, {})
     /\ result' = [result EXCEPT ![p] = Joined(p, bad)]
RedisClose(p, c) == kind = "redis" /\ CloseClient(p, c, {"primary"})
MongoClose(p, c) == kind = "mongodb" /\ CloseClient(p, c, {"primary"})
GormClose(p, c) == kind = "gorm" /\ CloseClient(p, c, {"primary"} \cup Replicas)

CloseOne(p) ==
  /\ pc[p] = "closing"
  /\ \E c \in taken[p] :
        /\ RedisClose(p, c) \/ MongoClose(p, c) \/ GormClose(p, c)
        /\ taken' = [taken EXCEPT ![p] = @ \ {c}]
  /\ UNCHANGED <<kind, configs, allow, manager, pc, name, own, probing>>

(* Close returns; NewManager then returns its error.                       *)
EndClose(p) ==
  /\ pc[p] = "closing" /\ taken[p] = {}
  /\ phase' = IF p = Boot THEN "gone" ELSE phase
  /\ At(p, "idle")
  /\ UNCHANGED <<kind, configs, allow, clients, unavailable, closed, pools, name, own, probing,
                 taken, result>>

----------------------------------------------------------------------------
(* The three managers: the same operations in each package.                *)
Boots == BootNext \/ BootInstall
Registers(p) == (\E n \in Names : BeginRegister(p, n)) \/ EndRegister(p)
Closes(p) == BeginClose(p) \/ CloseOne(p) \/ EndClose(p)

RedisBoots == kind = "redis" /\ Boots
GormBoots == kind = "gorm" /\ Boots
MongoBoots == kind = "mongodb" /\ Boots
RedisRegisters(p) == kind = "redis" /\ Registers(p)
GormRegisters(p) == kind = "gorm" /\ Registers(p)
MongoRegisters(p) == kind = "mongodb" /\ Registers(p)
RedisCloses(p) == kind = "redis" /\ Closes(p)
GormCloses(p) == kind = "gorm" /\ Closes(p)
MongoCloses(p) == kind = "mongodb" /\ Closes(p)

Next ==
  \/ RedisBoots \/ GormBoots \/ MongoBoots
  \/ \E p \in Procs : NewClient(p)
  \/ \E p \in Procs : RedisRegisters(p) \/ GormRegisters(p) \/ MongoRegisters(p)
  \/ \E p \in Procs : RedisCloses(p) \/ GormCloses(p) \/ MongoCloses(p)

Spec == Init /\ [][Next]_vars

----------------------------------------------------------------------------
(* The client pools somebody still has to close: those of a client in the  *)
(* map, of one being made, and of those Close has taken.                   *)
Held == Installed \cup {own[p] : p \in Procs} \cup UNION {taken[p] : p \in Procs}

(* No connection pool is open without an owner that will close it: not     *)
(* after a connection test that failed, a refused registration, a          *)
(* NewManager that gave up, nor after a Close.  Two kinds of pools are     *)
(* excepted: one whose Close returned an error, and in the gorm package    *)
(* those of a gorm.Open or a db.Use that failed after it had opened them   *)
(* (db/gorm/client.go:69-72, 115-119, 161-164), which nobody can close any *)
(* more.  (db/gorm/client.go:89-164, db/redis/manager.go:132-141.)         *)
NoPoolLeaks ==
  /\ \A q \in open \ (stuck \cup lost) : q[1] \in Held
  /\ \A q \in lost : kind = "gorm" /\ q[1] \notin Held

(* A manager that has been closed stays empty, also when a registration    *)
(* that began before the Close ends after it.  (db/redis/manager.go:134.)  *)
ClosedStaysEmpty == closed => Installed = {} /\ unavailable = {}

(* Health checks and GetClient tell an unavailable database from a         *)
(* connected one by the map its name is in: never both.                    *)
OneMapPerName == \A n \in unavailable : clients[n] = NoClient

(* The manager and its clients agree, however boot, registrations and      *)
(* Close overlap.  (manager.go and client.go in db/redis, db/gorm and      *)
(* db/mongodb.)                                                            *)
ClientsAreKept == NoPoolLeaks /\ ClosedStaysEmpty /\ OneMapPerName

(* A Close that took the clients and returned nil has closed every pool    *)
(* of theirs: an error of one pool is not lost among those that closed.    *)
(* (db/gorm/client.go:249-286; `stuck' pools of failed attempts to connect *)
(* and of refused registrations are nobody's to report.)                   *)
CloseTellsTheTruth ==
  [][\A p \in Procs : pc[p] = "closing" /\ taken'[p] # taken[p] /\ result'[p] = "nil" =>
        \A c \in taken[p] \ taken'[p] : {q \in open' : q[1] = c} = {}]_vars
=============================================================================
