--------------------------- MODULE DataStoresProofs ---------------------------
(***************************************************************************)
(* Proofs about the data stores of MCServices, for any names,              *)
(* configurations and callers: no connection pool is open without an owner *)
(* that will close it, a closed manager stays empty, and Close tells the   *)
(* truth.                                                                  *)
(*                                                                         *)
(* The invariant says who owns a client: one that is being made belongs to *)
(* its goroutine, one that is made to the map or to a Close, and none to   *)
(* two of them (Unique); and which pools a client has at each stage of its *)
(* making (PoolsFit), so that the ones NewClient or Close shut, and in the *)
(* gorm package those a failing call leaves behind, are all there are.     *)
(***************************************************************************)
EXTENDS MCServices, Sequences, TLAPS

Making == {"ping", "probe", "tested", "opened"}
Places == Making \cup {"idle", "next", "dial", "closing"}

TypeInv ==
  /\ made \in Nat /\ storeKind \in {"redis", "gorm", "mongodb"}
  /\ open \subseteq (1..made) \X DS!Parts /\ stuck \subseteq (1..made) \X DS!Parts
  /\ lost \subseteq (1..made) \X DS!Parts /\ (lost # {} => storeKind = "gorm")
  /\ slaves \in [DS!Procs -> SUBSET Replicas] /\ slaveDialectors \in [DS!Procs -> SUBSET Replicas]
  /\ clients \in [Names -> 0..made] /\ unavailable \subseteq Names
  /\ closed \in BOOLEAN /\ phase \in {"boot", "up", "gone"}
  /\ storePc \in [DS!Procs -> Places]
  /\ own \in [DS!Procs -> 0..made]
  /\ storeTaken \in [DS!Procs -> SUBSET (1..made)]
  /\ name \in [DS!Procs -> Names \cup {NoName}]
  /\ result \in [DS!Procs -> {"none", "nil", "error"}]

(* What a goroutine has at each stage.                                     *)
Stages ==
  \A p \in DS!Procs :
    /\ storePc[p] \in Making <=> own[p] # DS!NoClient
    /\ storePc[p] \in Making \cup {"dial"} => name[p] \in Names
    /\ storePc[p] # "closing" => storeTaken[p] = {}
    /\ storePc[p] \in {"probe", "tested"} => storeKind = "gorm"
    /\ storePc[p] = "next" => p = Boot

(* Until NewManager has returned, it is alone.                             *)
BootAlone ==
  /\ phase = "boot" => /\ \A p \in DS!Procs \ {Boot} : storePc[p] = "idle"
                       /\ storePc[Boot] # "idle"
                       /\ closed <=> storePc[Boot] = "closing"
  /\ phase # "boot" => storePc[Boot] = "idle"
  /\ storePc[Boot] \in Making \cup {"dial"} =>
       clients[name[Boot]] = DS!NoClient /\ name[Boot] \notin unavailable

Has(c) ==
  \/ \E n \in Names : clients[n] = c
  \/ \E p \in DS!Procs : own[p] = c
  \/ \E p \in DS!Procs : c \in storeTaken[p]

Unique ==
  /\ \A p, r \in DS!Procs : own[p] # DS!NoClient /\ own[p] = own[r] => p = r
  /\ \A p, r \in DS!Procs : own[p] \notin storeTaken[r]
  /\ \A p \in DS!Procs, n \in Names : own[p] # DS!NoClient => clients[n] # own[p]
  /\ \A p \in DS!Procs, n \in Names : clients[n] \notin storeTaken[p]
  /\ \A p, r \in DS!Procs : p # r => storeTaken[p] \cap storeTaken[r] = {}

(* Pools that nobody will close any more.                                  *)
Stray == stuck \cup lost

PoolsFit ==
  \A q \in open \ Stray :
    /\ Has(q[1])
    /\ q[2] = "probe" =>
         storeKind = "gorm" /\ \E p \in DS!Procs : own[p] = q[1] /\ storePc[p] = "tested"
    /\ q[2] \in Replicas =>
         /\ storeKind = "gorm"
         /\ \A p \in DS!Procs : own[p] = q[1] => storePc[p] = "opened"

StrayIsNobodys == \A q \in Stray : ~Has(q[1])

IInv == /\ TypeInv /\ Stages /\ BootAlone /\ Unique /\ PoolsFit /\ StrayIsNobodys
        /\ DS!ClosedStaysEmpty /\ DS!OneMapPerName

-----------------------------------------------------------------------------
LEMMA InitIInv == DS!Init => IInv
<1> SUFFICES ASSUME DS!Init PROVE IInv
  OBVIOUS
<1> USE DEF DS!Init, DS!NoClient
<1>1. TypeInv
  <2>1. clients \in [Names -> 0..made] /\ own \in [DS!Procs -> 0..made]
    OBVIOUS
  <2>2. storePc \in [DS!Procs -> Places] /\ storeTaken \in [DS!Procs -> SUBSET (1..made)]
    BY DEF Places
  <2> QED  BY <2>1, <2>2 DEF TypeInv
<1>2. Stages
  BY DEF Stages, Making
<1>3. BootAlone
  BY DEF BootAlone, Making, DS!Procs
<1>4. Unique
  BY DEF Unique
<1>5. PoolsFit /\ StrayIsNobodys
  BY DEF PoolsFit, StrayIsNobodys, Stray
<1>6. DS!ClosedStaysEmpty
  BY DEF DS!ClosedStaysEmpty, DS!Installed
<1>7. DS!OneMapPerName
  BY DEF DS!OneMapPerName
<1> QED  BY <1>1, <1>2, <1>3, <1>4, <1>5, <1>6, <1>7 DEF IInv

(* The pools S of the client p is making are shut, `bad' of them in vain,  *)
(* some are left behind, and those are all the client has.                 *)
Shuts(p, S, bad, left) ==
  /\ S \subseteq open /\ bad \subseteq S /\ left \subseteq {own[p]} \X DS!Parts
  /\ \A q \in S \cup left : q[1] = own[p] /\ own[p] # DS!NoClient
  /\ \A q \in open \ Stray : q[1] = own[p] => q \in S \cup left
  /\ left # {} => storeKind = "gorm"
  /\ open' = (open \ (S \ bad)) \cup left /\ stuck' = stuck \cup bad
  /\ lost' = lost \cup left /\ made' = made

(* p lets go of the client it was making, and the rest keeps its owner.    *)
LEMMA ShutFits ==
  ASSUME IInv, NEW p \in DS!Procs, NEW S, NEW bad, NEW left, Shuts(p, S, bad, left),
         own' = [own EXCEPT ![p] = DS!NoClient], storeKind' = storeKind,
         \A r \in DS!Procs \ {p} : storePc'[r] = storePc[r],
         \A c \in 1..made : Has(c)' <=> Has(c) /\ c # own[p]
  PROVE  PoolsFit' /\ StrayIsNobodys'
<1> USE DEF IInv, DS!NoClient, Shuts
<1>1. own' \in [DS!Procs -> 0..made] /\ own'[p] = DS!NoClient
      /\ \A r \in DS!Procs \ {p} : own'[r] = own[r]
  BY DEF TypeInv
<1>2. \A q \in open' \cup Stray' : q[1] \in 1..made
  BY DEF TypeInv, Stray
<1>3. PoolsFit'
  <2> SUFFICES ASSUME NEW q \in open' \ Stray'
               PROVE  /\ Has(q[1])'
                      /\ q[2] = "probe" =>
                           /\ storeKind = "gorm"
                           /\ \E r \in DS!Procs : own'[r] = q[1] /\ storePc'[r] = "tested"
                      /\ q[2] \in Replicas =>
                           /\ storeKind = "gorm"
                           /\ \A r \in DS!Procs : own'[r] = q[1] => storePc'[r] = "opened"
    BY DEF PoolsFit
  <2>1. q \in open \ Stray /\ q[1] # own[p] /\ q[1] # DS!NoClient
    BY <1>2 DEF Stray
  <2>2. Has(q[1])'
    BY <2>1, <1>2 DEF PoolsFit
  <2> QED  BY <2>1, <2>2, <1>1 DEF PoolsFit
<1>4. StrayIsNobodys'
  <2> SUFFICES ASSUME NEW q \in Stray' PROVE ~Has(q[1])'
    BY DEF StrayIsNobodys
  <2>1. CASE q[1] = own[p]
    BY <2>1, <1>2
  <2>2. CASE q[1] # own[p]
    BY <2>2, <1>2 DEF StrayIsNobodys, Stray
  <2> QED  BY <2>1, <2>2
<1> QED  BY <1>3, <1>4

(* Close takes the clients: those that were in the map are p's.            *)
LEMMA TakeAllInv ==
  ASSUME IInv, NEW p \in DS!Procs, NEW S, NEW bad, NEW left, Shuts(p, S, bad, left),
         own' = [own EXCEPT ![p] = DS!NoClient], DS!TakeAll(p),
         slaves' \in [DS!Procs -> SUBSET Replicas],
         slaveDialectors' \in [DS!Procs -> SUBSET Replicas],
         ~closed, storePc[p] # "closing", name' \in [DS!Procs -> Names \cup {NoName}],
         \A r \in DS!Procs \ {p} : name'[r] = name[r],
         p = Boot \/ phase = "up", p = Boot => phase = "boot",
         UNCHANGED <<storeKind, phase>>
  PROVE  IInv'
<1> USE DEF IInv, DS!TakeAll, DS!At, DS!NoClient
<1>1. own' \in [DS!Procs -> 0..made] /\ own'[p] = DS!NoClient
      /\ \A r \in DS!Procs \ {p} : own'[r] = own[r]
  BY DEF TypeInv
<1>2. storePc' \in [DS!Procs -> Places] /\ storePc'[p] = "closing"
      /\ \A r \in DS!Procs \ {p} : storePc'[r] = storePc[r]
  BY DEF TypeInv, Places
<1>3. storeTaken' \in [DS!Procs -> SUBSET (1..made)] /\ storeTaken'[p] = DS!Installed
      /\ \A r \in DS!Procs \ {p} : storeTaken'[r] = storeTaken[r]
  BY DEF TypeInv, DS!Installed
<1>4. storeTaken[p] = {}
  BY DEF Stages
<1>5. TypeInv'
  BY <1>1, <1>2, <1>3 DEF TypeInv, Shuts
<1>6. Stages'
  BY <1>1, <1>2, <1>3 DEF Stages, Making
<1>7. BootAlone'
  BY <1>2 DEF BootAlone, Making
<1>8. Unique'
  BY <1>1, <1>3, <1>4 DEF Unique, DS!Installed, TypeInv
<1>9. \A c \in 1..made : Has(c)' <=> Has(c) /\ c # own[p]
  <2> SUFFICES ASSUME NEW c \in 1..made PROVE Has(c)' <=> Has(c) /\ c # own[p]
    OBVIOUS
  <2>1. Has(c)' <=> c \in DS!Installed \/ (\E r \in DS!Procs \ {p} : own[r] = c)
                    \/ \E r \in DS!Procs \ {p} : c \in storeTaken[r]
    BY <1>1, <1>3 DEF Has
  <2>2. c \in DS!Installed <=> \E n \in Names : clients[n] = c
    BY DEF DS!Installed
  <2> QED  BY <2>1, <2>2, <1>4 DEF Has, TypeInv, Unique
<1>11. PoolsFit' /\ StrayIsNobodys'
  BY <1>2, <1>9, ShutFits
<1>12. DS!ClosedStaysEmpty' /\ DS!OneMapPerName'
  BY DEF DS!ClosedStaysEmpty, DS!OneMapPerName, DS!Installed
<1> QED  BY <1>5, <1>6, <1>7, <1>8, <1>11, <1>12

(* NewClient has failed, or RegisterClient refuses what NewClient returned. *)
GivesUp(p) ==
  \/ DS!NewClientFails(p)
  \/ /\ p # Boot /\ own' = [own EXCEPT ![p] = DS!NoClient] /\ DS!At(p, "idle")
     /\ name' = [name EXCEPT ![p] = NoName]
     /\ UNCHANGED <<storeKind, configs, allow, DS!probing, DS!manager, storeTaken, result>>

(* A goroutine gives up its client with every pool of it shut.             *)
LEMMA FailsInv ==
  ASSUME IInv, NEW p \in DS!Procs, NEW S, NEW bad, NEW left, Shuts(p, S, bad, left),
         storePc[p] \in Making \cup {"dial"}, GivesUp(p)
  PROVE  IInv'
<1> USE DEF IInv, GivesUp, DS!NewClientFails, DS!NoClient
<1>1. own' \in [DS!Procs -> 0..made] /\ own'[p] = DS!NoClient
      /\ \A r \in DS!Procs \ {p} : own'[r] = own[r]
  BY DEF TypeInv
<1>0. /\ slaves' \in [DS!Procs -> SUBSET Replicas]
      /\ slaveDialectors' \in [DS!Procs -> SUBSET Replicas]
  BY DEF TypeInv, DS!probing
<1>6. name' \in [DS!Procs -> Names \cup {NoName}]
      /\ \A r \in DS!Procs \ {p} : name'[r] = name[r]
  BY DEF TypeInv
<1>2. p = Boot => phase = "boot" /\ ~closed
  BY DEF BootAlone, Making
<1>3. p # Boot => phase = "up" \/ phase = "gone"
  BY DEF BootAlone, Making, TypeInv
<1>4. CASE p = Boot /\ ~allow /\ DS!TakeAll(p) /\ UNCHANGED phase
  BY <1>0, <1>2, <1>4, <1>6, TakeAllInv DEF Making, TypeInv
<1>5. CASE UNCHANGED <<phase, clients, closed, storeTaken, result, storeKind>>
           /\ \/ p = Boot /\ unavailable' = unavailable \cup {name[p]} /\ DS!At(p, "next")
              \/ p # Boot /\ unavailable' = unavailable /\ DS!At(p, "idle")
  <2> USE <1>5
  <2>1. storePc' \in [DS!Procs -> Places] /\ storePc'[p] \in {"next", "idle"}
        /\ \A r \in DS!Procs \ {p} : storePc'[r] = storePc[r]
    BY DEF TypeInv, Places, DS!At
  <2>2. name[p] \in Names
    BY DEF Stages
  <2>3. TypeInv'
    BY <1>0, <1>1, <1>6, <2>1, <2>2 DEF TypeInv, Shuts
  <2>4. Stages'
    BY <1>1, <1>6, <2>1 DEF Stages, Making, DS!At, TypeInv
  <2>5. BootAlone'
    BY <1>2, <1>3, <1>6, <2>1 DEF BootAlone, Making, DS!Procs, DS!At, TypeInv
  <2>6. Unique'
    <3>1. \A r, t \in DS!Procs : own'[r] # DS!NoClient /\ own'[r] = own'[t] => r = t
      BY <1>1 DEF Unique
    <3>2. \A r, t \in DS!Procs : own'[r] \notin storeTaken[t]
      BY <1>1 DEF Unique, TypeInv
    <3> QED  BY <1>1, <3>1, <3>2 DEF Unique
  <2>7. \A c \in 1..made : Has(c)' <=> Has(c) /\ c # own[p]
    <3> SUFFICES ASSUME NEW c \in 1..made PROVE Has(c)' <=> Has(c) /\ c # own[p]
      OBVIOUS
    <3> QED  BY <1>1 DEF Has, Unique
  <2>8. PoolsFit' /\ StrayIsNobodys'
    BY <2>1, <2>7, ShutFits
  <2>9. DS!ClosedStaysEmpty' /\ DS!OneMapPerName'
    BY <1>2, <2>2 DEF DS!ClosedStaysEmpty, DS!OneMapPerName, BootAlone, DS!Installed, Making
  <2> QED  BY <2>3, <2>4, <2>5, <2>6, <2>8, <2>9
<1> QED  BY <1>4, <1>5 DEF DS!manager

(* The parts NewClient closes before it fails are all that its client has. *)
LEMMA CloseAndFailInv ==
  ASSUME IInv, NEW p \in DS!Procs, NEW parts, NEW left, storePc[p] \in Making,
         DS!CloseAndFail(p, parts, left), left \subseteq DS!Parts, left # {} => storeKind = "gorm",
         "primary" \in parts \cup left, storePc[p] = "tested" => "probe" \in parts, storePc[p] # "opened"
  PROVE  IInv'
<1> DEFINE S == {q \in DS!PoolsOf(own[p]) : q[2] \in parts}
<1>1. PICK bad \in SUBSET S : DS!ShutPools(S, bad, {own[p]} \X left)
  BY DEF DS!CloseAndFail
<1>2. own[p] # DS!NoClient
  BY DEF IInv, Stages
<1>3. \A q \in open \ Stray : q[1] = own[p] => q \in S \cup ({own[p]} \X left)
  <2> SUFFICES ASSUME NEW q \in open \ Stray, q[1] = own[p] PROVE q[2] \in parts \cup left
    <3>1. \A q \in open : q = <<q[1], q[2]>>
      BY DEF IInv, TypeInv
    <3> QED  BY <3>1 DEF DS!PoolsOf
  <2>1. q[2] \in DS!Parts
    BY DEF IInv, TypeInv
  <2>2. q[2] = "probe" => storePc[p] = "tested"
    BY <1>2 DEF IInv, PoolsFit, Unique
  <2>3. q[2] \notin Replicas
    BY <1>2 DEF IInv, PoolsFit
  <2> QED  BY <2>1, <2>2, <2>3 DEF DS!Parts
<1>4. Shuts(p, S, bad, {own[p]} \X left)
  BY <1>1, <1>2, <1>3 DEF Shuts, DS!ShutPools, DS!PoolsOf
<1> QED  BY <1>4, FailsInv DEF DS!CloseAndFail, GivesUp

(* A step of NewClient that succeeds: the client goes on with one pool     *)
(* more, or one pool less.                                                 *)
LEMMA DialInv ==
  ASSUME IInv, NEW p \in DS!Procs, DS!Dial(p)
  PROVE  IInv'
<1> USE DEF IInv, DS!Dial, DS!NoClient, DS!At
<1>1. CASE DS!NewClientFails(p) /\ UNCHANGED DS!pools
  <2>1. Shuts(p, {}, {}, {})
    <3>1. \A q \in open : q[1] # own[p]
      BY DEF Stages, Making, TypeInv
    <3> QED  BY <1>1, <3>1 DEF Shuts, DS!pools
  <2> QED  BY <1>1, <2>1, FailsInv DEF GivesUp
<1>2. CASE /\ made' = made + 1
           /\ own' = [own EXCEPT ![p] = made + 1]
           /\ open' = open \cup {<<made + 1, "primary">>}
           /\ DS!At(p, "ping")
           /\ UNCHANGED <<storeKind, configs, allow, DS!manager, stuck, lost, name,
                         DS!probing, storeTaken, result>>
  <2> USE <1>2 DEF DS!manager, DS!probing
  <2>1. own' \in [DS!Procs -> 0..made'] /\ own'[p] = made + 1
        /\ \A r \in DS!Procs \ {p} : own'[r] = own[r]
    BY DEF TypeInv
  <2>2. storePc' \in [DS!Procs -> Places] /\ storePc'[p] = "ping"
        /\ \A r \in DS!Procs \ {p} : storePc'[r] = storePc[r]
    BY DEF TypeInv, Places, Making
  <2>3. own[p] = DS!NoClient
    BY DEF Stages, Making
  <2>4. TypeInv'
    BY <2>1, <2>2 DEF TypeInv, DS!Parts
  <2>5. Stages'
    BY <2>1, <2>2 DEF Stages, Making, TypeInv
  <2>6. BootAlone'
    BY <2>2 DEF BootAlone, Making, DS!Procs
  <2>7. Unique'
    BY <2>1 DEF Unique, TypeInv
  <2>8. \A c \in 1..made : Has(c)' <=> Has(c)
    BY <2>1, <2>3 DEF Has, TypeInv
  <2>9. PoolsFit'
    <3> SUFFICES ASSUME NEW q \in open' \ Stray'
                 PROVE  /\ Has(q[1])'
                        /\ q[2] = "probe" =>
                             /\ storeKind = "gorm"
                             /\ \E r \in DS!Procs : own'[r] = q[1] /\ storePc'[r] = "tested"
                        /\ q[2] \in Replicas =>
                             /\ storeKind = "gorm"
                             /\ \A r \in DS!Procs : own'[r] = q[1] => storePc'[r] = "opened"
      BY DEF PoolsFit
    <3>1. CASE q = <<made + 1, "primary">>
      BY <2>1, <3>1, StoresFit DEF Has, DS!StoreAssumption
    <3>2. CASE q \in open \ Stray
      <4>1. q[1] \in 1..made
        BY <3>2 DEF TypeInv
      <4>2. Has(q[1])'
        BY <3>2, <4>1, <2>8 DEF PoolsFit
      <4>3. storePc[p] # "tested"
        OBVIOUS
      <4>4. ASSUME q[2] = "probe"
            PROVE  storeKind = "gorm" /\ \E r \in DS!Procs : own'[r] = q[1] /\ storePc'[r] = "tested"
        <5>1. PICK r \in DS!Procs : own[r] = q[1] /\ storePc[r] = "tested" /\ storeKind = "gorm"
          BY <3>2, <4>4 DEF PoolsFit
        <5>2. r # p
          BY <4>3, <5>1
        <5> QED  BY <2>1, <2>2, <5>1, <5>2
      <4>5. ASSUME q[2] \in Replicas
            PROVE  storeKind = "gorm" /\ \A r \in DS!Procs : own'[r] = q[1] => storePc'[r] = "opened"
        BY <2>1, <2>2, <3>2, <4>1, <4>5 DEF PoolsFit, TypeInv
      <4> QED  BY <4>2, <4>4, <4>5
    <3> QED  BY <3>1, <3>2 DEF Stray
  <2>10. StrayIsNobodys'
    BY <2>8 DEF StrayIsNobodys, TypeInv, Stray
  <2>11. DS!ClosedStaysEmpty' /\ DS!OneMapPerName'
    BY DEF DS!ClosedStaysEmpty, DS!OneMapPerName, DS!Installed
  <2> QED  BY <2>4, <2>5, <2>6, <2>7, <2>9, <2>10, <2>11
<1> QED  BY <1>1, <1>2

(* The client p is making moves on: its pools fit where it has got to.     *)
LEMMA MovesOn ==
  ASSUME IInv, NEW p \in DS!Procs, NEW l \in Making, storePc[p] \in Making, DS!At(p, l),
         l \in {"probe", "tested"} => storeKind = "gorm",
         open' \subseteq open \cup ({own[p]} \X ({"probe"} \cup Replicas)),
         storePc[p] = "tested" => <<own[p], "probe">> \notin open',
         <<own[p], "probe">> \in open' \ open => storeKind = "gorm" /\ l = "tested",
         open' \cap ({own[p]} \X Replicas) \subseteq open \/ (storeKind = "gorm" /\ l = "opened"),
         storePc[p] # "opened",
         slaves' \in [DS!Procs -> SUBSET Replicas],
         slaveDialectors' \in [DS!Procs -> SUBSET Replicas],
         UNCHANGED <<storeKind, configs, allow, DS!manager, made, stuck, lost, name, own,
                     storeTaken, result>>
  PROVE  IInv'
<1> USE DEF IInv, DS!At, DS!NoClient, DS!manager
<1>1. storePc' \in [DS!Procs -> Places] /\ storePc'[p] = l
      /\ \A r \in DS!Procs \ {p} : storePc'[r] = storePc[r]
  BY DEF TypeInv, Places
<1>2. own[p] \in 1..made
  BY DEF Stages, TypeInv
<1>3. TypeInv'
  BY <1>1, <1>2 DEF TypeInv, DS!Parts
<1>4. Stages'
  BY <1>1 DEF Stages, Making
<1>5. BootAlone'
  BY <1>1 DEF BootAlone, Making, DS!Procs
<1>6. Unique'
  BY DEF Unique
<1>7. \A c \in 1..made : Has(c)' <=> Has(c)
  BY DEF Has
<1>8. PoolsFit'
  <2> SUFFICES ASSUME NEW q \in open' \ Stray'
               PROVE  /\ Has(q[1])'
                      /\ q[2] = "probe" =>
                           /\ storeKind = "gorm"
                           /\ \E r \in DS!Procs : own[r] = q[1] /\ storePc'[r] = "tested"
                      /\ q[2] \in Replicas =>
                           /\ storeKind = "gorm"
                           /\ \A r \in DS!Procs : own[r] = q[1] => storePc'[r] = "opened"
    BY DEF PoolsFit
  <2>1. CASE q \in open' \ open
    BY <1>1, <1>2, <1>7, <2>1 DEF Has, Unique
  <2>2. CASE q \in open \ Stray
    <3>1. Has(q[1])'
      BY <1>7, <2>2 DEF PoolsFit, TypeInv
    <3>2. ASSUME q[2] = "probe"
          PROVE  storeKind = "gorm" /\ \E r \in DS!Procs : own[r] = q[1] /\ storePc'[r] = "tested"
      <4>1. PICK r \in DS!Procs : own[r] = q[1] /\ storePc[r] = "tested" /\ storeKind = "gorm"
        BY <2>2, <3>2 DEF PoolsFit
      <4>2. q = <<q[1], "probe">>
        BY <2>2, <3>2 DEF TypeInv
      <4> QED  BY <1>1, <4>1, <4>2
    <3>3. ASSUME q[2] \in Replicas
          PROVE  storeKind = "gorm" /\ \A r \in DS!Procs : own[r] = q[1] => storePc'[r] = "opened"
      BY <1>1, <2>2, <3>3 DEF PoolsFit
    <3> QED  BY <3>1, <3>2, <3>3
  <2> QED  BY <2>1, <2>2 DEF Stray
<1>9. StrayIsNobodys'
  BY <1>7 DEF StrayIsNobodys, TypeInv, Stray
<1>10. DS!ClosedStaysEmpty' /\ DS!OneMapPerName'
  BY DEF DS!ClosedStaysEmpty, DS!OneMapPerName, DS!Installed
<1> QED  BY <1>3, <1>4, <1>5, <1>6, <1>8, <1>9, <1>10

LEMMA NewClientInv ==
  ASSUME IInv, NEW p \in DS!Procs, DS!NewClient(p)
  PROVE  IInv'
<1>0. /\ slaves \in [DS!Procs -> SUBSET Replicas]
      /\ slaveDialectors \in [DS!Procs -> SUBSET Replicas]
      /\ Replicas \cap {"primary", "probe"} = {}
  BY StoresFit DEF IInv, TypeInv, DS!StoreAssumption
<1>1. CASE DS!Dial(p)
  BY <1>1, DialInv
<1>2. CASE DS!Ping(p)
  <2>1. CASE DS!CloseAndFail(p, {"primary"}, {})
    BY <1>2, <2>1, CloseAndFailInv DEF DS!Ping, Making
  <2>2. CASE /\ DS!At(p, "opened")
             /\ UNCHANGED <<storeKind, configs, allow, DS!manager, DS!pools, name, own,
                            DS!probing, storeTaken, result>>
    BY <1>0, <1>2, <2>2, MovesOn DEF DS!Ping, Making, DS!pools, DS!probing
  <2> QED  BY <1>2, <2>1, <2>2 DEF DS!Ping
<1>3. CASE storeKind = "gorm" /\ DS!OpenFails(p)
  BY <1>3, CloseAndFailInv DEF DS!OpenFails, Making, DS!Parts
<1>4. CASE storeKind = "gorm" /\ DS!PingWithSlaves(p)
  <2>1. slaves' \in [DS!Procs -> SUBSET Replicas]
    BY <1>0, <1>4 DEF DS!PingWithSlaves
  <2> QED  BY <1>0, <1>4, <2>1, MovesOn DEF DS!PingWithSlaves, Making, DS!pools
<1>5. CASE storeKind = "gorm" /\ DS!OpenProbe(p)
  <2>1. CASE \E left \in SUBSET {"probe"} : DS!CloseAndFail(p, {"primary"}, left)
    <3>1. PICK left \in SUBSET {"probe"} : DS!CloseAndFail(p, {"primary"}, left)
      BY <2>1
    <3>2. left \subseteq DS!Parts
      BY DEF DS!Parts
    <3>3. storePc[p] = "probe" /\ storePc[p] \in Making /\ storeKind = "gorm"
      BY <1>5 DEF DS!OpenProbe, Making
    <3> QED  BY <3>1, <3>2, <3>3, CloseAndFailInv
  <2>2. CASE /\ open' = open \cup {<<own[p], "probe">>}
             /\ DS!At(p, "tested")
             /\ UNCHANGED <<storeKind, configs, allow, DS!manager, made, stuck, lost, name, own,
                            DS!probing, storeTaken, result>>
    <3>1. /\ open' \cap ({own[p]} \X Replicas) \subseteq open
          /\ open' \subseteq open \cup ({own[p]} \X ({"probe"} \cup Replicas))
      BY <1>0, <2>2
    <3> QED  BY <1>0, <1>5, <2>2, <3>1, MovesOn DEF DS!OpenProbe, Making, DS!probing
  <2> QED  BY <1>5, <2>1, <2>2 DEF DS!OpenProbe
<1>6. CASE storeKind = "gorm" /\ DS!CloseProbe(p)
  <2>1. CASE DS!CloseAndFail(p, {"primary", "probe"}, {})
    BY <1>6, <2>1, CloseAndFailInv DEF DS!CloseProbe, Making
  <2>2. CASE /\ open' = open \ {<<own[p], "probe">>}
             /\ \E slave \in slaves[p] :
                   /\ slaves' = [slaves EXCEPT ![p] = @ \ {slave}]
                   /\ slaveDialectors' = [slaveDialectors EXCEPT ![p] = @ \cup {slave}]
             /\ DS!At(p, "probe")
             /\ UNCHANGED <<storeKind, configs, allow, DS!manager, made, stuck, lost, name, own,
                            storeTaken, result>>
    <3>1. /\ slaves' \in [DS!Procs -> SUBSET Replicas]
          /\ slaveDialectors' \in [DS!Procs -> SUBSET Replicas]
      BY <1>0, <2>2
    <3> QED  BY <1>6, <2>2, <3>1, MovesOn DEF DS!CloseProbe, Making
  <2> QED  BY <1>6, <2>1, <2>2 DEF DS!CloseProbe
<1>7. CASE storeKind = "gorm" /\ DS!Use(p)
  <2>1. CASE \E left \in SUBSET slaveDialectors[p] : DS!CloseAndFail(p, {"primary"}, left)
    <3>1. PICK left \in SUBSET slaveDialectors[p] : DS!CloseAndFail(p, {"primary"}, left)
      BY <2>1
    <3>2. left \subseteq DS!Parts
      BY <1>0 DEF DS!Parts
    <3>3. storePc[p] = "probe" /\ storePc[p] \in Making /\ storeKind = "gorm"
      BY <1>7 DEF DS!Use, Making
    <3> QED  BY <3>1, <3>2, <3>3, CloseAndFailInv
  <2>2. CASE /\ open' = open \cup ({own[p]} \X slaveDialectors[p])
             /\ slaveDialectors' = [slaveDialectors EXCEPT ![p] = {}]
             /\ DS!At(p, "opened")
             /\ UNCHANGED <<storeKind, configs, allow, DS!manager, made, stuck, lost, name, own,
                            slaves, storeTaken, result>>
    <3>1. slaveDialectors' \in [DS!Procs -> SUBSET Replicas] /\ slaveDialectors[p] \subseteq Replicas
      BY <1>0, <2>2
    <3>2. <<own[p], "probe">> \notin open' \ open
      BY <1>0, <2>2, <3>1
    <3> QED  BY <1>0, <1>7, <2>2, <3>1, <3>2, MovesOn DEF DS!Use, Making
  <2> QED  BY <1>7, <2>1, <2>2 DEF DS!Use
<1> QED  BY <1>1, <1>2, <1>3, <1>4, <1>5, <1>6, <1>7
         DEF DS!NewClient, DS!RedisNewClient, DS!MongoNewClient, DS!GormNewClient

(* A client goes from its goroutine into the map.                          *)
LEMMA InstallInv ==
  ASSUME IInv, NEW p \in DS!Procs, storePc[p] = "opened", clients[name[p]] = DS!NoClient, ~closed,
         clients' = [clients EXCEPT ![name[p]] = own[p]],
         unavailable' \subseteq unavailable, name[p] \notin unavailable',
         own' = [own EXCEPT ![p] = DS!NoClient],
         p = Boot => DS!At(p, "next"), p # Boot => DS!At(p, "idle"),
         name' = [name EXCEPT ![p] = NoName],
         UNCHANGED <<storeKind, phase, closed, DS!pools, DS!probing, storeTaken, result>>
  PROVE  IInv'
<1> USE DEF IInv, DS!At, DS!NoClient, DS!pools, DS!probing
<1>1. own' \in [DS!Procs -> 0..made] /\ own'[p] = DS!NoClient
      /\ \A r \in DS!Procs \ {p} : own'[r] = own[r]
  BY DEF TypeInv
<1>2. /\ storePc' \in [DS!Procs -> Places]
      /\ (p = Boot => storePc'[p] = "next")
      /\ (p # Boot => storePc'[p] = "idle")
      /\ \A r \in DS!Procs \ {p} : storePc'[r] = storePc[r]
  BY DEF TypeInv, Places
<1>0. name' \in [DS!Procs -> Names \cup {NoName}]
      /\ \A r \in DS!Procs \ {p} : name'[r] = name[r]
  BY DEF TypeInv
<1>3. own[p] \in 1..made /\ name[p] \in Names
  BY DEF Stages, TypeInv, Making
<1>4. clients' \in [Names -> 0..made] /\ clients'[name[p]] = own[p]
      /\ \A n \in Names \ {name[p]} : clients'[n] = clients[n]
  BY <1>3 DEF TypeInv
<1>5. TypeInv'
  BY <1>0, <1>1, <1>2, <1>4 DEF TypeInv
<1>6. Stages'
  BY <1>0, <1>1, <1>2 DEF Stages, Making
<1>7. BootAlone'
  BY <1>0, <1>2 DEF BootAlone, Making, DS!Procs
<1>8. Unique'
  BY <1>1, <1>3, <1>4 DEF Unique
<1>9. \A c \in 1..made : Has(c)' <=> Has(c)
  <2> SUFFICES ASSUME NEW c \in 1..made PROVE Has(c)' <=> Has(c)
    OBVIOUS
  <2>1. CASE c = own[p]
    BY <1>3, <1>4, <2>1 DEF Has
  <2>2. CASE c # own[p]
    <3>1. (\E n \in Names : clients'[n] = c) <=> \E n \in Names : clients[n] = c
      BY <1>3, <1>4, <2>2
    <3>2. (\E r \in DS!Procs : own'[r] = c) <=> \E r \in DS!Procs : own[r] = c
      BY <1>1, <2>2
    <3> QED  BY <3>1, <3>2 DEF Has
  <2> QED  BY <2>1, <2>2
<1>10. PoolsFit'
  <2> SUFFICES ASSUME NEW q \in open \ Stray
               PROVE  /\ Has(q[1])'
                      /\ q[2] = "probe" =>
                           /\ storeKind = "gorm"
                           /\ \E r \in DS!Procs : own'[r] = q[1] /\ storePc'[r] = "tested"
                      /\ q[2] \in Replicas =>
                           /\ storeKind = "gorm"
                           /\ \A r \in DS!Procs : own'[r] = q[1] => storePc'[r] = "opened"
    BY DEF PoolsFit, Stray
  <2>1. q[1] \in 1..made
    BY DEF TypeInv
  <2>2. Has(q[1])'
    BY <1>9, <2>1 DEF PoolsFit
  <2> QED  BY <1>1, <1>2, <2>1, <2>2 DEF PoolsFit
<1>11. StrayIsNobodys'
  BY <1>9 DEF StrayIsNobodys, TypeInv, Stray
<1>12. DS!ClosedStaysEmpty' /\ DS!OneMapPerName'
  BY <1>3, <1>4 DEF DS!ClosedStaysEmpty, DS!OneMapPerName
<1> QED  BY <1>5, <1>6, <1>7, <1>8, <1>10, <1>11, <1>12

(* A step that leaves every client and every pool where it is.             *)
LEMMA NobodyMoves ==
  ASSUME IInv, NEW p \in DS!Procs, storePc[p] \notin Making, storePc' \in [DS!Procs -> Places],
         \A r \in DS!Procs \ {p} : storePc'[r] = storePc[r],
         UNCHANGED <<storeKind, clients, unavailable, closed, DS!pools, own, storeTaken>>
  PROVE  Unique' /\ PoolsFit' /\ StrayIsNobodys' /\ DS!ClosedStaysEmpty' /\ DS!OneMapPerName'
<1> USE DEF IInv, DS!NoClient, DS!pools
<1>1. own[p] = DS!NoClient
  BY DEF Stages
<1>2. Unique' /\ StrayIsNobodys' /\ DS!ClosedStaysEmpty' /\ DS!OneMapPerName'
  BY DEF Unique, StrayIsNobodys, DS!ClosedStaysEmpty, DS!OneMapPerName, Has, DS!Installed, Stray
<1>3. PoolsFit'
  <2> SUFFICES ASSUME NEW q \in open \ Stray
               PROVE  /\ Has(q[1])
                      /\ q[2] = "probe" =>
                           /\ storeKind = "gorm"
                           /\ \E r \in DS!Procs : own[r] = q[1] /\ storePc'[r] = "tested"
                      /\ q[2] \in Replicas =>
                           /\ storeKind = "gorm"
                           /\ \A r \in DS!Procs : own[r] = q[1] => storePc'[r] = "opened"
    BY DEF PoolsFit, Has, Stray
  <2>1. q[1] \in 1..made
    BY DEF TypeInv
  <2> QED  BY <1>1, <2>1 DEF PoolsFit
<1> QED  BY <1>2, <1>3

LEMMA BootNextInv == ASSUME IInv, DS!BootNext PROVE IInv'
<1> USE DEF IInv, DS!BootNext, DS!At, DS!NoClient, Making
<1>1. Boot \in DS!Procs /\ own[Boot] = DS!NoClient /\ storePc[Boot] = "next" /\ phase = "boot" /\ ~closed
  BY DEF DS!Procs, Stages, BootAlone
<1>2. CASE /\ Head(configs) \in Names
           /\ clients[Head(configs)] = DS!NoClient /\ Head(configs) \notin unavailable
           /\ name' = [name EXCEPT ![Boot] = Head(configs)]
           /\ DS!At(Boot, "dial")
           /\ UNCHANGED <<DS!manager, storeTaken, result>>
  <2> USE <1>2 DEF DS!manager
  <2>1. storePc' \in [DS!Procs -> Places] /\ storePc'[Boot] = "dial" /\ name'[Boot] = Head(configs)
        /\ \A r \in DS!Procs \ {Boot} : storePc'[r] = storePc[r] /\ name'[r] = name[r]
    BY <1>1 DEF TypeInv, Places
  <2>2. TypeInv'
    BY <1>1, <2>1 DEF TypeInv, DS!pools, DS!probing
  <2>3. Stages' /\ BootAlone'
    BY <1>1, <2>1 DEF Stages, BootAlone
  <2> QED  BY <1>1, <2>1, <2>2, <2>3, NobodyMoves
<1>3. CASE DS!TakeAll(Boot) /\ UNCHANGED <<phase, configs, name>>
  <2>1. Shuts(Boot, {}, {}, {})
    BY <1>1, <1>3 DEF Shuts, TypeInv, DS!pools
  <2>2. own' = [own EXCEPT ![Boot] = DS!NoClient]
    BY <1>1 DEF TypeInv
  <2> QED  BY <1>1, <1>3, <2>1, <2>2, TakeAllInv DEF TypeInv, DS!probing
<1>4. CASE /\ phase' = IF DS!Installed = {} /\ unavailable = {} THEN "gone" ELSE "up"
           /\ DS!At(Boot, "idle")
           /\ UNCHANGED <<configs, clients, unavailable, closed, name, storeTaken, result>>
  <2> USE <1>4
  <2>1. storePc' \in [DS!Procs -> Places] /\ storePc'[Boot] = "idle" /\ phase' \in {"up", "gone"}
        /\ \A r \in DS!Procs \ {Boot} : storePc'[r] = storePc[r]
    BY <1>1 DEF TypeInv, Places
  <2>2. TypeInv'
    BY <2>1 DEF TypeInv, DS!pools, DS!probing
  <2>3. Stages' /\ BootAlone'
    BY <1>1, <2>1 DEF Stages, BootAlone
  <2> QED  BY <1>1, <2>1, <2>2, <2>3, NobodyMoves
<1> QED  BY <1>2, <1>3, <1>4

LEMMA BeginRegisterInv ==
  ASSUME IInv, NEW p \in DS!Procs, NEW n \in Names, DS!BeginRegister(p, n) PROVE IInv'
<1> USE DEF IInv, DS!BeginRegister, DS!At, DS!NoClient, Making, DS!manager
<1>1. storePc' \in [DS!Procs -> Places] /\ storePc'[p] = "dial" /\ name'[p] = n
      /\ \A r \in DS!Procs \ {p} : storePc'[r] = storePc[r] /\ name'[r] = name[r]
  BY DEF TypeInv, Places
<1>2. TypeInv'
  BY <1>1 DEF TypeInv, DS!pools, DS!probing
<1>3. Stages'
  BY <1>1 DEF Stages
<1>4. BootAlone'
  BY <1>1 DEF BootAlone, DS!Procs
<1> QED  BY <1>1, <1>2, <1>3, <1>4, NobodyMoves

LEMMA EndRegisterInv == ASSUME IInv, NEW p \in DS!Procs, DS!EndRegister(p) PROVE IInv'
<1> USE DEF IInv, DS!EndRegister
<1>1. CASE DS!Refuse(p)
  <2>1. PICK bad \in SUBSET DS!PoolsOf(own[p]) : DS!ShutPools(DS!PoolsOf(own[p]), bad, {})
    BY <1>1 DEF DS!Refuse
  <2>2. Shuts(p, DS!PoolsOf(own[p]), bad, {})
    BY <2>1 DEF Shuts, DS!ShutPools, DS!PoolsOf, Stages, Making
  <2>3. GivesUp(p)
    BY <1>1 DEF GivesUp, DS!Refuse
  <2> QED  BY <2>2, <2>3, FailsInv DEF Making
<1>2. CASE DS!Add(p)
  BY <1>2, InstallInv DEF DS!Add, DS!Late
<1> QED  BY <1>1, <1>2

LEMMA BootInstallInv == ASSUME IInv, DS!BootInstall PROVE IInv'
<1>1. Boot \in DS!Procs /\ ~closed /\ name[Boot] \notin unavailable /\ clients[name[Boot]] = DS!NoClient
  BY DEF IInv, DS!BootInstall, BootAlone, DS!Procs, Making, TypeInv
<1> QED  BY <1>1, InstallInv DEF DS!BootInstall

LEMMA BeginCloseInv == ASSUME IInv, NEW p \in DS!Procs, DS!BeginClose(p) PROVE IInv'
<1> USE DEF IInv, DS!BeginClose, Making
<1>1. own[p] = DS!NoClient
  BY DEF Stages
<1>2. CASE ~closed /\ DS!TakeAll(p)
  <2>1. Shuts(p, {}, {}, {})
    BY <1>1 DEF Shuts, TypeInv, DS!pools, DS!NoClient
  <2>2. own' = [own EXCEPT ![p] = DS!NoClient]
    BY <1>1 DEF TypeInv
  <2> QED  BY <1>2, <2>1, <2>2, TakeAllInv DEF TypeInv, DS!probing
<1>3. CASE /\ result' = [result EXCEPT ![p] = "nil"]
           /\ UNCHANGED <<clients, unavailable, closed, storePc, storeTaken>>
  <2> USE <1>3
  <2>1. TypeInv'
    BY DEF TypeInv, DS!pools, DS!probing
  <2>2. Stages' /\ BootAlone'
    BY DEF Stages, BootAlone
  <2> QED  BY <1>1, <2>1, <2>2, NobodyMoves DEF TypeInv
<1> QED  BY <1>2, <1>3

LEMMA EndCloseInv == ASSUME IInv, NEW p \in DS!Procs, DS!EndClose(p) PROVE IInv'
<1> USE DEF IInv, DS!EndClose, DS!At, Making
<1>1. storePc' \in [DS!Procs -> Places] /\ storePc'[p] = "idle"
      /\ \A r \in DS!Procs \ {p} : storePc'[r] = storePc[r]
  BY DEF TypeInv, Places
<1>2. TypeInv'
  BY <1>1 DEF TypeInv, DS!pools, DS!probing
<1>3. Stages'
  BY <1>1 DEF Stages
<1>4. BootAlone'
  BY <1>1 DEF BootAlone, DS!Procs
<1> QED  BY <1>1, <1>2, <1>3, <1>4, NobodyMoves

(* What Close shuts of a client is all that the client has.                *)
LEMMA ShutWholly ==
  ASSUME IInv, NEW p \in DS!Procs, NEW c \in storeTaken[p],
         DS!RedisClose(p, c) \/ DS!MongoClose(p, c) \/ DS!GormClose(p, c)
  PROVE  \E S \in SUBSET open : \E bad \in SUBSET S :
            /\ \A q \in open : q[1] = c <=> q \in S
            /\ open' = open \ (S \ bad) /\ stuck' = stuck \cup bad /\ lost' = lost /\ made' = made
            /\ result' = [result EXCEPT ![p] = DS!Joined(p, bad)]
<1> USE DEF IInv
<1>1. \A q \in open : q[1] = c => q \notin Stray /\ q[2] # "probe" /\ q[2] \in DS!Parts
  BY DEF StrayIsNobodys, Has, PoolsFit, Unique, TypeInv
<1>2. \A q \in open : q[1] = c /\ storeKind # "gorm" => q[2] = "primary"
  BY <1>1 DEF PoolsFit, DS!Parts
<1>3. PICK parts : /\ DS!CloseClient(p, c, parts) /\ "primary" \in parts
                   /\ storeKind = "gorm" => Replicas \subseteq parts
  BY DEF DS!RedisClose, DS!MongoClose, DS!GormClose
<1> DEFINE S == {q \in DS!PoolsOf(c) : q[2] \in parts}
<1>4. PICK bad \in SUBSET S : DS!ShutPools(S, bad, {}) /\ result' = [result EXCEPT ![p] = DS!Joined(p, bad)]
  BY <1>3 DEF DS!CloseClient
<1>5. \A q \in open : q[1] = c <=> q \in S
  BY <1>1, <1>2, <1>3 DEF DS!PoolsOf, DS!Parts
<1>6. S \in SUBSET open
  BY DEF DS!PoolsOf
<1> HIDE DEF S
<1> QED  BY <1>4, <1>5, <1>6 DEF DS!ShutPools

LEMMA CloseOneInv == ASSUME IInv, NEW p \in DS!Procs, DS!CloseOne(p) PROVE IInv'
<1> USE DEF IInv, DS!CloseOne, DS!NoClient, DS!manager
<1>1. PICK c \in storeTaken[p] : /\ DS!RedisClose(p, c) \/ DS!MongoClose(p, c) \/ DS!GormClose(p, c)
                                 /\ storeTaken' = [storeTaken EXCEPT ![p] = @ \ {c}]
  OBVIOUS
<1>2. PICK S \in SUBSET open : \E bad \in SUBSET S :
            /\ \A q \in open : q[1] = c <=> q \in S
            /\ open' = open \ (S \ bad) /\ stuck' = stuck \cup bad /\ lost' = lost /\ made' = made
            /\ result' = [result EXCEPT ![p] = DS!Joined(p, bad)]
  BY <1>1, ShutWholly
<1>3. PICK bad \in SUBSET S :
            /\ \A q \in open : q[1] = c <=> q \in S
            /\ open' = open \ (S \ bad) /\ stuck' = stuck \cup bad /\ lost' = lost /\ made' = made
            /\ result' = [result EXCEPT ![p] = DS!Joined(p, bad)]
  BY <1>2
<1>4. storeTaken' \in [DS!Procs -> SUBSET (1..made)] /\ storeTaken'[p] = storeTaken[p] \ {c}
      /\ c \in 1..made
      /\ \A r \in DS!Procs \ {p} : storeTaken'[r] = storeTaken[r]
  BY <1>1 DEF TypeInv
<1>5. TypeInv'
  <2>1. result' \in [DS!Procs -> {"none", "nil", "error"}]
    BY <1>3 DEF TypeInv, DS!Joined
  <2> QED  BY <1>3, <1>4, <2>1 DEF TypeInv, DS!probing
<1>6. Stages' /\ BootAlone'
  BY <1>4 DEF Stages, BootAlone
<1>7. Unique'
  BY <1>4 DEF Unique
<1>8. \A x \in 1..made : Has(x)' <=> Has(x) /\ x # c
  <2> SUFFICES ASSUME NEW x \in 1..made PROVE Has(x)' <=> Has(x) /\ x # c
    OBVIOUS
  <2>1. (\E r \in DS!Procs : x \in storeTaken'[r]) <=> x # c /\ \E r \in DS!Procs : x \in storeTaken[r]
    BY <1>4 DEF Unique
  <2> QED  BY <2>1, <1>4 DEF Has, Unique
<1>9. PoolsFit'
  <2> SUFFICES ASSUME NEW q \in open' \ Stray'
               PROVE  /\ Has(q[1])'
                      /\ q[2] = "probe" =>
                           /\ storeKind = "gorm"
                           /\ \E r \in DS!Procs : own[r] = q[1] /\ storePc[r] = "tested"
                      /\ q[2] \in Replicas =>
                           /\ storeKind = "gorm"
                           /\ \A r \in DS!Procs : own[r] = q[1] => storePc[r] = "opened"
    BY DEF PoolsFit
  <2>1. q \in open \ Stray /\ q[1] # c /\ q[1] \in 1..made
    BY <1>3 DEF TypeInv, Stray
  <2>2. Has(q[1])'
    BY <1>8, <2>1 DEF PoolsFit
  <2> QED  BY <2>1, <2>2 DEF PoolsFit
<1>10. StrayIsNobodys'
  <2> SUFFICES ASSUME NEW q \in Stray' PROVE ~Has(q[1])'
    BY DEF StrayIsNobodys
  <2> QED  BY <1>3, <1>8 DEF StrayIsNobodys, TypeInv, Stray
<1>11. DS!ClosedStaysEmpty' /\ DS!OneMapPerName'
  BY DEF DS!ClosedStaysEmpty, DS!OneMapPerName, DS!Installed
<1> QED  BY <1>5, <1>6, <1>7, <1>9, <1>10, <1>11

LEMMA StepInv == IInv /\ [DS!Next]_DS!vars => IInv'
<1> SUFFICES ASSUME IInv, [DS!Next]_DS!vars PROVE IInv'
  OBVIOUS
<1>1. CASE UNCHANGED DS!vars
  BY <1>1, SMTT(30) DEF DS!vars, DS!manager, DS!pools, DS!probing, DS!proc, IInv, TypeInv,
              Stages, BootAlone, Unique, PoolsFit, Stray,
              StrayIsNobodys, Has, DS!ClosedStaysEmpty, DS!OneMapPerName, DS!Installed
<1>2. CASE DS!Boots
  BY <1>2, BootNextInv, BootInstallInv DEF DS!Boots
<1>3. ASSUME NEW p \in DS!Procs, DS!NewClient(p) PROVE IInv'
  BY <1>3, NewClientInv
<1>4. ASSUME NEW p \in DS!Procs, DS!Registers(p) PROVE IInv'
  BY <1>4, BeginRegisterInv, EndRegisterInv DEF DS!Registers
<1>5. ASSUME NEW p \in DS!Procs, DS!Closes(p) PROVE IInv'
  BY <1>5, BeginCloseInv, CloseOneInv, EndCloseInv DEF DS!Closes
<1> QED
  BY <1>1, <1>2, <1>3, <1>4, <1>5
  DEF DS!Next, DS!RedisBoots, DS!GormBoots, DS!MongoBoots, DS!RedisRegisters, DS!GormRegisters,
      DS!MongoRegisters,
      DS!RedisCloses, DS!GormCloses, DS!MongoCloses

LEMMA Invariance == DS!Spec => []IInv
<1> QED  BY InitIInv, StepInv, PTL DEF DS!Spec

(* However boot, registrations and Close overlap, and whatever fails:      *)
(* every open pool has an owner that will close it, unless its Close has   *)
(* failed or, in the gorm package only, a gorm.Open or a db.Use has failed *)
(* after opening it; a closed manager stays empty, and no name is both     *)
(* connected and unavailable.                                              *)
(* (manager.go and client.go in db/redis, db/gorm and db/mongodb.)         *)
THEOREM EveryPoolIsOwned == DS!Spec => []ClientsAreKept
<1>1. IInv => ClientsAreKept
  BY DEF IInv, ClientsAreKept, DS!ClientsAreKept, PoolsFit, Stray, StrayIsNobodys,
         DS!NoPoolLeaks, Has, DS!Held, DS!Installed, TypeInv, DS!NoClient
<1> QED  BY <1>1, Invariance, PTL

(* Only CloseOne takes clients away from a Close that is under way.        *)
LEMMA OnlyCloseOneTakes ==
  ASSUME IInv, [DS!Next]_DS!vars, NEW p \in DS!Procs,
         storePc[p] = "closing", storeTaken'[p] # storeTaken[p]
  PROVE  DS!CloseOne(p)
<1> USE DEF IInv, Making
<1>1. ASSUME NEW r \in DS!Procs, DS!TakeAll(r), storePc[r] # "closing"
      PROVE  storeTaken'[p] = storeTaken[p]
  BY <1>1 DEF DS!TakeAll, TypeInv
<1>2. ASSUME NEW r \in DS!Procs, DS!NewClientFails(r), storePc[r] # "closing"
      PROVE  storeTaken'[p] = storeTaken[p]
  BY <1>1, <1>2 DEF DS!NewClientFails
<1>3. ASSUME NEW r \in DS!Procs, DS!NewClient(r) PROVE storeTaken'[p] = storeTaken[p]
  BY <1>2, <1>3 DEF DS!NewClient, DS!RedisNewClient, DS!MongoNewClient, DS!GormNewClient,
                    DS!Dial, DS!Ping, DS!OpenFails, DS!PingWithSlaves, DS!OpenProbe, DS!CloseProbe, DS!Use, DS!CloseAndFail
<1>4. CASE DS!Boots
  BY <1>1, <1>4 DEF DS!Boots, DS!BootNext, DS!BootInstall, DS!Procs
<1>5. ASSUME NEW r \in DS!Procs, DS!Registers(r) PROVE storeTaken'[p] = storeTaken[p]
  BY <1>5 DEF DS!Registers, DS!BeginRegister, DS!EndRegister
<1>6. ASSUME NEW r \in DS!Procs, DS!Closes(r) PROVE storeTaken'[p] = storeTaken[p] \/ DS!CloseOne(p)
  <2>1. CASE DS!BeginClose(r)
    BY <1>1, <2>1 DEF DS!BeginClose
  <2>2. CASE DS!CloseOne(r) /\ r # p
    BY <2>2 DEF DS!CloseOne, TypeInv
  <2>3. CASE DS!EndClose(r)
    BY <2>3 DEF DS!EndClose
  <2> QED  BY <1>6, <2>1, <2>2, <2>3 DEF DS!Closes
<1>7. CASE UNCHANGED DS!vars
  BY <1>7 DEF DS!vars, DS!proc
<1> QED
  BY <1>3, <1>4, <1>5, <1>6, <1>7
  DEF DS!Next, DS!RedisBoots, DS!GormBoots, DS!MongoBoots, DS!RedisRegisters, DS!GormRegisters,
      DS!MongoRegisters,
      DS!RedisCloses, DS!GormCloses, DS!MongoCloses

(* A Close that returns nil has closed every pool of the clients it took,  *)
(* for each of the three kinds of client.  (db/gorm/client.go:242-286.)    *)
THEOREM NilMeansClosed == DS!Spec => CloseTellsTheTruth
<1> DEFINE Truth == \A p \in DS!Procs :
              storePc[p] = "closing" /\ storeTaken'[p] # storeTaken[p] /\ result'[p] = "nil" =>
                \A c \in storeTaken[p] \ storeTaken'[p] : {q \in open' : q[1] = c} = {}
<1>1. ASSUME IInv, [DS!Next]_DS!vars PROVE Truth
  <2> SUFFICES ASSUME NEW p \in DS!Procs, storePc[p] = "closing", storeTaken'[p] # storeTaken[p],
                      result'[p] = "nil", NEW d \in storeTaken[p] \ storeTaken'[p]
               PROVE  {q \in open' : q[1] = d} = {}
    OBVIOUS
  <2>1. DS!CloseOne(p)
    BY <1>1, OnlyCloseOneTakes
  <2>2. PICK c \in storeTaken[p] : /\ DS!RedisClose(p, c) \/ DS!MongoClose(p, c) \/ DS!GormClose(p, c)
                                   /\ storeTaken' = [storeTaken EXCEPT ![p] = @ \ {c}]
    BY <2>1 DEF DS!CloseOne
  <2>3. c = d
    BY <1>1, <2>2 DEF IInv, TypeInv
  <2>4. PICK S \in SUBSET open : \E bad \in SUBSET S :
              /\ \A q \in open : q[1] = c <=> q \in S
              /\ open' = open \ (S \ bad) /\ stuck' = stuck \cup bad /\ lost' = lost /\ made' = made
              /\ result' = [result EXCEPT ![p] = DS!Joined(p, bad)]
    <3>1. IInv /\ (DS!RedisClose(p, c) \/ DS!MongoClose(p, c) \/ DS!GormClose(p, c))
      BY <1>1, <2>2
    <3> QED  BY ONLY <3>1, ShutWholly
  <2>5. PICK bad \in SUBSET S :
              /\ \A q \in open : q[1] = c <=> q \in S
              /\ open' = open \ (S \ bad)
              /\ result' = [result EXCEPT ![p] = DS!Joined(p, bad)]
    BY <2>4
  <2>6. bad = {}
    BY <1>1, <2>5 DEF IInv, TypeInv, DS!Joined
  <2> QED  BY <2>3, <2>5, <2>6
<1> HIDE DEF Truth
<1>2. DS!Spec => [][Truth]_DS!vars
  BY <1>1, Invariance, PTL DEF DS!Spec
<1> QED  BY <1>2 DEF CloseTellsTheTruth, DS!CloseTellsTheTruth, Truth
=============================================================================
