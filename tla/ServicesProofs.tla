---------------------------- MODULE ServicesProofs ----------------------------
(***************************************************************************)
(* Proofs about the servers, the framework, the rate limiters, the load    *)
(* balancer and the retry loop of MCServices.                              *)
(*                                                                         *)
(* Servers, for any callers, any number of sockets and each kind of        *)
(* server: one caller serves, a stopped server has freed its port, and     *)
(* what is registered in etcd is served.                                   *)
(*                                                                         *)
(* Framework, for any components, any of them enabled and any builtins     *)
(* configured: it has a handle of everything that is up, calls nothing     *)
(* twice, and stops what depends on others before them.  Its invariant     *)
(* says what the operation under way has still to call (TodoFits), and     *)
(* that in the list of a Stop every component comes before what was there  *)
(* when it was initialised (StopsDownwards).  That list is computed by the *)
(* recursive function in Among, of which AmongPicks says what it returns.  *)
(*                                                                         *)
(* Rate limiters, for any capacity, rate, window, callers and amounts: in  *)
(* no span of time do they hand out more than they should.  The bucket's   *)
(* invariant is an account: what it has handed out since any time and what *)
(* it holds are covered by its capacity and what flowed in since           *)
(* (BucketFits).  The window's is that its timestamps are the last grants  *)
(* and that those it has forgotten were too old to count (WindowFits).     *)
(*                                                                         *)
(* Load balancer, for any number of addresses and any weights: none is     *)
(* picked more often than its share, nor much less often.  The current     *)
(* weights are what the picks owe, and cancel out (Owed); so who gains     *)
(* most gains something, and nobody's debt reaches a whole round.  What is *)
(* owed to any group of addresses is bounded by its size and that of the   *)
(* rest (NobodyBehind).                                                    *)
(*                                                                         *)
(* Retry, for any delays, attempts and width: the delay the loop carries   *)
(* from wait to wait is the one Backoff computes from the number of the    *)
(* wait (DelayFits).                                                       *)
(*                                                                         *)
(* Totals and powers are recursive functions; what they are is proved by   *)
(* induction over a set of numbers (Induct).                               *)
(***************************************************************************)
EXTENDS MCServices, Sequences, FiniteSetTheorems, WellFoundedInduction, TLAPS


Stopping == {"stop", "close", "stopped"}
Starting == {"listen", "mark", "take", "register", "announce"}
Active == {"spawned", "accepting", "ending"}

TypeInv ==
  /\ kind \in {"http", "grpc", "GrpcServer"} /\ inner \in {"up", "down"}
  /\ listener \in Sockets \cup {None} /\ None \notin Sockets
  /\ running \in BOOLEAN /\ stopped \in BOOLEAN
  /\ failed \in BOOLEAN /\ raced \in BOOLEAN
  /\ fresh \subseteq Sockets /\ bound \subseteq Sockets
  /\ serving \in [Sockets -> {"no", "over"} \cup Active]
  /\ pc \in [Callers -> {"idle", "serve"} \cup Starting \cup Stopping]
  /\ registrar \in {"none", "created", "registered"}

(* Only a socket that was never bound is fresh.                            *)
FreshIsNew == \A s \in fresh : serving[s] = "no" /\ s \notin bound /\ s # listener

(* A socket that Serve has let go of is closed.                            *)
OverIsClosed == \A s \in bound : serving[s] \notin {"ending", "over"}

(* Until the server is shut down, `running' says that one caller is about  *)
(* to serve the listener or that the listener is served.                   *)
OneAtATime ==
  inner = "up" =>
    /\ ~stopped /\ \A c \in Callers : pc[c] \notin {"close", "stopped"}
    /\ listener # None /\ serving[listener] \in {"no", "spawned", "accepting"} => listener \in bound
    /\ listener # None /\ ~running => serving[listener] = "no"
    /\ \A c \in Callers : pc[c] = "take" =>
         /\ running /\ listener # None /\ serving[listener] = "no"
         /\ \A s \in Sockets : serving[s] \notin Active
         /\ \A d \in Callers \ {c} : pc[d] # "take"
    /\ \A s \in Sockets : serving[s] \in Active => running /\ listener = s

(* A socket that is bound is the listener, unless two calls have crossed.  *)
BoundIsListener ==
  ~raced => /\ bound \subseteq {listener}
            /\ stopped => listener = None
            /\ \A c \in Callers : pc[c] = "stopped" => listener = None

(* A GrpcServer is called from one goroutine at a time.                    *)
OneCaller ==
  kind = "GrpcServer" =>
    /\ \A c, d \in Callers : c # d => pc[c] = "idle" \/ pc[d] = "idle"
    /\ \A c \in Callers : pc[c] # "serve"

(* The registrar of a GrpcServer, until a Serve or a Stop has failed.      *)
Served == \E s \in Sockets : serving[s] \in {"spawned", "accepting"} /\ s \in bound

RegistrarFits ==
  /\ kind # "GrpcServer" => registrar = "none" /\ \A c \in Callers : pc[c] \notin {"register", "announce"}
  /\ kind = "GrpcServer" /\ ~failed =>
       /\ inner = "down" => stopped \/ \E c \in Callers : pc[c] \in {"close", "stopped"}
       /\ \A c \in Callers : pc[c] \in Stopping => registrar = "none"
       /\ \A c \in Callers : pc[c] \in Starting => ~stopped
       /\ stopped => registrar # "registered"
       /\ \A c \in Callers : pc[c] \in {"register", "announce"} => Served
       /\ registrar = "registered" => Served

IInv == /\ TypeInv /\ FreshIsNew /\ OverIsClosed /\ OneAtATime /\ BoundIsListener
        /\ OneCaller /\ RegistrarFits

-----------------------------------------------------------------------------
LEMMA InitIInv == None \notin Sockets /\ Init => IInv
<1> SUFFICES ASSUME None \notin Sockets, Init PROVE IInv
  OBVIOUS
<1> USE DEF Init, Active, Starting, Stopping
<1>1. TypeInv
  BY DEF TypeInv
<1>2. FreshIsNew /\ OverIsClosed /\ BoundIsListener
  BY DEF FreshIsNew, OverIsClosed, BoundIsListener
<1>3. OneAtATime
  BY DEF OneAtATime
<1>4. OneCaller /\ RegistrarFits
  BY DEF OneCaller, RegistrarFits
<1> QED  BY <1>1, <1>2, <1>3, <1>4 DEF IInv

LEMMA CallStartInv == ASSUME IInv, NEW c \in Callers, CallStart(c) PROVE IInv'
<1> USE DEF IInv, CallStart, Enter, Goto, MayCall, srvVars, history, Active, Starting, Stopping
<1>1. TypeInv'
  BY DEF TypeInv
<1>2. pc'[c] = "listen" /\ \A d \in Callers \ {c} : pc'[d] = pc[d]
  BY DEF TypeInv
<1>3. FreshIsNew' /\ OverIsClosed' /\ BoundIsListener'
  BY <1>2 DEF FreshIsNew, OverIsClosed, BoundIsListener
<1>4. OneAtATime'
  BY <1>2 DEF OneAtATime
<1>5. OneCaller'
  BY <1>2 DEF OneCaller
<1>6. RegistrarFits'
  BY <1>2 DEF RegistrarFits, Served
<1> QED  BY <1>1, <1>3, <1>4, <1>5, <1>6

LEMMA ListenInv == ASSUME IInv, NEW c \in Callers, Listen(c) PROVE IInv'
<1> USE DEF IInv, Listen, Enter, Goto, srvVars, history, Active, Starting, Stopping
<1>1. TypeInv'
  BY DEF TypeInv
<1>2. pc'[c] \in {"idle", "mark"} /\ \A d \in Callers \ {c} : pc'[d] = pc[d]
  BY DEF TypeInv
<1>3. FreshIsNew' /\ OverIsClosed'
  BY <1>2 DEF FreshIsNew, OverIsClosed, TypeInv
<1>4. OneAtATime'
  BY <1>2 DEF OneAtATime, FreshIsNew, TypeInv
<1>5. BoundIsListener'
  BY <1>2 DEF BoundIsListener, TypeInv
<1>6. OneCaller'
  BY <1>2 DEF OneCaller, TypeInv
<1>7. RegistrarFits'
  BY <1>2 DEF RegistrarFits, Served, OneCaller, OneAtATime, TypeInv
<1> QED  BY <1>1, <1>3, <1>4, <1>5, <1>6, <1>7

LEMMA MarkInv == ASSUME IInv, NEW c \in Callers, Mark(c) PROVE IInv'
<1> USE DEF IInv, Mark, Markable, Enter, Goto, srvVars, history, Active, Starting, Stopping
<1>1. TypeInv'
  BY DEF TypeInv
<1>2. pc'[c] \in {"idle", "take"} /\ \A d \in Callers \ {c} : pc'[d] = pc[d]
  BY DEF TypeInv
<1>3. FreshIsNew' /\ OverIsClosed'
  BY <1>2 DEF FreshIsNew, OverIsClosed, TypeInv
<1>4. OneAtATime'
  BY <1>2 DEF OneAtATime, FreshIsNew, TypeInv
<1>5. BoundIsListener'
  BY <1>2 DEF BoundIsListener, TypeInv
<1>6. OneCaller'
  BY <1>2 DEF OneCaller, TypeInv
<1>7. RegistrarFits'
  BY <1>2 DEF RegistrarFits, Served, OneCaller, OneAtATime, TypeInv
<1> QED  BY <1>1, <1>3, <1>4, <1>5, <1>6, <1>7

LEMMA TakeInv == ASSUME IInv, NEW c \in Callers, Take(c) PROVE IInv'
<1> USE DEF IInv, Take, Enter, Goto, srvVars, history, Active, Starting, Stopping
<1>1. TypeInv'
  BY DEF TypeInv
<1>2. pc'[c] \in {"idle", "register", "serve"} /\ (kind = "GrpcServer" => pc'[c] # "serve")
      /\ \A d \in Callers \ {c} : pc'[d] = pc[d]
  BY DEF TypeInv
<1>3. FreshIsNew' /\ OverIsClosed'
  BY <1>2 DEF FreshIsNew, OverIsClosed, TypeInv
<1>4. OneAtATime'
  BY <1>2 DEF OneAtATime, FreshIsNew, TypeInv
<1>5. BoundIsListener'
  BY <1>2 DEF BoundIsListener, TypeInv
<1>6. OneCaller'
  BY <1>2 DEF OneCaller, TypeInv
<1>7. RegistrarFits'
  BY <1>2 DEF RegistrarFits, Served, OneCaller, OneAtATime, TypeInv
<1> QED  BY <1>1, <1>3, <1>4, <1>5, <1>6, <1>7

LEMMA StartReturnsInv == ASSUME IInv, NEW c \in Callers, StartReturns(c) PROVE IInv'
<1> USE DEF IInv, StartReturns, Enter, Goto, srvVars, history, Active, Starting, Stopping
<1>1. TypeInv'
  BY DEF TypeInv
<1>2. pc'[c] = "idle" /\ \A d \in Callers \ {c} : pc'[d] = pc[d]
  BY DEF TypeInv
<1>3. FreshIsNew' /\ OverIsClosed'
  BY <1>2 DEF FreshIsNew, OverIsClosed, TypeInv
<1>4. OneAtATime'
  BY <1>2 DEF OneAtATime, FreshIsNew, TypeInv
<1>5. BoundIsListener'
  BY <1>2 DEF BoundIsListener, TypeInv
<1>6. OneCaller'
  BY <1>2 DEF OneCaller, TypeInv
<1>7. RegistrarFits'
  BY <1>2 DEF RegistrarFits, Served, OneCaller, OneAtATime, TypeInv
<1> QED  BY <1>1, <1>3, <1>4, <1>5, <1>6, <1>7

LEMMA StandaloneInv == ASSUME IInv, NEW c \in Callers, Standalone(c) PROVE IInv'
<1> USE DEF IInv, Standalone, Enter, Goto, srvVars, history, Active, Starting, Stopping
<1>1. TypeInv'
  BY DEF TypeInv
<1>2. pc'[c] = "idle" /\ \A d \in Callers \ {c} : pc'[d] = pc[d]
  BY DEF TypeInv
<1>3. FreshIsNew' /\ OverIsClosed'
  BY <1>2 DEF FreshIsNew, OverIsClosed, TypeInv
<1>4. OneAtATime'
  BY <1>2 DEF OneAtATime, FreshIsNew, TypeInv
<1>5. BoundIsListener'
  BY <1>2 DEF BoundIsListener, TypeInv
<1>6. OneCaller'
  BY <1>2 DEF OneCaller, TypeInv
<1>7. RegistrarFits'
  BY <1>2 DEF RegistrarFits, Served, OneCaller, OneAtATime, TypeInv
<1> QED  BY <1>1, <1>3, <1>4, <1>5, <1>6, <1>7

LEMMA CreateRegistrarInv == ASSUME IInv, NEW c \in Callers, CreateRegistrar(c) PROVE IInv'
<1> USE DEF IInv, CreateRegistrar, Enter, Goto, srvVars, history, Active, Starting, Stopping
<1>1. TypeInv'
  BY DEF TypeInv
<1>2. pc'[c] \in {"announce", "stop"} /\ \A d \in Callers \ {c} : pc'[d] = pc[d]
  BY DEF TypeInv
<1>3. FreshIsNew' /\ OverIsClosed'
  BY <1>2 DEF FreshIsNew, OverIsClosed, TypeInv
<1>4. OneAtATime'
  BY <1>2 DEF OneAtATime, FreshIsNew, TypeInv
<1>5. BoundIsListener'
  BY <1>2 DEF BoundIsListener, TypeInv
<1>6. OneCaller'
  BY <1>2 DEF OneCaller, TypeInv
<1>7. RegistrarFits'
  BY <1>2 DEF RegistrarFits, Served, OneCaller, OneAtATime, TypeInv
<1> QED  BY <1>1, <1>3, <1>4, <1>5, <1>6, <1>7

LEMMA RegisterServiceInv == ASSUME IInv, NEW c \in Callers, RegisterService(c) PROVE IInv'
<1> USE DEF IInv, RegisterService, Enter, Goto, srvVars, history, Active, Starting, Stopping
<1>1. TypeInv'
  BY DEF TypeInv
<1>2. pc'[c] \in {"idle", "stop"} /\ \A d \in Callers \ {c} : pc'[d] = pc[d]
  BY DEF TypeInv
<1>3. FreshIsNew' /\ OverIsClosed'
  BY <1>2 DEF FreshIsNew, OverIsClosed, TypeInv
<1>4. OneAtATime'
  BY <1>2 DEF OneAtATime, FreshIsNew, TypeInv
<1>5. BoundIsListener'
  BY <1>2 DEF BoundIsListener, TypeInv
<1>6. OneCaller'
  BY <1>2 DEF OneCaller, TypeInv
<1>7. RegistrarFits'
  BY <1>2 DEF RegistrarFits, Served, OneCaller, OneAtATime, TypeInv
<1> QED  BY <1>1, <1>3, <1>4, <1>5, <1>6, <1>7

LEMMA CallStopInv == ASSUME IInv, NEW c \in Callers, CallStop(c) PROVE IInv'
<1> USE DEF IInv, CallStop, LetGo, MayCall, Enter, Goto, srvVars, history, Active, Starting, Stopping
<1>1. TypeInv'
  BY DEF TypeInv
<1>2. pc'[c] \in {"idle", "stop"} /\ \A d \in Callers \ {c} : pc'[d] = pc[d]
  BY DEF TypeInv
<1>3. FreshIsNew' /\ OverIsClosed'
  BY <1>2 DEF FreshIsNew, OverIsClosed, TypeInv
<1>4. OneAtATime'
  BY <1>2 DEF OneAtATime, FreshIsNew, TypeInv
<1>5. BoundIsListener'
  BY <1>2 DEF BoundIsListener, TypeInv
<1>6. OneCaller'
  BY <1>2 DEF OneCaller, TypeInv
<1>7. RegistrarFits'
  BY <1>2 DEF RegistrarFits, Served, OneCaller, OneAtATime, TypeInv
<1> QED  BY <1>1, <1>3, <1>4, <1>5, <1>6, <1>7

LEMMA ShutdownInv == ASSUME IInv, NEW c \in Callers, Shutdown(c) PROVE IInv'
<1> USE DEF IInv, Shutdown, Enter, Goto, srvVars, history, Active, Starting, Stopping
<1>1. TypeInv'
  BY DEF TypeInv
<1>2. pc'[c] = "close" /\ \A d \in Callers \ {c} : pc'[d] = pc[d]
  BY DEF TypeInv
<1>3. FreshIsNew' /\ OverIsClosed'
  BY <1>2 DEF FreshIsNew, OverIsClosed, TypeInv
<1>4. OneAtATime'
  BY <1>2 DEF OneAtATime, FreshIsNew, TypeInv
<1>5. BoundIsListener'
  BY <1>2 DEF BoundIsListener, TypeInv
<1>6. OneCaller'
  BY <1>2 DEF OneCaller, TypeInv
<1>7. RegistrarFits'
  BY <1>2 DEF RegistrarFits, Served, OneCaller, OneAtATime, TypeInv
<1> QED  BY <1>1, <1>3, <1>4, <1>5, <1>6, <1>7

LEMMA CloseListenerInv == ASSUME IInv, NEW c \in Callers, CloseListener(c) PROVE IInv'
<1> USE DEF IInv, CloseListener, Closed, Enter, Goto, srvVars, history, Active, Starting, Stopping
<1>1. TypeInv'
  BY DEF TypeInv
<1>2. pc'[c] \in {"stopped", "idle"} /\ \A d \in Callers \ {c} : pc'[d] = pc[d]
  BY DEF TypeInv
<1>3. FreshIsNew' /\ OverIsClosed'
  BY <1>2 DEF FreshIsNew, OverIsClosed, TypeInv
<1>4. OneAtATime'
  BY <1>2 DEF OneAtATime, FreshIsNew, TypeInv
<1>5. BoundIsListener'
  BY <1>2 DEF BoundIsListener, TypeInv
<1>6. OneCaller'
  BY <1>2 DEF OneCaller, TypeInv
<1>7. RegistrarFits'
  BY <1>2 DEF RegistrarFits, Served, OneCaller, OneAtATime, TypeInv
<1> QED  BY <1>1, <1>3, <1>4, <1>5, <1>6, <1>7

LEMMA SetStoppedInv == ASSUME IInv, NEW c \in Callers, SetStopped(c) PROVE IInv'
<1> USE DEF IInv, SetStopped, Enter, Goto, srvVars, history, Active, Starting, Stopping
<1>1. TypeInv'
  BY DEF TypeInv
<1>2. pc'[c] = "idle" /\ \A d \in Callers \ {c} : pc'[d] = pc[d]
  BY DEF TypeInv
<1>3. FreshIsNew' /\ OverIsClosed'
  BY <1>2 DEF FreshIsNew, OverIsClosed, TypeInv
<1>4. OneAtATime'
  BY <1>2 DEF OneAtATime, FreshIsNew, TypeInv
<1>5. BoundIsListener'
  BY <1>2 DEF BoundIsListener, TypeInv
<1>6. OneCaller'
  BY <1>2 DEF OneCaller, TypeInv
<1>7. RegistrarFits'
  BY <1>2 DEF RegistrarFits, Served, OneCaller, OneAtATime, TypeInv
<1> QED  BY <1>1, <1>3, <1>4, <1>5, <1>6, <1>7

LEMMA ServeInv == ASSUME IInv, NEW s \in Sockets, Serve(s) PROVE IInv'
<1> USE DEF IInv, Serve, Enter, Goto, srvVars, history, Active, Starting, Stopping
<1>1. TypeInv'
  BY DEF TypeInv
<1>2. serving'[s] = "accepting" /\ \A r \in Sockets \ {s} : serving'[r] = serving[r]
  BY DEF TypeInv
<1>3. FreshIsNew' /\ OverIsClosed'
  BY <1>2 DEF FreshIsNew, OverIsClosed, TypeInv
<1>4. OneAtATime'
  BY <1>2 DEF OneAtATime, FreshIsNew, TypeInv
<1>5. BoundIsListener'
  BY <1>2 DEF BoundIsListener, TypeInv
<1>6. OneCaller'
  BY <1>2 DEF OneCaller, TypeInv
<1>7. RegistrarFits'
  BY <1>2 DEF RegistrarFits, Served, OneCaller, OneAtATime, TypeInv
<1> QED  BY <1>1, <1>3, <1>4, <1>5, <1>6, <1>7

LEMMA ServeReturnsInv == ASSUME IInv, NEW s \in Sockets, NEW bad \in BOOLEAN, ServeReturns(s, bad) PROVE IInv'
<1> USE DEF IInv, ServeReturns, Enter, Goto, srvVars, history, Active, Starting, Stopping
<1>1. TypeInv'
  BY DEF TypeInv
<1>2. serving'[s] = "ending" /\ \A r \in Sockets \ {s} : serving'[r] = serving[r]
  BY DEF TypeInv
<1>3. FreshIsNew' /\ OverIsClosed'
  BY <1>2 DEF FreshIsNew, OverIsClosed, TypeInv
<1>4. OneAtATime'
  BY <1>2 DEF OneAtATime, FreshIsNew, TypeInv
<1>5. BoundIsListener'
  BY <1>2 DEF BoundIsListener, TypeInv
<1>6. OneCaller'
  BY <1>2 DEF OneCaller, TypeInv
<1>7. RegistrarFits'
  BY <1>2 DEF RegistrarFits, Served, OneCaller, OneAtATime, TypeInv
<1> QED  BY <1>1, <1>3, <1>4, <1>5, <1>6, <1>7

LEMMA ClearInv == ASSUME IInv, NEW s \in Sockets, Clear(s) PROVE IInv'
<1> USE DEF IInv, Clear, Enter, Goto, srvVars, history, Active, Starting, Stopping
<1>1. TypeInv'
  BY DEF TypeInv
<1>2. serving'[s] = "over" /\ \A r \in Sockets \ {s} : serving'[r] = serving[r]
  BY DEF TypeInv
<1>3. FreshIsNew' /\ OverIsClosed'
  BY <1>2 DEF FreshIsNew, OverIsClosed, TypeInv
<1>4. OneAtATime'
  BY <1>2 DEF OneAtATime, FreshIsNew, TypeInv
<1>5. BoundIsListener'
  BY <1>2 DEF BoundIsListener, OverIsClosed, TypeInv
<1>6. OneCaller'
  BY <1>2 DEF OneCaller, TypeInv
<1>7. RegistrarFits'
  BY <1>2 DEF RegistrarFits, Served, OneCaller, OneAtATime, TypeInv
<1> QED  BY <1>1, <1>3, <1>4, <1>5, <1>6, <1>7

LEMMA StepInv == IInv /\ [Next]_vars => IInv'
<1> SUFFICES ASSUME IInv, [Next]_vars PROVE IInv'
  OBVIOUS
<1>1. CASE UNCHANGED vars
  BY <1>1 DEF vars, srvVars, history, IInv, TypeInv, FreshIsNew, OverIsClosed, OneAtATime,
              BoundIsListener, OneCaller, RegistrarFits, Served
<1>2. ASSUME NEW c \in Callers, CallStart(c) \/ CallStop(c) PROVE IInv'
  BY <1>2, CallStartInv, CallStopInv
<1>3. ASSUME NEW c \in Callers, Step(c) PROVE IInv'
  BY <1>3, ListenInv, MarkInv, TakeInv, StartReturnsInv, StandaloneInv, CreateRegistrarInv,
     RegisterServiceInv, ShutdownInv, CloseListenerInv, SetStoppedInv DEF Step
<1>4. ASSUME NEW s \in Sockets, Serve(s) \/ Clear(s) \/ \E bad \in BOOLEAN : ServeReturns(s, bad)
      PROVE  IInv'
  BY <1>4, ServeInv, ClearInv, ServeReturnsInv
<1> QED  BY <1>1, <1>2, <1>3, <1>4 DEF Next

LEMMA Invariance == None \notin Sockets /\ Spec => []IInv
<1> QED  BY InitIInv, StepInv, PTL DEF Spec

(* Whatever the other callers of Start, Listen and Stop do, one of them    *)
(* serves, and a server whose Stop has ended holds no port, unless a       *)
(* Listen crossed it (markRunning, getListener and Stop, grpc/server.go:   *)
(* 191-231 and 302-322, http/server.go:253-265).                           *)
THEOREM SocketsStaySettled == None \notin Sockets /\ Spec => []SocketsAreSettled
<1>1. IInv => StoppedFreesPort
  BY DEF IInv, StoppedFreesPort, BoundIsListener, TypeInv
<1>2. IInv => OneServes
  BY DEF IInv, OneServes, OneAtATime
<1>3. IInv => SocketsAreSettled
  BY <1>1, <1>2 DEF SocketsAreSettled
<1> QED  BY <1>3, Invariance, PTL

(* A service that is registered in etcd is served, until a Serve or a Stop *)
(* of it has failed (GrpcServer, grpc_server.go).                          *)
THEOREM RegisteredMeansServed == None \notin Sockets /\ Spec => []RegisteredIsServed
<1>1. IInv => RegisteredIsServed
  BY DEF IInv, RegisteredIsServed, RegistrarFits, Served, TypeInv
<1> QED  BY <1>1, Invariance, PTL

-----------------------------------------------------------------------------
(* The framework.                                                          *)


(* A set of numbers has a least one.                                       *)
LEMMA NatMin == ASSUME NEW T \in SUBSET Nat, T # {} PROVE \E m \in T : \A k \in T : m <= k
<1>1. \E x \in T : \A y \in T : ~ (<<y, x>> \in OpToRel(<, Nat))
  BY NatLessThanWellFounded, WFMin
<1>2. PICK x \in T : \A y \in T : ~ (<<y, x>> \in OpToRel(<, Nat))
  BY <1>1
<1>3. \A y \in T : ~(y < x)
  BY <1>2 DEF OpToRel
<1> QED BY <1>3

(* g follows the definition of upTo up to m.                               *)
Follows(g, seq, set, m) ==
  g = [n \in 0..m |-> IF n = 0 THEN <<>>
                      ELSE IF seq[n] \in set THEN Append(g[n - 1], seq[n])
                      ELSE g[n - 1]]

LEMMA FollowsExists ==
  ASSUME NEW seq, NEW set
  PROVE  \A m \in Nat : \E g : Follows(g, seq, set, m)
<1> DEFINE T == {m \in Nat : ~\E g : Follows(g, seq, set, m)}
<1>1. SUFFICES ASSUME T # {} PROVE FALSE
  OBVIOUS
<1>2. PICK m \in T : \A k \in T : m <= k
  <2> HIDE DEF T
  <2>1. T \in SUBSET Nat
    BY DEF T
  <2> QED BY <1>1, <2>1, NatMin
<1>3. m \in Nat /\ ~\E g : Follows(g, seq, set, m)
  OBVIOUS
<1>4. CASE m = 0
  <2> DEFINE g == [n \in 0..0 |-> <<>>]
  <2>1. Follows(g, seq, set, m)
    BY <1>4 DEF Follows
  <2> QED BY <1>3, <2>1
<1>5. CASE m # 0
  <2>1. m - 1 \in Nat /\ m - 1 \notin T
    BY <1>2, <1>3, <1>5
  <2>2. PICK h : Follows(h, seq, set, m - 1)
    BY <2>1
  <2> DEFINE last == IF seq[m] \in set THEN Append(h[m - 1], seq[m]) ELSE h[m - 1]
             g == [n \in 0..m |-> IF n = m THEN last ELSE h[n]]
  <2>3. \A n \in 0..m : g[n] = IF n = 0 THEN <<>>
                      ELSE IF seq[n] \in set THEN Append(g[n - 1], seq[n])
                      ELSE g[n - 1]
    <3> SUFFICES ASSUME NEW n \in 0..m PROVE g[n] = IF n = 0 THEN <<>>
                      ELSE IF seq[n] \in set THEN Append(g[n - 1], seq[n])
                      ELSE g[n - 1]
      OBVIOUS
    <3>1. CASE n = m
      <4>1. n # 0 /\ n - 1 # m /\ n - 1 \in 0..m
        BY <1>5, <1>3, <3>1
      <4>2. g[n - 1] = h[n - 1] /\ g[n] = last
        BY <4>1, <3>1
      <4> HIDE DEF g
      <4> QED BY <4>1, <4>2, <3>1
    <3>2. CASE n # m
      <4>1. n \in 0..(m-1)
        BY <1>3, <3>2
      <4>2. h[n] = IF n = 0 THEN <<>> ELSE IF seq[n] \in set THEN Append(h[n - 1], seq[n]) ELSE h[n - 1]
        <5> HIDE DEF g
        <5> QED BY <4>1, <2>2 DEF Follows
      <4>3. g[n] = h[n] /\ (n # 0 => g[n - 1] = h[n - 1])
        BY <1>3, <4>1, <3>2
      <4> HIDE DEF g
      <4> QED BY <4>2, <4>3
    <3> QED BY <3>1, <3>2
  <2>4. g = [n \in 0..m |-> g[n]]
    OBVIOUS
  <2> HIDE DEF g
  <2>5. Follows(g, seq, set, m)
    BY <2>3, <2>4 DEF Follows
  <2> QED BY <1>3, <2>5
<1> QED BY <1>4, <1>5


(* What the elements picked from the first n are.                          *)
Picked(g, seq, set, n) ==
  /\ g[n] \in Seq({seq[i] : i \in 1..Len(seq)})
  /\ \A i \in 1..Len(g[n]) : g[n][i] \in set /\ \E a \in 1..n : seq[a] = g[n][i]
  /\ \A a \in 1..n : seq[a] \in set => \E i \in 1..Len(g[n]) : g[n][i] = seq[a]
  /\ \A i, j \in 1..Len(g[n]) : i < j =>
        \E x, y \in 1..n : x < y /\ seq[x] = g[n][i] /\ seq[y] = g[n][j]

LEMMA PickedAlways ==
  ASSUME NEW S, NEW seq \in Seq(S), NEW set, NEW g, Follows(g, seq, set, Len(seq))
  PROVE  \A n \in 0..Len(seq) : Picked(g, seq, set, n)
<1> DEFINE T == {n \in 0..Len(seq) : ~Picked(g, seq, set, n)}
           R == {seq[i] : i \in 1..Len(seq)}
<1>1. SUFFICES ASSUME T # {} PROVE FALSE
  OBVIOUS
<1>2. PICK m \in T : \A k \in T : m <= k
  <2>1. T \in SUBSET Nat
    OBVIOUS
  <2> HIDE DEF T
  <2> QED BY <1>1, <2>1, NatMin
<1>3. m \in 0..Len(seq) /\ ~Picked(g, seq, set, m)
  OBVIOUS
<1>4. \A n \in 0..Len(seq) : g[n] = IF n = 0 THEN <<>>
                      ELSE IF seq[n] \in set THEN Append(g[n - 1], seq[n])
                      ELSE g[n - 1]
  BY DEF Follows
<1>5. CASE m = 0
  <2>1. g[m] = <<>>
    BY <1>3, <1>4, <1>5
  <2>2. Picked(g, seq, set, m)
    BY <1>5, <2>1 DEF Picked
  <2> QED BY <1>3, <2>2
<1>6. CASE m # 0
  <2>1. m \in 1..Len(seq) /\ m - 1 \in 0..Len(seq) /\ m - 1 \notin T
    BY <1>2, <1>3, <1>6
  <2>2. Picked(g, seq, set, m - 1)
    BY <2>1
  <2> HIDE DEF T
  <2>3. seq[m] \in R
    BY <2>1
  <2>4. CASE seq[m] \notin set
    <3>1. g[m] = g[m - 1]
      BY <1>4, <2>1, <2>4
    <3>2. Picked(g, seq, set, m)
      BY <2>1, <2>2, <2>4, <3>1, SMTT(30) DEF Picked
    <3> QED BY <1>3, <3>2
  <2>5. CASE seq[m] \in set
    <3> DEFINE h == g[m - 1]
               l == Len(h)
    <3>1. g[m] = Append(h, seq[m])
      BY <1>3, <1>4, <1>6, <2>5
    <3>2. h \in Seq(R) /\ l \in Nat
      BY <2>2 DEF Picked
    <3>4. /\ \A i \in 1..l : h[i] \in set /\ \E x \in 1..(m-1) : seq[x] = h[i]
          /\ \A x \in 1..(m-1) : seq[x] \in set => \E i \in 1..l : h[i] = seq[x]
          /\ \A i, j \in 1..l : i < j =>
                \E x, y \in 1..(m-1) : x < y /\ seq[x] = h[i] /\ seq[y] = h[j]
      BY <2>2 DEF Picked
    <3> HIDE DEF h, R
    <3>3. /\ g[m] \in Seq(R) /\ Len(g[m]) = l + 1 /\ g[m][l + 1] = seq[m]
          /\ \A i \in 1..l : g[m][i] = h[i]
      BY <2>3, <3>1, <3>2
    <3> HIDE DEF l
    <3>5. \A i \in 1..(l + 1) : i \in 1..l \/ i = l + 1
      BY <3>2
    <3>6. m \in 1..m /\ 1..(m-1) \subseteq 1..m /\ \A x \in 1..m : x = m \/ x \in 1..(m-1)
      BY <2>1
    <3>7. \A i \in 1..Len(g[m]) : g[m][i] \in set /\ \E x \in 1..m : seq[x] = g[m][i]
      <4> SUFFICES ASSUME NEW i \in 1..(l + 1)
                   PROVE  g[m][i] \in set /\ \E x \in 1..m : seq[x] = g[m][i]
        BY <3>3
      <4>1. CASE i = l + 1
        BY <2>5, <3>3, <3>6, <4>1
      <4>2. CASE i \in 1..l
        <5>1. g[m][i] = h[i]
          BY <3>3, <4>2
        <5> QED BY <3>4, <3>6, <4>2, <5>1
      <4> QED BY <3>5, <4>1, <4>2
    <3>8. \A x \in 1..m : seq[x] \in set => \E i \in 1..Len(g[m]) : g[m][i] = seq[x]
      <4>1. l + 1 \in 1..(l + 1) /\ 1..l \subseteq 1..(l + 1)
        BY <3>2
      <4> SUFFICES ASSUME NEW x \in 1..m, seq[x] \in set
                   PROVE  \E i \in 1..(l + 1) : g[m][i] = seq[x]
        BY <3>3
      <4>2. CASE x = m
        BY <3>3, <4>1, <4>2
      <4>3. CASE x \in 1..(m-1)
        <5>1. PICK i \in 1..l : h[i] = seq[x]
          BY <3>4, <4>3
        <5> QED BY <3>3, <4>1, <5>1
      <4> QED BY <3>6, <4>2, <4>3
    <3>9. ASSUME NEW i \in 1..Len(g[m]), NEW j \in 1..Len(g[m]), i < j
          PROVE  \E x, y \in 1..m : x < y /\ seq[x] = g[m][i] /\ seq[y] = g[m][j]
      <4>1. i \in 1..l
        BY <3>2, <3>3, <3>9
      <4>2. CASE j \in 1..l
        <5>1. PICK x, y \in 1..(m-1) : x < y /\ seq[x] = h[i] /\ seq[y] = h[j]
          BY <3>4, <3>9, <4>1, <4>2
        <5>2. g[m][i] = h[i] /\ g[m][j] = h[j]
          BY <3>3, <4>1, <4>2
        <5> QED BY <3>6, <5>1, <5>2
      <4>3. CASE j = l + 1
        <5>1. PICK x \in 1..(m-1) : seq[x] = h[i]
          BY <3>4, <4>1
        <5>2. x < m /\ x \in 1..m
          BY <2>1
        <5> QED BY <3>3, <3>6, <4>1, <4>3, <5>1, <5>2
      <4> QED BY <3>3, <3>5, <4>2, <4>3
    <3>10. Picked(g, seq, set, m)
      BY <3>3, <3>7, <3>8, <3>9 DEF Picked, R
    <3> QED BY <1>3, <3>10
  <2> QED BY <2>4, <2>5
<1> QED BY <1>5, <1>6

(* Among picks the elements of the set, each as often as it is there.      *)
LEMMA AmongPicks ==
  ASSUME NEW S, NEW seq \in Seq(S), NEW set
  PROVE  /\ FW!Among(seq, set) \in Seq(S)
         /\ FW!Range(FW!Among(seq, set)) = FW!Range(seq) \cap set
         /\ FW!IsInjective(seq) => FW!IsInjective(FW!Among(seq, set))
<1> DEFINE A == FW!Among(seq, set)
           n == Len(seq)
<1>1. PICK g : Follows(g, seq, set, n) /\ A = g[n]
  <2> DEFINE u == CHOOSE g : Follows(g, seq, set, n)
  <2>1. Follows(u, seq, set, n)
    BY FollowsExists
  <2>2. A = u[n]
    BY DEF FW!Among, Follows
  <2> QED BY <2>1, <2>2
<1>2. Picked(g, seq, set, n)
  BY <1>1, PickedAlways
<1>3. {seq[i] : i \in 1..Len(seq)} \subseteq S /\ FW!Range(seq) = {seq[i] : i \in 1..n}
  BY DEF FW!Range
<1> HIDE DEF A
<1>4. A \in Seq(S)
  <2>1. A \in Seq({seq[i] : i \in 1..n})
    BY <1>1, <1>2 DEF Picked
  <2> QED BY <1>3, <2>1
<1>5. FW!Range(A) = {A[i] : i \in 1..Len(A)}
  BY <1>4 DEF FW!Range
<1>6. FW!Range(A) = FW!Range(seq) \cap set
  <2>1. \A i \in 1..Len(A) : A[i] \in set /\ \E x \in 1..n : seq[x] = A[i]
    BY <1>1, <1>2 DEF Picked
  <2>2. \A x \in 1..n : seq[x] \in set => \E i \in 1..Len(A) : A[i] = seq[x]
    BY <1>1, <1>2 DEF Picked
  <2> QED BY <1>3, <1>5, <2>1, <2>2
<1>7. ASSUME FW!IsInjective(seq) PROVE FW!IsInjective(A)
  <2> SUFFICES ASSUME NEW i \in 1..Len(A), NEW j \in 1..Len(A), i < j PROVE A[i] # A[j]
    BY <1>4 DEF FW!IsInjective
  <2>1. PICK x, y \in 1..n : x < y /\ seq[x] = A[i] /\ seq[y] = A[j]
    BY <1>1, <1>2 DEF Picked
  <2> QED BY <1>7, <2>1 DEF FW!IsInjective
<1> QED BY <1>4, <1>6, <1>7 DEF A

LEMMA Orders ==
  /\ FW!InitOrder \in Seq(FW!Builtins) /\ FW!IsInjective(FW!InitOrder)
  /\ FW!StopOrder \in Seq(FW!Builtins) /\ FW!IsInjective(FW!StopOrder)
  /\ FW!StartOrder \in Seq(FW!Builtins) /\ FW!IsInjective(FW!StartOrder)
  /\ FW!Range(FW!InitOrder) = FW!Builtins
  /\ FW!Range(FW!StopOrder) = FW!Builtins \ {"metrics"}
  /\ "metrics" \notin FW!Range(FW!StartOrder)
  /\ "logger" \in FW!Builtins
BY DEF FW!InitOrder, FW!StopOrder, FW!StartOrder, FW!Builtins, FW!Range, FW!IsInjective

(* The units of the program, and what stop takes down of them.             *)
Units == FW!Builtins \cup Components
Stoppable == Units \ {"metrics"}

FrameworkTypeOK ==
  /\ initialized \in BOOLEAN
  /\ handles \subseteq FW!Builtins
  /\ componentOrder \in Seq(Components) /\ FW!IsInjective(componentOrder)
  /\ initializedComponentOrder \in Seq(Components) /\ FW!IsInjective(initializedComponentOrder)
  /\ op \in {"idle", "init", "initComponents", "start", "stop", "unwind"}
  /\ todo \in Seq(Units) /\ FW!IsInjective(todo)
  /\ stopFailed \subseteq Stoppable /\ up \subseteq Stoppable /\ runningUnits \subseteq up

(* What each operation has still to call.                                  *)
TodoFits ==
  /\ op = "init" => FW!Range(todo) \subseteq FW!Builtins /\ initializedComponentOrder = <<>>
  /\ op = "initComponents" => FW!Range(todo) \subseteq Components
  /\ op \in {"init", "initComponents"} => FW!Range(todo) \cap up = {}
  /\ op = "start" => FW!Range(todo) \subseteq up /\ initialized
  /\ op = "stop" => up = stopFailed \cup FW!Range(todo) /\ stopFailed \cap FW!Range(todo) = {}

(* A framework that is at rest and not initialized has nothing up.         *)
RestIsEmpty == op \in {"idle", "unwind"} /\ ~initialized => up = {}

(* The units that come down after component j.                             *)
Below(j) == FW!Builtins \cup {initializedComponentOrder[i] : i \in 1..(j - 1)}

(* Before a unit below component j, that component, if it is to stop.      *)
StopsDownwards ==
  op = "stop" =>
    \A b \in 1..Len(todo), j \in 1..Len(initializedComponentOrder) :
      todo[b] \in Below(j) /\ initializedComponentOrder[j] \in FW!Range(todo) =>
        \E a \in 1..(b - 1) : todo[a] = initializedComponentOrder[j]

FrameworkInv ==
  FrameworkTypeOK /\ TodoFits /\ RestIsEmpty /\ StopsDownwards /\ FW!NothingForgotten

LEMMA Kinds ==
  /\ Components \cap FW!Builtins = {} /\ Enabled \subseteq Components
  /\ Configured \subseteq FW!Builtins /\ "metrics" \in FW!Builtins /\ "logger" \in FW!Builtins
<1>1. "metrics" \in FW!Builtins
  BY Orders DEF FW!Builtins, FW!InitOrder, FW!Range
<1> QED BY <1>1, ServicesAssumption, Orders DEF FW!LifecycleAssumption

LEMMA RangeOf ==
  ASSUME NEW S, NEW s \in Seq(S) PROVE FW!Range(s) = {s[i] : i \in 1..Len(s)}
BY DEF FW!Range

(* The first unit of a list of distinct units, and the rest.               *)
LEMMA Front ==
  ASSUME NEW S, NEW s \in Seq(S), FW!IsInjective(s), s # <<>>
  PROVE  /\ Tail(s) \in Seq(S) /\ FW!IsInjective(Tail(s))
         /\ Head(s) \in FW!Range(s) /\ Head(s) \in S /\ Head(s) = s[1]
         /\ FW!Range(Tail(s)) = FW!Range(s) \ {Head(s)}
         /\ Len(Tail(s)) = Len(s) - 1 /\ \A i \in 1..Len(Tail(s)) : Tail(s)[i] = s[i + 1]
<1>1. /\ Tail(s) \in Seq(S) /\ Len(Tail(s)) = Len(s) - 1 /\ Len(s) \in Nat /\ Len(s) >= 1
      /\ \A i \in 1..(Len(s) - 1) : Tail(s)[i] = s[i + 1]
      /\ Head(s) = s[1] /\ Head(s) \in S
  OBVIOUS
<1>2. FW!IsInjective(Tail(s))
  <2> SUFFICES ASSUME NEW i \in 1..(Len(s) - 1), NEW j \in 1..(Len(s) - 1), Tail(s)[i] = Tail(s)[j]
               PROVE  i = j
    BY <1>1 DEF FW!IsInjective
  <2>1. i + 1 \in 1..Len(s) /\ j + 1 \in 1..Len(s) /\ s[i + 1] = s[j + 1]
    BY <1>1
  <2>2. i + 1 = j + 1
    BY <2>1 DEF FW!IsInjective
  <2> QED BY <2>2
<1>3. FW!Range(s) = {s[i] : i \in 1..Len(s)} /\ FW!Range(Tail(s)) = {Tail(s)[i] : i \in 1..(Len(s) - 1)}
  <2>1. FW!Range(Tail(s)) = {Tail(s)[i] : i \in 1..Len(Tail(s))}
    BY <1>1, RangeOf
  <2> QED BY <1>1, <2>1, RangeOf
<1>4. 1 \in 1..Len(s)
  BY <1>1
<1>5. ASSUME NEW u \in FW!Range(Tail(s)) PROVE u \in FW!Range(s) /\ u # Head(s)
  <2>1. PICK i \in 1..(Len(s) - 1) : u = s[i + 1]
    BY <1>1, <1>3, <1>5
  <2>2. i + 1 \in 1..Len(s) /\ i + 1 # 1
    BY <1>1
  <2>3. s[i + 1] # s[1]
    BY <1>4, <2>2 DEF FW!IsInjective
  <2> QED BY <1>1, <1>3, <2>1, <2>2, <2>3
<1>6. ASSUME NEW u \in FW!Range(s), u # Head(s) PROVE u \in FW!Range(Tail(s))
  <2>1. PICK i \in 1..Len(s) : u = s[i]
    BY <1>3, <1>6
  <2>2. i - 1 \in 1..(Len(s) - 1) /\ (i - 1) + 1 = i
    BY <1>1, <1>6, <2>1
  <2>3. Tail(s)[i - 1] = s[i]
    BY <1>1, <2>2
  <2> QED BY <1>3, <2>1, <2>2, <2>3
<1>7. FW!Range(Tail(s)) = FW!Range(s) \ {Head(s)}
  BY <1>5, <1>6
<1> QED BY <1>1, <1>2, <1>3, <1>4, <1>7

LEMMA Appended ==
  ASSUME NEW S, NEW s \in Seq(S), FW!IsInjective(s), NEW u \in S, u \notin FW!Range(s)
  PROVE  /\ Append(s, u) \in Seq(S) /\ FW!IsInjective(Append(s, u))
         /\ FW!Range(Append(s, u)) = FW!Range(s) \cup {u}
<1> DEFINE t == Append(s, u)
<1>1. /\ t \in Seq(S) /\ Len(t) = Len(s) + 1 /\ Len(s) \in Nat /\ t[Len(s) + 1] = u
      /\ \A i \in 1..Len(s) : t[i] = s[i]
  OBVIOUS
<1> HIDE DEF t
<1>2. FW!Range(s) = {s[i] : i \in 1..Len(s)} /\ FW!Range(t) = {t[i] : i \in 1..(Len(s) + 1)}
  <2>1. FW!Range(t) = {t[i] : i \in 1..Len(t)}
    BY <1>1, RangeOf
  <2> QED BY <1>1, <2>1, RangeOf
<1>3. \A i \in 1..(Len(s) + 1) : i \in 1..Len(s) \/ i = Len(s) + 1
  BY <1>1
<1>4. Len(s) + 1 \in 1..(Len(s) + 1) /\ 1..Len(s) \subseteq 1..(Len(s) + 1)
  BY <1>1
<1>5. FW!Range(t) = FW!Range(s) \cup {u}
  BY <1>1, <1>2, <1>3, <1>4
<1>6. FW!IsInjective(t)
  <2> SUFFICES ASSUME NEW i \in 1..(Len(s) + 1), NEW j \in 1..(Len(s) + 1), t[i] = t[j] PROVE i = j
    BY <1>1 DEF FW!IsInjective
  <2>1. CASE i \in 1..Len(s) /\ j \in 1..Len(s)
    BY <1>1, <2>1 DEF FW!IsInjective
  <2>2. CASE i = Len(s) + 1 \/ j = Len(s) + 1
    BY <1>1, <1>2, <1>3, <2>2
  <2> QED BY <1>3, <2>1, <2>2
<1> QED BY <1>1, <1>5, <1>6 DEF t

(* One list after another that shares nothing with it.                     *)
LEMMA Joined ==
  ASSUME NEW S, NEW s \in Seq(S), FW!IsInjective(s), NEW t \in Seq(S), FW!IsInjective(t),
         FW!Range(s) \cap FW!Range(t) = {}
  PROVE  /\ s \o t \in Seq(S) /\ FW!IsInjective(s \o t)
         /\ FW!Range(s \o t) = FW!Range(s) \cup FW!Range(t)
<1> DEFINE r == s \o t
<1>1. /\ r \in Seq(S) /\ Len(r) = Len(s) + Len(t) /\ Len(s) \in Nat /\ Len(t) \in Nat
      /\ \A i \in 1..(Len(s) + Len(t)) : r[i] = IF i <= Len(s) THEN s[i] ELSE t[i - Len(s)]
  OBVIOUS
<1> HIDE DEF r
<1>2. /\ FW!Range(s) = {s[i] : i \in 1..Len(s)} /\ FW!Range(t) = {t[i] : i \in 1..Len(t)}
      /\ FW!Range(r) = {r[i] : i \in 1..(Len(s) + Len(t))}
  <2>1. FW!Range(r) = {r[i] : i \in 1..Len(r)}
    BY <1>1, RangeOf
  <2> QED BY <1>1, <2>1, RangeOf
<1>3. \A i \in 1..(Len(s) + Len(t)) : i \in 1..Len(s) \/ i - Len(s) \in 1..Len(t)
  BY <1>1
<1>4. /\ \A i \in 1..Len(s) : i \in 1..(Len(s) + Len(t)) /\ r[i] = s[i]
      /\ \A i \in 1..Len(t) : i + Len(s) \in 1..(Len(s) + Len(t)) /\ r[i + Len(s)] = t[i]
      /\ \A i \in 1..(Len(s) + Len(t)) : i - Len(s) \in 1..Len(t) => r[i] = t[i - Len(s)]
  BY <1>1
<1>5. FW!Range(r) = FW!Range(s) \cup FW!Range(t)
  <2>1. ASSUME NEW u \in FW!Range(r) PROVE u \in FW!Range(s) \cup FW!Range(t)
    <3>1. PICK i \in 1..(Len(s) + Len(t)) : u = r[i]
      BY <1>2, <2>1
    <3> QED BY <1>2, <1>3, <1>4, <3>1
  <2>2. \A u \in FW!Range(s) : u \in FW!Range(r)
    BY <1>2, <1>4
  <2>3. \A u \in FW!Range(t) : u \in FW!Range(r)
    BY <1>2, <1>4
  <2> QED BY <2>1, <2>2, <2>3
<1>6. FW!IsInjective(r)
  <2> SUFFICES ASSUME NEW i \in 1..(Len(s) + Len(t)), NEW j \in 1..(Len(s) + Len(t)), r[i] = r[j]
               PROVE  i = j
    BY <1>1 DEF FW!IsInjective
  <2>1. CASE i \in 1..Len(s) /\ j \in 1..Len(s)
    BY <1>4, <2>1 DEF FW!IsInjective
  <2>2. CASE i - Len(s) \in 1..Len(t) /\ j - Len(s) \in 1..Len(t)
    <3>1. i - Len(s) = j - Len(s)
      BY <1>4, <2>2 DEF FW!IsInjective
    <3> QED BY <1>1, <3>1
  <2>3. CASE i \in 1..Len(s) /\ j - Len(s) \in 1..Len(t)
    BY <1>2, <1>4, <2>3
  <2>4. CASE j \in 1..Len(s) /\ i - Len(s) \in 1..Len(t)
    BY <1>2, <1>4, <2>4
  <2> QED BY <1>3, <2>1, <2>2, <2>3, <2>4
<1> QED BY <1>1, <1>5, <1>6 DEF r

LEMMA Reversed ==
  ASSUME NEW S, NEW s \in Seq(S), FW!IsInjective(s)
  PROVE  /\ FW!Reverse(s) \in Seq(S) /\ FW!IsInjective(FW!Reverse(s))
         /\ FW!Range(FW!Reverse(s)) = FW!Range(s) /\ Len(FW!Reverse(s)) = Len(s)
         /\ \A i \in 1..Len(s) : FW!Reverse(s)[i] = s[(Len(s) - i) + 1]
<1> DEFINE r == FW!Reverse(s)
<1>0. Len(s) \in Nat /\ \A i \in 1..Len(s) : (Len(s) - i) + 1 \in 1..Len(s) /\ s[i] \in S
  OBVIOUS
<1>1. r \in Seq(S) /\ Len(r) = Len(s) /\ \A i \in 1..Len(s) : r[i] = s[(Len(s) - i) + 1]
  BY <1>0 DEF FW!Reverse
<1> HIDE DEF r
<1>2. FW!Range(s) = {s[i] : i \in 1..Len(s)} /\ FW!Range(r) = {r[i] : i \in 1..Len(s)}
  <2>1. FW!Range(r) = {r[i] : i \in 1..Len(r)}
    BY <1>1, RangeOf
  <2> QED BY <1>1, <2>1, RangeOf
<1>3. \A i \in 1..Len(s) : s[i] = r[(Len(s) - i) + 1]
  <2> SUFFICES ASSUME NEW i \in 1..Len(s) PROVE s[i] = r[(Len(s) - i) + 1]
    OBVIOUS
  <2>1. (Len(s) - ((Len(s) - i) + 1)) + 1 = i
    BY <1>0
  <2> QED BY <1>0, <1>1, <2>1
<1>4. FW!Range(r) = FW!Range(s)
  <2>1. ASSUME NEW i \in 1..Len(s) PROVE \E j \in 1..Len(s) : r[i] = s[j]
    <3>1. (Len(s) - i) + 1 \in 1..Len(s) /\ r[i] = s[(Len(s) - i) + 1]
      BY <1>0, <1>1
    <3> QED BY <3>1
  <2>2. ASSUME NEW i \in 1..Len(s) PROVE \E j \in 1..Len(s) : s[i] = r[j]
    <3>1. (Len(s) - i) + 1 \in 1..Len(s) /\ s[i] = r[(Len(s) - i) + 1]
      BY <1>0, <1>3
    <3> QED BY <3>1
  <2> QED BY <1>2, <2>1, <2>2
<1>5. FW!IsInjective(r)
  <2> SUFFICES ASSUME NEW i \in 1..Len(s), NEW j \in 1..Len(s), r[i] = r[j] PROVE i = j
    BY <1>1 DEF FW!IsInjective
  <2> DEFINE x == (Len(s) - i) + 1
             y == (Len(s) - j) + 1
  <2>0. x \in 1..Len(s) /\ y \in 1..Len(s) /\ s[x] = s[y]
    BY <1>0, <1>1
  <2>1. x = y
    <3> HIDE DEF x, y
    <3> QED BY <2>0 DEF FW!IsInjective
  <2> QED BY <1>0, <2>1
<1> QED BY <1>1, <1>4, <1>5 DEF r

LEMMA EmptyList ==
  FW!Range(<<>>) = {} /\ FW!IsInjective(<<>>) /\ \A S : <<>> \in Seq(S)
BY DEF FW!Range, FW!IsInjective

LEMMA InitFramework == FW!Init => FrameworkInv
<1> SUFFICES ASSUME FW!Init PROVE FrameworkInv
  OBVIOUS
<1> USE EmptyList DEF FW!Init
<1>1. FrameworkTypeOK
  BY DEF FrameworkTypeOK
<1>2. TodoFits /\ RestIsEmpty /\ StopsDownwards
  BY DEF TodoFits, RestIsEmpty, StopsDownwards
<1>3. FW!NothingForgotten
  BY DEF FW!NothingForgotten, FW!Referenced
<1> QED BY <1>1, <1>2, <1>3 DEF FrameworkInv

(* What stop is to call: everything f refers to, each once, components in  *)
(* the reverse of their initialization and built-ins after them.           *)
LEMMA StopListFits ==
  ASSUME FrameworkTypeOK
  PROVE  /\ FW!StopList \in Seq(Units) /\ FW!IsInjective(FW!StopList)
         /\ FW!Range(FW!StopList) = FW!Referenced
         /\ Len(FW!StopList) \in Nat /\ Len(initializedComponentOrder) <= Len(FW!StopList)
         /\ \A i \in 1..Len(initializedComponentOrder) :
               FW!StopList[i] = initializedComponentOrder[(Len(initializedComponentOrder) - i) + 1]
         /\ \A i \in 1..Len(FW!StopList) :
               FW!StopList[i] \in FW!Builtins => i > Len(initializedComponentOrder)
<1> DEFINE s == initializedComponentOrder
           r == FW!Reverse(s)
           t == FW!Among(FW!StopOrder, handles)
<1>0. s \in Seq(Components) /\ FW!IsInjective(s) /\ handles \subseteq FW!Builtins
  BY DEF FrameworkTypeOK
<1>1. /\ r \in Seq(Components) /\ FW!IsInjective(r) /\ FW!Range(r) = FW!Range(s) /\ Len(r) = Len(s)
      /\ \A i \in 1..Len(s) : r[i] = s[(Len(s) - i) + 1]
  BY <1>0, Reversed
<1>2. t \in Seq(FW!Builtins) /\ FW!IsInjective(t) /\ FW!Range(t) = handles \ {"metrics"}
  BY <1>0, Orders, AmongPicks
<1> HIDE DEF r, t
<1>3. FW!Range(r) \subseteq Components /\ FW!Range(t) \subseteq FW!Builtins
  BY <1>1, <1>2, RangeOf
<1>4. r \in Seq(Units) /\ t \in Seq(Units) /\ FW!Range(r) \cap FW!Range(t) = {}
  BY <1>1, <1>2, <1>3, Kinds DEF Units
<1>5. r \o t \in Seq(Units) /\ FW!IsInjective(r \o t) /\ FW!Range(r \o t) = FW!Range(r) \cup FW!Range(t)
  BY <1>1, <1>2, <1>4, Joined
<1>6. FW!StopList = r \o t
  BY DEF FW!StopList, r, t
<1>7. FW!Range(FW!StopList) = FW!Referenced
  BY <1>1, <1>2, <1>5, <1>6 DEF FW!Referenced
<1>8. /\ Len(r \o t) = Len(s) + Len(t) /\ Len(s) \in Nat /\ Len(t) \in Nat
      /\ \A i \in 1..Len(s) : (r \o t)[i] = r[i] /\ r[i] \in Components
  <2>1. \A i \in 1..Len(s) : r[i] \in Components
    BY <1>1
  <2>2. Len(s) \in Nat /\ Len(t) \in Nat /\ Len(r) = Len(s)
    BY <1>0, <1>1, <1>2
  <2>3. Len(r \o t) = Len(r) + Len(t) /\ \A i \in 1..Len(r) : (r \o t)[i] = r[i]
    BY <1>4
  <2> QED BY <2>1, <2>2, <2>3
<1>9. \A i \in 1..Len(r \o t) : (r \o t)[i] \in FW!Builtins => i > Len(s)
  BY <1>8, Kinds
<1> QED BY <1>1, <1>5, <1>6, <1>7, <1>8, <1>9

LEMMA EnterStopInv ==
  ASSUME FrameworkInv, op # "stop", FW!EnterStop,
         UNCHANGED <<initializing, initialized, started, frameworkStopped, handles,
                     componentOrder, initializedComponentOrder, up, runningUnits>>
  PROVE  FrameworkInv'
<1> USE DEF FrameworkInv, FW!EnterStop
<1>1. FrameworkTypeOK'
  BY StopListFits DEF FrameworkTypeOK
<1>2. TodoFits' /\ RestIsEmpty'
  BY StopListFits DEF TodoFits, RestIsEmpty, FW!NothingForgotten
<1>3. FW!NothingForgotten'
  BY DEF FW!NothingForgotten, FW!Referenced
<1>4. StopsDownwards'
  <2> DEFINE s == initializedComponentOrder
             l == Len(s)
  <2> SUFFICES ASSUME NEW b \in 1..Len(todo'), NEW j \in 1..l, todo'[b] \in Below(j)
               PROVE  \E a \in 1..(b - 1) : todo'[a] = s[j]
    BY DEF StopsDownwards, Below
  <2>0. s \in Seq(Components) /\ FW!IsInjective(s) /\ l \in Nat /\ todo' = FW!StopList
    BY DEF FrameworkTypeOK
  <2>1. (l - j) + 1 \in 1..l /\ (l - ((l - j) + 1)) + 1 = j
    BY <2>0
  <2>2. todo'[(l - j) + 1] = s[j]
    BY <2>0, <2>1, StopListFits
  <2>3. (l - j) + 1 <= b - 1
    <3>1. CASE todo'[b] \in FW!Builtins
      <4>1. b > l
        BY <2>0, <3>1, StopListFits
      <4> QED BY <2>0, <2>1, <4>1
    <3>2. CASE todo'[b] \notin FW!Builtins
      <4>1. PICK i \in 1..(j - 1) : todo'[b] = s[i]
        BY <3>2 DEF Below
      <4>2. i \in 1..l /\ (l - i) + 1 \in 1..l /\ (l - ((l - i) + 1)) + 1 = i
        BY <2>0
      <4>3. todo'[(l - i) + 1] = s[i]
        BY <2>0, <4>2, StopListFits
      <4>4. (l - i) + 1 \in 1..Len(todo')
        BY <2>0, <4>2, StopListFits
      <4>5. b = (l - i) + 1
        <5>1. FW!IsInjective(todo') /\ todo' \in Seq(Units) /\ todo'[b] = todo'[(l - i) + 1]
          BY <2>0, <4>1, <4>3, StopListFits
        <5> QED BY <4>4, <5>1 DEF FW!IsInjective
      <4> QED BY <2>0, <4>2, <4>5
    <3> QED BY <3>1, <3>2
  <2>4. (l - j) + 1 \in 1..(b - 1)
    BY <2>0, <2>1, <2>3
  <2> QED BY <2>2, <2>4
<1> QED BY <1>1, <1>2, <1>3, <1>4

LEMMA RegisterComponentInv ==
  ASSUME FrameworkInv, NEW c \in Components, FW!RegisterComponent(c) PROVE FrameworkInv'
<1> USE DEF FrameworkInv, FW!RegisterComponent, FW!flags
<1>1. FrameworkTypeOK'
  BY Appended DEF FrameworkTypeOK
<1>2. TodoFits' /\ RestIsEmpty' /\ StopsDownwards' /\ FW!NothingForgotten'
  BY DEF TodoFits, RestIsEmpty, StopsDownwards, Below, FW!NothingForgotten, FW!Referenced
<1> QED BY <1>1, <1>2

LEMMA StopInv == ASSUME FrameworkInv, FW!Stop PROVE FrameworkInv'
BY EnterStopInv DEF FW!Stop

LEMMA StopUnitInv == ASSUME FrameworkInv, FW!StopUnit PROVE FrameworkInv'
<1> USE DEF FrameworkInv, FW!StopUnit, FW!flags
<1> DEFINE u == Head(todo)
<1>0. /\ op = "stop" /\ todo' = Tail(todo) /\ todo \in Seq(Units) /\ FW!IsInjective(todo)
      /\ todo # <<>>
  BY DEF FrameworkTypeOK
<1>1. /\ Tail(todo) \in Seq(Units) /\ FW!IsInjective(Tail(todo))
      /\ u \in FW!Range(todo) /\ u = todo[1]
      /\ FW!Range(Tail(todo)) = FW!Range(todo) \ {u}
      /\ Len(Tail(todo)) = Len(todo) - 1 /\ \A i \in 1..Len(Tail(todo)) : Tail(todo)[i] = todo[i + 1]
  BY <1>0, Front
<1>2. u \in up /\ u \in Stoppable
  BY <1>0, <1>1 DEF TodoFits, FrameworkTypeOK
<1> HIDE DEF u
<1>3. FrameworkTypeOK'
  BY <1>0, <1>1, <1>2 DEF FrameworkTypeOK, u
<1>4. TodoFits' /\ RestIsEmpty'
  BY <1>0, <1>1, <1>2 DEF TodoFits, RestIsEmpty, u
<1>5. FW!NothingForgotten'
  BY <1>0 DEF FW!NothingForgotten, FW!Referenced
<1>6. StopsDownwards'
  <2> SUFFICES ASSUME NEW b \in 1..Len(todo'), NEW j \in 1..Len(initializedComponentOrder),
                      todo'[b] \in Below(j), initializedComponentOrder[j] \in FW!Range(todo')
               PROVE  \E a \in 1..(b - 1) : todo'[a] = initializedComponentOrder[j]
    <3>1. ASSUME NEW j \in 1..Len(initializedComponentOrder) PROVE Below(j)' = Below(j)
      BY DEF Below
    <3> QED BY <3>1 DEF StopsDownwards
  <2>1. Len(todo) \in Nat /\ b + 1 \in 1..Len(todo) /\ todo[b + 1] \in Below(j)
    BY <1>0, <1>1
  <2>2. initializedComponentOrder[j] \in FW!Range(todo) /\ initializedComponentOrder[j] # todo[1]
    BY <1>0, <1>1
  <2>3. PICK a \in 1..((b + 1) - 1) : todo[a] = initializedComponentOrder[j]
    BY <1>0, <2>1, <2>2 DEF StopsDownwards
  <2>4. a # 1 /\ a - 1 \in 1..(b - 1) /\ (a - 1) + 1 = a /\ a - 1 \in 1..Len(todo')
    BY <1>0, <1>1, <2>1, <2>2, <2>3
  <2> QED BY <1>0, <1>1, <2>3, <2>4
<1> QED BY <1>3, <1>4, <1>5, <1>6

LEMMA StopFinishInv == ASSUME FrameworkInv, FW!StopFinish PROVE FrameworkInv'
<1> USE DEF FrameworkInv, FW!StopFinish
<1>0. op' = "unwind" /\ up = stopFailed /\ up \subseteq FW!Referenced
  BY EmptyList DEF TodoFits, FW!NothingForgotten
<1>1. /\ initializedComponentOrder' \in Seq(Components) /\ FW!IsInjective(initializedComponentOrder')
      /\ FW!Range(initializedComponentOrder') = FW!Range(initializedComponentOrder) \cap stopFailed
  BY AmongPicks DEF FW!remaining, FrameworkTypeOK
<1>2. FrameworkTypeOK'
  BY <1>1 DEF FrameworkTypeOK, FW!keptHandles, FW!retry
<1>3. TodoFits' /\ StopsDownwards'
  BY <1>0 DEF TodoFits, StopsDownwards
<1>4. RestIsEmpty'
  BY <1>0 DEF RestIsEmpty, FW!retry
<1>5. FW!Referenced' = up
  <2>1. FW!Referenced' = (handles' \ {"metrics"}) \cup (FW!Range(initializedComponentOrder) \cap stopFailed)
    BY <1>1 DEF FW!Referenced
  <2>2. handles' \ {"metrics"} = (handles \ {"metrics"}) \cap stopFailed
    BY DEF FW!keptHandles
  <2>3. "metrics" \notin stopFailed
    BY DEF FrameworkTypeOK, Stoppable
  <2> QED BY <1>0, <2>1, <2>2, <2>3 DEF FW!Referenced
<1>6. FW!NothingForgotten'
  BY <1>0, <1>5 DEF FW!NothingForgotten
<1> QED BY <1>2, <1>3, <1>4, <1>6

LEMMA UnwindInv == ASSUME FrameworkInv, FW!Unwind PROVE FrameworkInv'
<1> USE DEF FrameworkInv, FW!Unwind
<1>1. FrameworkTypeOK'
  BY DEF FrameworkTypeOK
<1>2. TodoFits' /\ RestIsEmpty' /\ StopsDownwards' /\ FW!NothingForgotten'
  BY DEF TodoFits, RestIsEmpty, StopsDownwards, FW!NothingForgotten, FW!Referenced
<1> QED BY <1>1, <1>2

LEMMA BeginInitInv == ASSUME FrameworkInv, FW!BeginInit PROVE FrameworkInv'
<1> USE DEF FrameworkInv, FW!BeginInit
<1>1. up = {} /\ FW!Referenced = {}
  BY DEF RestIsEmpty, FW!NothingForgotten
<1>2. initializedComponentOrder = <<>>
  <2>1. FW!Range(initializedComponentOrder) = {}
    BY <1>1 DEF FW!Referenced
  <2>2. initializedComponentOrder \in Seq(Components)
    BY DEF FrameworkTypeOK
  <2>3. {initializedComponentOrder[i] : i \in 1..Len(initializedComponentOrder)} = {}
    BY <2>1, <2>2, RangeOf
  <2> QED BY <2>2, <2>3
<1>3. /\ todo' \in Seq(FW!Builtins) /\ FW!IsInjective(todo')
      /\ FW!Range(todo') \subseteq FW!Builtins
  BY Orders, AmongPicks
<1>4. todo' \in Seq(Units)
  BY <1>3 DEF Units
<1>5. FrameworkTypeOK'
  BY <1>3, <1>4 DEF FrameworkTypeOK
<1>6. TodoFits' /\ RestIsEmpty' /\ StopsDownwards'
  BY <1>1, <1>2, <1>3 DEF TodoFits, RestIsEmpty, StopsDownwards
<1>7. FW!NothingForgotten'
  BY <1>1 DEF FW!NothingForgotten, FW!Referenced
<1> QED BY <1>5, <1>6, <1>7

LEMMA InitBuiltinInv == ASSUME FrameworkInv, FW!InitBuiltin PROVE FrameworkInv'
<1> USE DEF FrameworkInv, FW!InitBuiltin, FW!flags
<1> DEFINE u == Head(todo)
<1>0. /\ op = "init" /\ todo' = Tail(todo) /\ todo \in Seq(Units) /\ FW!IsInjective(todo)
      /\ todo # <<>>
  BY DEF FrameworkTypeOK
<1>1. /\ Tail(todo) \in Seq(Units) /\ FW!IsInjective(Tail(todo)) /\ u \in FW!Range(todo)
      /\ FW!Range(Tail(todo)) = FW!Range(todo) \ {u}
  BY <1>0, Front
<1>2. u \in FW!Builtins
  BY <1>0, <1>1 DEF TodoFits
<1>3. handles' = handles \cup {u} /\ up' = up \cup ({u} \ {"metrics"})
  OBVIOUS
<1> HIDE DEF u
<1>4. FrameworkTypeOK'
  BY <1>0, <1>1, <1>2, <1>3 DEF FrameworkTypeOK, Stoppable, Units
<1>5. TodoFits' /\ RestIsEmpty' /\ StopsDownwards'
  BY <1>0, <1>1, <1>3 DEF TodoFits, RestIsEmpty, StopsDownwards
<1>6. FW!NothingForgotten'
  BY <1>0, <1>3 DEF FW!NothingForgotten, FW!Referenced
<1> QED BY <1>4, <1>5, <1>6

LEMMA SnapshotComponentsInv == ASSUME FrameworkInv, FW!SnapshotComponents PROVE FrameworkInv'
<1> USE DEF FrameworkInv, FW!SnapshotComponents, FW!flags
<1>1. /\ todo' \in Seq(Components) /\ FW!IsInjective(todo') /\ FW!Range(todo') \subseteq Components
  <2>1. todo' \in Seq(Components) /\ FW!IsInjective(todo')
    BY AmongPicks DEF FrameworkTypeOK
  <2> QED BY <2>1, RangeOf
<1>2. up \subseteq FW!Builtins
  BY EmptyList DEF TodoFits, FW!NothingForgotten, FW!Referenced, FrameworkTypeOK
<1>3. FrameworkTypeOK'
  BY <1>1 DEF FrameworkTypeOK, Units
<1>4. TodoFits' /\ RestIsEmpty' /\ StopsDownwards'
  BY <1>1, <1>2, Kinds DEF TodoFits, RestIsEmpty, StopsDownwards
<1>5. FW!NothingForgotten'
  BY DEF FW!NothingForgotten, FW!Referenced
<1> QED BY <1>3, <1>4, <1>5

LEMMA InitComponentInv == ASSUME FrameworkInv, FW!InitComponent PROVE FrameworkInv'
<1> USE DEF FrameworkInv, FW!InitComponent, FW!flags
<1> DEFINE u == Head(todo)
           s == initializedComponentOrder
<1>0. /\ op = "initComponents" /\ todo' = Tail(todo) /\ todo \in Seq(Units) /\ FW!IsInjective(todo)
      /\ todo # <<>> /\ s \in Seq(Components) /\ FW!IsInjective(s)
  BY DEF FrameworkTypeOK
<1>1. /\ Tail(todo) \in Seq(Units) /\ FW!IsInjective(Tail(todo)) /\ u \in FW!Range(todo)
      /\ FW!Range(Tail(todo)) = FW!Range(todo) \ {u}
  BY <1>0, Front
<1>2. u \in Components /\ u \notin up
  BY <1>0, <1>1 DEF TodoFits
<1>3. up = FW!Referenced /\ u \notin FW!Range(s)
  BY <1>0, <1>2 DEF FW!NothingForgotten, FW!Referenced
<1>4. s' = Append(s, u) /\ up' = up \cup {u}
  OBVIOUS
<1> HIDE DEF u
<1>5. s' \in Seq(Components) /\ FW!IsInjective(s') /\ FW!Range(s') = FW!Range(s) \cup {u}
  BY <1>0, <1>2, <1>3, <1>4, Appended
<1>6. FrameworkTypeOK'
  BY <1>0, <1>1, <1>2, <1>4, <1>5, Kinds DEF FrameworkTypeOK, Stoppable, Units
<1>7. TodoFits' /\ RestIsEmpty' /\ StopsDownwards'
  BY <1>0, <1>1, <1>4 DEF TodoFits, RestIsEmpty, StopsDownwards
<1>8. FW!NothingForgotten'
  BY <1>0, <1>3, <1>4, <1>5 DEF FW!NothingForgotten, FW!Referenced
<1> QED BY <1>6, <1>7, <1>8

LEMMA InitFailsInv == ASSUME FrameworkInv, FW!InitFails PROVE FrameworkInv'
BY EnterStopInv DEF FW!InitFails

LEMMA InitSucceedsInv == ASSUME FrameworkInv, FW!InitSucceeds PROVE FrameworkInv'
<1> USE DEF FrameworkInv, FW!InitSucceeds
<1>1. FrameworkTypeOK'
  BY DEF FrameworkTypeOK
<1>2. TodoFits' /\ RestIsEmpty' /\ StopsDownwards' /\ FW!NothingForgotten'
  BY DEF TodoFits, RestIsEmpty, StopsDownwards, FW!NothingForgotten, FW!Referenced
<1> QED BY <1>1, <1>2

LEMMA BeginStartInv == ASSUME FrameworkInv, FW!BeginStart PROVE FrameworkInv'
<1> USE DEF FrameworkInv, FW!BeginStart, FW!flags, FW!StartGuard
<1> DEFINE s == FW!Among(FW!StartOrder, handles)
           t == FW!Among(initializedComponentOrder, Enabled)
<1>0. /\ initializedComponentOrder \in Seq(Components) /\ FW!IsInjective(initializedComponentOrder)
      /\ handles \subseteq FW!Builtins
  BY DEF FrameworkTypeOK
<1>1. s \in Seq(FW!Builtins) /\ FW!IsInjective(s) /\ FW!Range(s) \subseteq handles \ {"metrics"}
  BY Orders, AmongPicks
<1>2. /\ t \in Seq(Components) /\ FW!IsInjective(t)
      /\ FW!Range(t) \subseteq FW!Range(initializedComponentOrder)
  BY <1>0, AmongPicks
<1> HIDE DEF s, t
<1>3. FW!Range(t) \subseteq Components
  BY <1>2, RangeOf
<1>4. s \in Seq(Units) /\ t \in Seq(Units) /\ FW!Range(s) \cap FW!Range(t) = {}
  BY <1>0, <1>1, <1>2, <1>3, Kinds DEF Units
<1>5. /\ s \o t \in Seq(Units) /\ FW!IsInjective(s \o t)
      /\ FW!Range(s \o t) = FW!Range(s) \cup FW!Range(t)
  BY <1>1, <1>2, <1>4, Joined
<1>6. todo' = s \o t
  BY DEF FW!StartList, s, t
<1>7. FrameworkTypeOK'
  BY <1>5, <1>6 DEF FrameworkTypeOK
<1>8. TodoFits' /\ RestIsEmpty' /\ StopsDownwards'
  BY <1>1, <1>2, <1>5, <1>6 DEF TodoFits, RestIsEmpty, StopsDownwards, FW!NothingForgotten, FW!Referenced
<1>9. FW!NothingForgotten'
  BY DEF FW!NothingForgotten, FW!Referenced
<1> QED BY <1>7, <1>8, <1>9

LEMMA StartUnitInv == ASSUME FrameworkInv, FW!StartUnit PROVE FrameworkInv'
<1> USE DEF FrameworkInv, FW!StartUnit, FW!flags
<1>0. /\ op = "start" /\ todo' = Tail(todo) /\ todo \in Seq(Units) /\ FW!IsInjective(todo)
      /\ todo # <<>>
  BY DEF FrameworkTypeOK
<1>1. /\ Tail(todo) \in Seq(Units) /\ FW!IsInjective(Tail(todo)) /\ Head(todo) \in FW!Range(todo)
      /\ FW!Range(Tail(todo)) \subseteq FW!Range(todo)
  BY <1>0, Front
<1>2. FrameworkTypeOK'
  BY <1>0, <1>1 DEF FrameworkTypeOK, TodoFits
<1>3. TodoFits' /\ RestIsEmpty' /\ StopsDownwards' /\ FW!NothingForgotten'
  BY <1>0, <1>1 DEF TodoFits, RestIsEmpty, StopsDownwards, FW!NothingForgotten, FW!Referenced
<1> QED BY <1>2, <1>3

LEMMA StartFailsInv == ASSUME FrameworkInv, FW!StartFails PROVE FrameworkInv'
BY EnterStopInv DEF FW!StartFails

LEMMA StartSucceedsInv == ASSUME FrameworkInv, FW!StartSucceeds PROVE FrameworkInv'
<1> USE DEF FrameworkInv, FW!StartSucceeds
<1>1. FrameworkTypeOK'
  BY DEF FrameworkTypeOK
<1>2. TodoFits' /\ RestIsEmpty' /\ StopsDownwards' /\ FW!NothingForgotten'
  BY DEF TodoFits, RestIsEmpty, StopsDownwards, FW!NothingForgotten, FW!Referenced
<1> QED BY <1>1, <1>2

LEMMA FrameworkStep == FrameworkInv /\ [FW!Next]_FW!vars => FrameworkInv'
<1> SUFFICES ASSUME FrameworkInv, [FW!Next]_FW!vars PROVE FrameworkInv'
  OBVIOUS
<1>1. CASE UNCHANGED FW!vars
  BY <1>1 DEF FrameworkInv, FrameworkTypeOK, TodoFits, RestIsEmpty, StopsDownwards, Below,
     FW!NothingForgotten, FW!Referenced, FW!vars, FW!flags
<1>2. CASE FW!Next
  BY <1>2, RegisterComponentInv, StopInv, StopUnitInv, StopFinishInv, UnwindInv, BeginInitInv,
     InitBuiltinInv, SnapshotComponentsInv, InitComponentInv, InitFailsInv, InitSucceedsInv,
     BeginStartInv, StartUnitInv, StartFailsInv, StartSucceedsInv DEF FW!Next
<1> QED BY <1>1, <1>2

(* FrameworkInv is inductive.                                              *)
LEMMA FrameworkAlways == FW!Spec => []FrameworkInv
BY InitFramework, FrameworkStep, PTL DEF FW!Spec

(* However Init, Start and Stop fail and follow one another, the framework *)
(* has a handle of everything that is up, so that Stop reaches it; and a   *)
(* framework at rest that is not initialized has left nothing up.          *)
(* (framework.go:247-652.)                                                 *)
THEOREM FrameworkKnowsWhatIsUp == FW!Spec => []NothingLeftBehind
<1>1. FrameworkInv => NothingLeftBehind
  <2> SUFFICES ASSUME FrameworkInv PROVE FW!NothingForgotten /\ FW!NoLeakWhenIdle
    BY DEF NothingLeftBehind, FW!NothingLeftBehind
  <2> QED BY DEF FrameworkInv, RestIsEmpty, FW!NoLeakWhenIdle, FrameworkTypeOK
<1> QED BY <1>1, FrameworkAlways, PTL

(* No unit is initialised while it is up and none is stopped that is not,  *)
(* also when an Init or a Start has failed half-way and is unwound.        *)
(* (framework.go:247-652.)                                                 *)
THEOREM NothingStopsOrStartsTwice == FW!Spec => []NoDoubleStopNoDoubleInit
<1>1. FrameworkInv => NoDoubleStopNoDoubleInit
  BY DEF FrameworkInv, TodoFits, NoDoubleStopNoDoubleInit, FW!NoDoubleStopNoDoubleInit
<1> QED BY <1>1, FrameworkAlways, PTL

(* A component or builtin goes down only when every component that was     *)
(* initialised after it has gone down or has failed to stop.               *)
(* (framework.go:471-652.)                                                 *)
THEOREM DependentsStopFirst == FW!Spec => StopsComponentsInReverse
<1> DEFINE InReverse == \A j \in DOMAIN initializedComponentOrder :
             LET later == initializedComponentOrder[j]
                 below == FW!Builtins \cup {initializedComponentOrder[i] : i \in 1..(j - 1)}
             IN (up \ up') \cap below # {} => later \notin up \/ later \in stopFailed
<1>1. ASSUME FrameworkInv, FW!Next PROVE InReverse
  <2> USE <1>1 DEF FrameworkInv
  <2>1. CASE FW!StopUnit
    <3> SUFFICES ASSUME NEW j \in 1..Len(initializedComponentOrder),
                        (up \ up') \cap Below(j) # {},
                        initializedComponentOrder[j] \in up,
                        initializedComponentOrder[j] \notin stopFailed
                 PROVE  FALSE
      BY DEF Below, FrameworkTypeOK
    <3>0. op = "stop" /\ todo # <<>> /\ todo \in Seq(Units) /\ FW!IsInjective(todo)
      BY <2>1 DEF FW!StopUnit, FrameworkTypeOK
    <3>1. Head(todo) \in Below(j) /\ Head(todo) = todo[1]
      BY <2>1, <3>0 DEF FW!StopUnit
    <3>2. initializedComponentOrder[j] \in FW!Range(todo)
      BY <3>0 DEF TodoFits
    <3>3. 1 \in 1..Len(todo)
      BY <3>0
    <3>4. \E a \in 1..(1 - 1) : todo[a] = initializedComponentOrder[j]
      BY <3>0, <3>1, <3>2, <3>3 DEF StopsDownwards
    <3> QED BY <3>4
  <2>2. CASE ~FW!StopUnit
    <3>1. up \subseteq up'
      BY <1>1, <2>2 DEF FW!Next, FW!RegisterComponent, FW!BeginInit, FW!InitBuiltin,
         FW!SnapshotComponents, FW!InitComponent, FW!InitFails, FW!InitSucceeds, FW!BeginStart,
         FW!StartUnit, FW!StartFails, FW!StartSucceeds, FW!Stop, FW!StopFinish, FW!Unwind
    <3> QED BY <3>1
  <2> QED BY <2>1, <2>2
<1>2. FrameworkInv /\ [FW!Next]_FW!vars => [InReverse]_FW!vars
  BY <1>1
<1> QED
  BY <1>2, FrameworkAlways, FrameworkStep, PTL
     DEF FW!Spec, StopsComponentsInReverse, FW!StopsComponentsInReverse

-----------------------------------------------------------------------------
(* The rate limiters.                                                      *)
Times(g, s, t) == {i \in 1..Len(g) : g[i] \in s..t}

LimiterTypeOK ==
  /\ limiterKind \in {"bucket", "window"}
  /\ now \in Nat /\ tokens \in 0..Capacity /\ lastRefill \in 0..now
  /\ timestamps \in Seq(Nat) /\ granted \in Seq(Nat)
  /\ \A i \in 1..Len(granted) : granted[i] <= now

(* What the bucket has handed out since any time and what it still has are *)
(* no more than its capacity and what has flowed in since.                 *)
BucketFits ==
  limiterKind = "bucket" =>
    /\ \A i \in 1..Len(granted) : granted[i] <= lastRefill
    /\ \A s \in 0..lastRefill :
         Cardinality(Times(granted, s, now)) <= Capacity - tokens + (lastRefill - s) * Rate

(* The timestamps are those of the last grants, and the others are so old  *)
(* that they have left the window.                                         *)
WindowFits ==
  limiterKind = "window" =>
    /\ Len(timestamps) <= Len(granted)
    /\ \A i \in 1..Len(timestamps) : timestamps[i] = granted[Len(granted) - Len(timestamps) + i]
    /\ \A i \in 1..(Len(granted) - Len(timestamps)) : granted[i] + Window <= now

(* LimitHolds in terms of Times.                                           *)
Limited ==
  \A s, t \in 0..now : s <= t =>
    /\ limiterKind = "bucket" =>
         Cardinality(Times(granted, s, t)) <= Capacity + (t - s) * Rate
    /\ limiterKind = "window" /\ t < s + Window =>
         Cardinality(Times(granted, s, t)) <= Capacity

LimiterInv == LimiterTypeOK /\ BucketFits /\ WindowFits /\ Limited

LEMMA Distribute == \A a, b, r \in Int : (a + b) * r = a * r + b * r
OBVIOUS

LEMMA TimesAreFew ==
  ASSUME NEW g \in Seq(Nat), NEW s, NEW t
  PROVE  IsFiniteSet(Times(g, s, t)) /\ Cardinality(Times(g, s, t)) \in Nat
<1>1. IsFiniteSet(1..Len(g))
  BY FS_Interval
<1>2. Times(g, s, t) \in SUBSET (1..Len(g))
  BY DEF Times
<1>3. IsFiniteSet(Times(g, s, t))
  BY <1>1, <1>2, FS_Subset
<1> QED  BY <1>3, FS_CardinalityType

Repeat(n, x) == [i \in 1..n |-> x]

Given(g, n, x) == g \o Repeat(n, x)

LEMMA RepeatIs ==
  ASSUME NEW n \in Nat, NEW x \in Nat
  PROVE  Repeat(n, x) \in Seq(Nat) /\ Len(Repeat(n, x)) = n /\ \A i \in 1..n : Repeat(n, x)[i] = x
BY DEF Repeat

LEMMA NothingGranted == ASSUME NEW g \in Seq(Nat), NEW x PROVE Given(g, 0, x) = g
BY DEF Repeat, Given

(* What granting n tokens at one time adds.                                *)
LEMMA Granting ==
  ASSUME NEW g \in Seq(Nat), NEW n \in Nat, NEW x \in Nat
  PROVE  /\ Given(g, n, x) \in Seq(Nat) /\ Len(Given(g, n, x)) = Len(g) + n
         /\ \A i \in 1..Len(g) : Given(g, n, x)[i] = g[i]
         /\ \A i \in (Len(g) + 1)..(Len(g) + n) : Given(g, n, x)[i] = x
<1> DEFINE h == Given(g, n, x)
<1>1. Repeat(n, x) \in Seq(Nat) /\ Len(Repeat(n, x)) = n /\ \A i \in 1..n : Repeat(n, x)[i] = x
  BY RepeatIs
<1>2. h \in Seq(Nat) /\ Len(h) = Len(g) + n
  <2> DEFINE r == Repeat(n, x)
  <2>1. r \in Seq(Nat) /\ Len(r) = n
    BY <1>1
  <2> HIDE DEF r
  <2>2. g \o r \in Seq(Nat) /\ Len(g \o r) = Len(g) + n
    BY <2>1
  <2> QED  BY <2>2 DEF Given, r
<1>3. \A i \in 1..Len(g) : h[i] = g[i]
  BY <1>1 DEF Given
<1>4. \A i \in (Len(g) + 1)..(Len(g) + n) : h[i] = x
  <2> SUFFICES ASSUME NEW i \in (Len(g) + 1)..(Len(g) + n) PROVE h[i] = x
    OBVIOUS
  <2>1. i - Len(g) \in 1..n
    OBVIOUS
  <2>2. h[i] = Repeat(n, x)[i - Len(g)]
    BY <1>1 DEF Given
  <2> QED  BY <1>1, <2>1, <2>2
<1> QED  BY <1>2, <1>3, <1>4

LEMMA GrantedTimes ==
  ASSUME NEW g \in Seq(Nat), NEW n \in Nat, NEW x \in Nat, NEW s \in Nat, NEW t \in Nat
  PROVE  /\ x \in s..t =>
              Cardinality(Times(Given(g, n, x), s, t)) = Cardinality(Times(g, s, t)) + n
         /\ x \notin s..t => Times(Given(g, n, x), s, t) = Times(g, s, t)
<1> DEFINE h == Given(g, n, x)
<1>1. /\ h \in Seq(Nat) /\ Len(h) = Len(g) + n
      /\ \A i \in 1..Len(g) : h[i] = g[i]
      /\ \A i \in (Len(g) + 1)..(Len(g) + n) : h[i] = x
  BY Granting
<1> HIDE DEF h
<1> DEFINE more == (Len(g) + 1)..(Len(g) + n)
<1>2. 1..Len(h) = (1..Len(g)) \cup more
  BY <1>1
<1>3. CASE x \notin s..t
  <2>1. Times(h, s, t) = Times(g, s, t)
    BY <1>1, <1>2, <1>3 DEF Times
  <2> QED  BY <1>3, <2>1 DEF h
<1>4. CASE x \in s..t
  <2>1. Times(h, s, t) = Times(g, s, t) \cup more
    <3> HIDE DEF more
    <3>1. \A i \in more : h[i] = x
      BY <1>1 DEF more
    <3> QED  BY <1>1, <1>2, <1>4, <3>1 DEF Times
  <2>2. Times(g, s, t) \cap more = {}
    BY DEF Times
  <2>3. IsFiniteSet(more) /\ Cardinality(more) = n
    BY FS_Interval
  <2>4. IsFiniteSet(Times(g, s, t)) /\ Cardinality(Times(g, s, t)) \in Nat
    BY TimesAreFew
  <2> HIDE DEF more
  <2>5. Cardinality(Times(g, s, t) \cup more)
          = Cardinality(Times(g, s, t)) + Cardinality(more) - Cardinality(Times(g, s, t) \cap more)
    BY <2>3, <2>4, FS_Union
  <2>6. Cardinality(Times(g, s, t) \cap more) = 0
    BY <2>2, FS_EmptySet
  <2> QED  BY <1>4, <2>1, <2>3, <2>4, <2>5, <2>6 DEF h
<1> QED  BY <1>3, <1>4 DEF h

LEMMA InitLimiter == RL!Init => LimiterInv
<1> SUFFICES ASSUME RL!Init PROVE LimiterInv
  OBVIOUS
<1> USE LimiterFits DEF RL!LimiterAssumption
<1>1. LimiterTypeOK /\ granted = <<>> /\ timestamps = <<>> /\ tokens = Capacity /\ lastRefill = 0 /\ now = 0
  BY DEF RL!Init, LimiterTypeOK
<1>2. \A s, t : Cardinality(Times(granted, s, t)) = 0
  BY <1>1, FS_EmptySet DEF Times
<1>3. BucketFits /\ WindowFits
  BY <1>1, <1>2 DEF BucketFits, WindowFits
<1>4. \A s, t \in 0..now : s <= t => 0 <= Capacity + (t - s) * Rate
  BY <1>1
<1>5. Limited
  BY <1>2, <1>4, <1>1 DEF Limited
<1> QED  BY <1>1, <1>3, <1>5 DEF LimiterInv

-----------------------------------------------------------------------------
(* What the bucket holds after a refill, together with what it has handed  *)
(* out.                                                                    *)
LEMMA RefillFits ==
  ASSUME LimiterInv, limiterKind = "bucket", NEW s \in 0..now
  PROVE  /\ RL!Refilled \in 0..Capacity
         /\ Cardinality(Times(granted, s, now)) + RL!Refilled <= Capacity + (now - s) * Rate
         /\ (now - s) * Rate \in Nat
<1> USE LimiterFits DEF RL!LimiterAssumption
<1> DEFINE gained == (now - lastRefill) * Rate
<1>1. now - lastRefill \in Nat /\ tokens \in Nat /\ tokens <= Capacity /\ granted \in Seq(Nat)
  BY DEF LimiterInv, LimiterTypeOK
<1>2. gained \in Nat /\ (now - s) * Rate \in Nat
  BY <1>1 DEF LimiterInv, LimiterTypeOK
<1>3. RL!Refilled = IF tokens + gained > Capacity THEN Capacity ELSE tokens + gained
  BY DEF RL!Refilled
<1>4. CASE s <= lastRefill
  <2>1. (now - s) * Rate = (lastRefill - s) * Rate + gained
    <3>1. now - s = (lastRefill - s) + (now - lastRefill)
      BY DEF LimiterInv, LimiterTypeOK
    <3> QED  BY <3>1, Distribute DEF LimiterInv, LimiterTypeOK
  <2>2. (lastRefill - s) * Rate \in Nat
    BY <1>4 DEF LimiterInv, LimiterTypeOK
  <2>3. Cardinality(Times(granted, s, now)) <= Capacity - tokens + (lastRefill - s) * Rate
    BY <1>4 DEF LimiterInv, LimiterTypeOK, BucketFits
  <2>4. Cardinality(Times(granted, s, now)) \in Nat
    BY <1>1, TimesAreFew
  <2> HIDE DEF gained
  <2> QED  BY <1>1, <1>2, <1>3, <2>1, <2>2, <2>3, <2>4
<1>5. CASE s > lastRefill
  <2>1. Times(granted, s, now) = {}
    BY <1>5 DEF Times, LimiterInv, LimiterTypeOK, BucketFits
  <2>2. Cardinality(Times(granted, s, now)) = 0
    BY <2>1, FS_EmptySet
  <2> HIDE DEF gained
  <2> QED  BY <1>1, <1>2, <1>3, <2>2
<1> QED  BY <1>4, <1>5 DEF LimiterInv, LimiterTypeOK

(* The bucket after AllowN took n of what a refill left, or nothing.       *)
LEMMA BucketStep ==
  ASSUME LimiterInv, limiterKind = "bucket", NEW n \in 0..RL!Refilled,
         tokens' = RL!Refilled - n, lastRefill' = now,
         granted' = Given(granted, n, now),
         UNCHANGED <<limiterKind, now, timestamps>>
  PROVE  LimiterInv'
<1> USE LimiterFits DEF RL!LimiterAssumption
<1>1. now \in Nat /\ granted \in Seq(Nat) /\ timestamps \in Seq(Nat)
  BY DEF LimiterInv, LimiterTypeOK
<1>2. RL!Refilled \in 0..Capacity
  BY <1>1, RefillFits
<1> HIDE DEF RL!Refilled
<1>3. n \in Nat /\ tokens' \in 0..Capacity
  BY <1>2
<1>4. /\ granted' \in Seq(Nat) /\ Len(granted') = Len(granted) + n
      /\ \A i \in 1..Len(granted) : granted'[i] = granted[i]
      /\ \A i \in (Len(granted) + 1)..(Len(granted) + n) : granted'[i] = now
  <2>1. /\ Given(granted, n, now) \in Seq(Nat) /\ Len(Given(granted, n, now)) = Len(granted) + n
        /\ \A i \in 1..Len(granted) : Given(granted, n, now)[i] = granted[i]
        /\ \A i \in (Len(granted) + 1)..(Len(granted) + n) : Given(granted, n, now)[i] = now
    BY <1>1, <1>3, Granting
  <2>2. granted' = Given(granted, n, now)
    OBVIOUS
  <2> QED  BY <2>1, <2>2, Zenon
<1>5. \A i \in 1..Len(granted') : granted'[i] <= now
  <2>1. \A i \in 1..Len(granted) : granted[i] <= now
    BY DEF LimiterInv, LimiterTypeOK
  <2>2. ASSUME NEW i \in 1..Len(granted') PROVE granted'[i] <= now
    <3>1. i \in 1..Len(granted) \/ i \in (Len(granted) + 1)..(Len(granted) + n)
      BY <1>1, <1>3, <1>4
    <3>2. CASE i \in 1..Len(granted)
      BY <1>1, <1>4, <2>1, <3>2
    <3>3. CASE i \in (Len(granted) + 1)..(Len(granted) + n)
      BY <1>1, <1>4, <3>3
    <3> QED  BY <3>1, <3>2, <3>3
  <2> QED  BY <2>2
<1>6. LimiterTypeOK'
  BY <1>1, <1>3, <1>4, <1>5 DEF LimiterTypeOK, LimiterInv
<1>7. ASSUME NEW s \in 0..now
      PROVE  /\ Cardinality(Times(granted', s, now)) <= Capacity - tokens' + (now - s) * Rate
             /\ Cardinality(Times(granted', s, now)) <= Capacity + (now - s) * Rate
  <2>1. Cardinality(Times(granted', s, now)) = Cardinality(Times(granted, s, now)) + n
    BY <1>1, <1>3, GrantedTimes
  <2>2. /\ Cardinality(Times(granted, s, now)) + RL!Refilled <= Capacity + (now - s) * Rate
        /\ (now - s) * Rate \in Nat
    BY RefillFits
  <2>3. Cardinality(Times(granted, s, now)) \in Nat
    BY <1>1, TimesAreFew
  <2> QED  BY <1>2, <1>3, <2>1, <2>2, <2>3
<1>8. BucketFits'
  BY <1>5, <1>7 DEF BucketFits
<1>9. \A s, t \in 0..now : s <= t => Cardinality(Times(granted', s, t)) <= Capacity + (t - s) * Rate
  <2> SUFFICES ASSUME NEW s \in 0..now, NEW t \in 0..now, s <= t
               PROVE  Cardinality(Times(granted', s, t)) <= Capacity + (t - s) * Rate
    OBVIOUS
  <2>1. CASE t = now
    BY <1>7, <2>1
  <2>2. CASE t # now
    <3>1. Times(granted', s, t) = Times(granted, s, t)
      BY <1>1, <1>3, <2>2, GrantedTimes
    <3> QED  BY <3>1 DEF LimiterInv, Limited
  <2> QED  BY <2>1, <2>2
<1>10. Limited'
  BY <1>9 DEF Limited
<1> QED  BY <1>6, <1>8, <1>10 DEF LimiterInv, WindowFits

(* What the clean-up keeps: the last of the timestamps, and those it drops *)
(* have left the window.                                                   *)
LEMMA KeptIsSuffix ==
  ASSUME timestamps \in Seq(Nat)
  PROVE  \E d \in 0..Len(timestamps) :
           /\ RL!Kept \in Seq(Nat) /\ Len(RL!Kept) = Len(timestamps) - d
           /\ \A i \in 1..(Len(timestamps) - d) : RL!Kept[i] = timestamps[d + i]
           /\ \A i \in 1..d : ~RL!InWindow(timestamps[i])
<1> DEFINE size == Len(timestamps)
           ends == {i \in 1..(size + 1) : i <= size => RL!InWindow(timestamps[i])}
<1>0. size \in Nat
  OBVIOUS
<1>1. ends \in SUBSET Nat /\ size + 1 \in ends
  BY <1>0
<1>2. PICK m \in ends : \A i \in ends : m <= i
  <2> HIDE DEF ends
  <2> QED  BY <1>1, NatMin
<1>3. /\ m \in 1..(size + 1) /\ (m <= size => RL!InWindow(timestamps[m]))
      /\ \A j \in 1..(m - 1) : ~RL!InWindow(timestamps[j])
  <2> HIDE DEF RL!InWindow
  <2>1. ASSUME NEW j \in 1..(m - 1), RL!InWindow(timestamps[j]) PROVE FALSE
    <3>1. j \in ends /\ ~(m <= j)
      BY <1>0, <1>2, <2>1
    <3> QED  BY <1>2, <3>1
  <2> QED  BY <1>2, <2>1
<1>4. /\ RL!FirstKept \in 1..(size + 1)
      /\ \A j \in 1..(RL!FirstKept - 1) : ~RL!InWindow(timestamps[j])
  BY <1>3 DEF RL!FirstKept
<1> DEFINE d == RL!FirstKept - 1
<1>5. d \in 0..size /\ RL!FirstKept = d + 1
  BY <1>0, <1>4
<1> HIDE DEF d
<1>6. RL!Kept = SubSeq(timestamps, d + 1, size)
  BY <1>5 DEF RL!Kept
<1>7. /\ RL!Kept \in Seq(Nat) /\ Len(RL!Kept) = size - d
      /\ \A i \in 1..(size - d) : RL!Kept[i] = timestamps[d + i]
  <2>1. RL!Kept \in Seq(Nat)
    BY <1>0, <1>5, <1>6
  <2>2. Len(RL!Kept) = size - d
    BY <1>0, <1>5, <1>6
  <2>3. \A i \in 1..(size - d) : RL!Kept[i] = timestamps[d + i]
    BY <1>0, <1>5, <1>6
  <2> QED  BY <2>1, <2>2, <2>3
<1> QED  BY <1>4, <1>5, <1>7 DEF d

(* The window after AllowN has cleaned up and granted n, or none.          *)
LEMMA WindowStep ==
  ASSUME LimiterInv, limiterKind = "window", NEW n \in Nat,
         timestamps' = Given(RL!Kept, n, now),
         n > 0 => Len(RL!Kept) + n <= Capacity,
         granted' = Given(granted, n, now),
         UNCHANGED <<limiterKind, now, tokens, lastRefill>>
  PROVE  LimiterInv'
<1> USE LimiterFits DEF RL!LimiterAssumption
<1> DEFINE kept == RL!Kept
<1>1. now \in Nat /\ granted \in Seq(Nat) /\ timestamps \in Seq(Nat)
  BY DEF LimiterInv, LimiterTypeOK
<1>2. PICK d \in 0..Len(timestamps) :
        /\ kept \in Seq(Nat) /\ Len(kept) = Len(timestamps) - d
        /\ \A i \in 1..(Len(timestamps) - d) : kept[i] = timestamps[d + i]
        /\ \A i \in 1..d : ~RL!InWindow(timestamps[i])
  BY <1>1, KeptIsSuffix
<1> HIDE DEF kept
<1>3. /\ granted' \in Seq(Nat) /\ Len(granted') = Len(granted) + n
      /\ \A i \in 1..Len(granted) : granted'[i] = granted[i]
      /\ \A i \in (Len(granted) + 1)..(Len(granted) + n) : granted'[i] = now
  <2>1. /\ Given(granted, n, now) \in Seq(Nat) /\ Len(Given(granted, n, now)) = Len(granted) + n
        /\ \A i \in 1..Len(granted) : Given(granted, n, now)[i] = granted[i]
        /\ \A i \in (Len(granted) + 1)..(Len(granted) + n) : Given(granted, n, now)[i] = now
    BY <1>1, Granting
  <2>2. granted' = Given(granted, n, now)
    OBVIOUS
  <2> QED  BY <2>1, <2>2, Zenon
<1>4. timestamps' = Given(kept, n, now)
  BY DEF kept
<1>5. /\ timestamps' \in Seq(Nat) /\ Len(timestamps') = Len(kept) + n
      /\ \A i \in 1..Len(kept) : timestamps'[i] = kept[i]
      /\ \A i \in (Len(kept) + 1)..(Len(kept) + n) : timestamps'[i] = now
  <2>1. /\ Given(kept, n, now) \in Seq(Nat) /\ Len(Given(kept, n, now)) = Len(kept) + n
        /\ \A i \in 1..Len(kept) : Given(kept, n, now)[i] = kept[i]
        /\ \A i \in (Len(kept) + 1)..(Len(kept) + n) : Given(kept, n, now)[i] = now
    BY <1>1, <1>2, Granting
  <2> QED  BY <1>4, <2>1, Zenon
<1>6. \A i \in 1..Len(granted') : granted'[i] <= now
  <2> SUFFICES ASSUME NEW i \in 1..Len(granted') PROVE granted'[i] <= now
    OBVIOUS
  <2>1. i \in 1..Len(granted) \/ i \in (Len(granted) + 1)..(Len(granted) + n)
    BY <1>1, <1>3
  <2>2. CASE i \in 1..Len(granted)
    BY <1>1, <1>3, <2>2 DEF LimiterInv, LimiterTypeOK
  <2>3. CASE i \in (Len(granted) + 1)..(Len(granted) + n)
    BY <1>1, <1>3, <2>3
  <2> QED  BY <2>1, <2>2, <2>3
<1>7. LimiterTypeOK'
  BY <1>1, <1>3, <1>5, <1>6 DEF LimiterTypeOK, LimiterInv
<1> DEFINE old == Len(granted) - Len(timestamps)
<1>8. /\ old \in Nat /\ Len(granted) = old + Len(timestamps)
      /\ \A i \in 1..Len(timestamps) : timestamps[i] = granted[old + i]
      /\ \A i \in 1..old : granted[i] + Window <= now
  BY <1>1 DEF LimiterInv, WindowFits
<1> HIDE DEF old
<1>9. /\ Len(timestamps') \in Nat /\ Len(timestamps') <= Len(granted')
      /\ Len(granted') - Len(timestamps') = old + d
  BY <1>1, <1>2, <1>3, <1>5, <1>8
<1>10. \A i \in 1..(old + d) : granted'[i] + Window <= now
  <2> SUFFICES ASSUME NEW i \in 1..(old + d) PROVE granted'[i] + Window <= now
    OBVIOUS
  <2>1. i \in 1..Len(granted) /\ granted'[i] = granted[i] /\ granted[i] \in Nat
    <3>1. i \in 1..Len(granted)
      BY <1>2, <1>8
    <3>2. granted[i] \in Nat
      BY <1>1, <3>1
    <3> QED  BY <1>3, <3>1, <3>2, Zenon
  <2>2. CASE i \in 1..old
    BY <1>8, <2>1, <2>2
  <2>3. CASE i \notin 1..old
    <3>1. i - old \in 1..d /\ i - old \in 1..Len(timestamps) /\ i = old + (i - old)
      BY <1>1, <1>2, <1>8, <2>3
    <3>2. timestamps[i - old] = granted[i] /\ ~RL!InWindow(timestamps[i - old])
      BY <1>2, <1>8, <3>1
    <3> QED  BY <1>1, <2>1, <3>2 DEF RL!InWindow
  <2> QED  BY <2>2, <2>3
<1>11. \A i \in 1..Len(timestamps') : timestamps'[i] = granted'[old + d + i]
  <2> SUFFICES ASSUME NEW i \in 1..Len(timestamps') PROVE timestamps'[i] = granted'[old + d + i]
    OBVIOUS
  <2>1. CASE i \in 1..Len(kept)
    <3>1. d + i \in 1..Len(timestamps) /\ old + d + i = old + (d + i) /\ old + d + i \in 1..Len(granted)
      BY <1>1, <1>2, <1>8, <2>1
    <3>2. timestamps'[i] = kept[i]
      BY <1>5, <2>1, Zenon
    <3>3. i \in 1..(Len(timestamps) - d) /\ kept[i] = timestamps[d + i]
      BY <1>2, <2>1
    <3>4. timestamps[d + i] = granted[old + (d + i)]
      BY <1>8, <3>1, Zenon
    <3>5. granted'[old + d + i] = granted[old + d + i]
      BY <1>3, <3>1, Zenon
    <3> QED  BY <3>1, <3>2, <3>3, <3>4, <3>5, Zenon
  <2>2. CASE i \notin 1..Len(kept)
    <3>1. i \in (Len(kept) + 1)..(Len(kept) + n) /\ old + d + i \in (Len(granted) + 1)..(Len(granted) + n)
      BY <1>1, <1>2, <1>5, <1>8, <2>2
    <3> QED  BY <1>3, <1>5, <3>1
  <2> QED  BY <2>1, <2>2
<1>12. WindowFits'
  BY <1>9, <1>10, <1>11 DEF WindowFits
<1>13. \A s, t \in 0..now : s <= t /\ t < s + Window => Cardinality(Times(granted', s, t)) <= Capacity
  <2> SUFFICES ASSUME NEW s \in 0..now, NEW t \in 0..now, s <= t, t < s + Window
               PROVE  Cardinality(Times(granted', s, t)) <= Capacity
    OBVIOUS
  <2>1. CASE t # now \/ n = 0
    <3>1. t # now => Times(granted', s, t) = Times(granted, s, t)
      BY <1>1, <2>1, GrantedTimes
    <3>2. n = 0 => granted' = granted
      BY <1>1, NothingGranted
    <3> QED  BY <2>1, <3>1, <3>2 DEF LimiterInv, Limited
  <2>2. CASE t = now /\ n > 0
    <3> DEFINE last == (old + d + 1)..Len(granted')
    <3>1. Times(granted', s, t) \in SUBSET last
      <4> SUFFICES ASSUME NEW i \in 1..Len(granted'), granted'[i] \in s..t PROVE i \in last
        BY DEF Times
      <4>1. i \notin 1..(old + d)
        BY <1>1, <1>3, <1>10, <2>2
      <4> QED  BY <1>2, <1>3, <1>8, <4>1
    <3>2. IsFiniteSet(last) /\ Cardinality(last) = Len(timestamps')
      <4>1. old \in Nat /\ d \in Nat /\ Len(granted') = old + d + Len(timestamps')
        BY <1>2, <1>3, <1>8, <1>9
      <4>2. Len(granted') - (old + d + 1) + 1 = Len(timestamps')
        BY <1>9, <4>1
      <4>3. /\ IsFiniteSet(last)
            /\ Cardinality(last) = IF old + d + 1 > Len(granted') THEN 0
                                   ELSE Len(granted') - (old + d + 1) + 1
        <5>1. old + d + 1 \in Int /\ Len(granted') \in Int
          BY <1>9, <4>1
        <5> QED  BY <5>1, FS_Interval
      <4> HIDE DEF last
      <4> QED  BY <1>9, <4>1, <4>2, <4>3
    <3> HIDE DEF last
    <3>3. Cardinality(Times(granted', s, t)) <= Len(timestamps')
      BY <3>1, <3>2, FS_Subset
    <3>4. Len(timestamps') <= Capacity
      BY <1>5, <2>2 DEF kept
    <3> QED  BY <1>3, <1>9, <3>3, <3>4, TimesAreFew
  <2> QED  BY <2>1, <2>2
<1>14. Limited'
  BY <1>13 DEF Limited
<1> QED  BY <1>7, <1>12, <1>14 DEF LimiterInv, BucketFits

-----------------------------------------------------------------------------
LEMMA AskInv ==
  ASSUME LimiterInv, NEW n, RL!Allows(n) \/ RL!Refuses(n), UNCHANGED <<limiterKind, now>>
  PROVE  LimiterInv'
<1> USE LimiterFits DEF RL!LimiterAssumption
<1>1. now \in Nat /\ granted \in Seq(Nat) /\ timestamps \in Seq(Nat)
  BY DEF LimiterInv, LimiterTypeOK
<1>2. Given(granted, 0, now) = granted
  BY <1>1, NothingGranted
<1>3. CASE RL!Allows(n) /\ RL!BucketAllows(n)
  <2>1. limiterKind = "bucket" /\ n \in 1..Capacity /\ RL!Refilled >= n
    BY <1>3 DEF RL!BucketAllows
  <2>2. n \in 0..RL!Refilled
    BY <1>1, <2>1, RefillFits
  <2> QED  BY <1>3, <2>1, <2>2, BucketStep DEF RL!Allows, RL!BucketAllows, Given, Repeat
<1>4. CASE RL!Allows(n) /\ RL!WindowAllows(n)
  <2>1. /\ limiterKind = "window" /\ n \in Nat /\ Len(RL!Kept) + n <= Capacity
        /\ timestamps' = Given(RL!Kept, n, now) /\ granted' = Given(granted, n, now)
        /\ UNCHANGED <<tokens, lastRefill>>
    BY <1>4 DEF RL!Allows, RL!WindowAllows, Given, Repeat
  <2> QED  BY <2>1, WindowStep
<1>5. CASE RL!Refuses(n) /\ UNCHANGED RL!limiter
  BY <1>5 DEF RL!Refuses, RL!limiter, LimiterInv, LimiterTypeOK, BucketFits, WindowFits, Limited
<1> HIDE DEF RL!Refilled, RL!Kept
<1>6. CASE RL!Refuses(n) /\ limiterKind = "bucket" /\ tokens' = RL!Refilled /\ lastRefill' = now
           /\ UNCHANGED timestamps
  <2>1. RL!Refilled \in Nat
    BY <1>1, <1>6, RefillFits
  <2>2. 0 \in 0..RL!Refilled /\ tokens' = RL!Refilled - 0 /\ granted' = Given(granted, 0, now)
    BY <1>2, <1>6, <2>1 DEF RL!Refuses
  <2> QED  BY <1>6, <2>2, BucketStep
<1>7. CASE RL!Refuses(n) /\ limiterKind = "window" /\ timestamps' = RL!Kept
           /\ UNCHANGED <<tokens, lastRefill>>
  <2>1. RL!Kept \in Seq(Nat)
    BY <1>1, KeptIsSuffix
  <2>2. /\ timestamps' = Given(RL!Kept, 0, now) /\ 0 \in Nat
        /\ granted' = Given(granted, 0, now) /\ ~(0 > 0)
    BY <1>2, <1>7, <2>1, NothingGranted DEF RL!Refuses
  <2> QED  BY <1>7, <2>2, WindowStep
<1> QED  BY <1>3, <1>4, <1>5, <1>6, <1>7 DEF RL!Allows, RL!Refuses

(* Time passes: nothing was granted at the new time yet.                   *)
LEMMA TickInv == ASSUME LimiterInv, RL!Tick PROVE LimiterInv'
<1> USE LimiterFits DEF RL!LimiterAssumption
<1>1. /\ now' = now + 1 /\ now \in Nat /\ granted \in Seq(Nat) /\ timestamps \in Seq(Nat)
      /\ UNCHANGED <<limiterKind, tokens, lastRefill, timestamps, granted>>
      /\ \A i \in 1..Len(granted) : granted[i] <= now /\ granted[i] \in Nat
  BY DEF RL!Tick, RL!limiter, LimiterInv, LimiterTypeOK
<1>2. LimiterTypeOK'
  BY <1>1 DEF LimiterInv, LimiterTypeOK
<1>3. \A s \in Nat : Times(granted, s, now + 1) = Times(granted, s, now)
  BY <1>1 DEF Times
<1>4. BucketFits'
  <2>1. \A s \in 0..lastRefill : Times(granted, s, now + 1) = Times(granted, s, now)
    BY <1>3 DEF LimiterInv, LimiterTypeOK
  <2> QED  BY <1>1, <2>1 DEF LimiterInv, BucketFits
<1>5. WindowFits'
  <2>1. ASSUME limiterKind = "window", NEW i \in 1..(Len(granted) - Len(timestamps))
        PROVE  granted[i] + Window <= now + 1
    <3>1. granted[i] + Window <= now /\ i \in 1..Len(granted)
      BY <1>1, <2>1 DEF LimiterInv, WindowFits
    <3> QED  BY <1>1, <3>1
  <2> QED  BY <1>1, <2>1 DEF LimiterInv, WindowFits
<1>6. ASSUME NEW s \in 0..(now + 1), NEW t \in 0..(now + 1), s <= t
      PROVE  /\ limiterKind = "bucket" => Cardinality(Times(granted, s, t)) <= Capacity + (t - s) * Rate
             /\ limiterKind = "window" /\ t < s + Window => Cardinality(Times(granted, s, t)) <= Capacity
  <2>1. CASE t <= now
    <3>1. s \in 0..now /\ t \in 0..now
      BY <1>1, <1>6, <2>1
    <3> QED  BY <1>6, <3>1 DEF LimiterInv, Limited
  <2>2. CASE t = now + 1 /\ s = now + 1
    <3>1. Times(granted, s, t) = {}
      BY <1>1, <2>2 DEF Times
    <3>2. (t - s) * Rate = 0
      BY <1>1, <2>2
    <3> QED  BY <3>1, <3>2, FS_EmptySet
  <2>3. CASE t = now + 1 /\ s <= now
    <3>1. Times(granted, s, t) = Times(granted, s, now) /\ s \in 0..now /\ now \in 0..now
      BY <1>1, <1>3, <2>3
    <3>2. /\ limiterKind = "bucket" => Cardinality(Times(granted, s, now)) <= Capacity + (now - s) * Rate
          /\ limiterKind = "window" /\ now < s + Window => Cardinality(Times(granted, s, now)) <= Capacity
      BY <2>3, <3>1 DEF LimiterInv, Limited
    <3>3. (t - s) * Rate = (now - s) * Rate + Rate /\ (now - s) * Rate \in Nat
      <4>1. t - s = (now - s) + 1 /\ now - s \in Nat /\ 1 * Rate = Rate
        BY <1>1, <2>3
      <4> QED  BY <4>1, Distribute
    <3>4. Cardinality(Times(granted, s, now)) \in Nat
      BY <1>1, TimesAreFew
    <3> QED  BY <1>1, <2>3, <3>1, <3>2, <3>3, <3>4
  <2> QED  BY <1>1, <2>1, <2>2, <2>3
<1>7. Limited'
  BY <1>1, <1>6 DEF Limited
<1> QED  BY <1>2, <1>4, <1>5, <1>7 DEF LimiterInv

LEMMA LimiterStep == LimiterInv /\ [RL!Next]_RL!vars => LimiterInv'
<1> SUFFICES ASSUME LimiterInv, [RL!Next]_RL!vars PROVE LimiterInv'
  OBVIOUS
<1>1. CASE RL!Tick
  BY <1>1, TickInv
<1>2. ASSUME NEW p \in Callers, RL!Poll(p) PROVE LimiterInv'
  BY <1>2, AskInv DEF RL!Poll
<1>3. ASSUME NEW p \in Callers, NEW n \in Amounts, RL!AllowN(p, n) PROVE LimiterInv'
  BY <1>3, AskInv DEF RL!AllowN
<1>4. ASSUME UNCHANGED <<limiterKind, now, RL!limiter, granted>> PROVE LimiterInv'
  BY <1>4 DEF RL!limiter, LimiterInv, LimiterTypeOK, BucketFits, WindowFits, Limited
<1> QED  BY <1>1, <1>2, <1>3, <1>4 DEF RL!Next, RL!vars, RL!ContextEnds, RL!BeginWaitN

(* The limit a limiter exists for, in every span of time, for any          *)
(* capacity, rate, window, callers and amounts (AllowN and WaitN,          *)
(* resilience/ratelimit.go:55-112 and 144-205).                            *)
THEOREM LimitsHold == RL!Spec => []LimitHolds
<1>1. \A S : RL!Cardinality(S) = Cardinality(S)
  BY DEF RL!Cardinality, Cardinality
<1>2. ASSUME LimiterInv PROVE LimitHolds
  <2>1. DOMAIN granted = 1..Len(granted) /\ limiterKind \in {"bucket", "window"}
    BY <1>2 DEF LimiterInv, LimiterTypeOK
  <2>2. \A s, t : RL!Between(s, t) = Cardinality(Times(granted, s, t))
    BY <1>1, <2>1 DEF RL!Between, Times
  <2> HIDE DEF RL!Between
  <2>3. Limited
    BY <1>2 DEF LimiterInv
  <2> QED  BY <2>1, <2>2, <2>3 DEF Limited, LimitHolds, RL!LimitHolds
<1>3. LimiterInv => LimitHolds
  BY <1>2
<1> QED  BY <1>3, InitLimiter, LimiterStep, PTL DEF RL!Spec
-----------------------------------------------------------------------------
(* The load balancer.                                                      *)

Last == Cardinality(Addresses)

LEMMA AddressesAre == Last \in Nat /\ Addresses = 1..Last /\ Bal!Cardinality(Addresses) = Last
BY BalancerFits DEF Bal!BalancerAssumption, Bal!Cardinality, Cardinality, Last

(* Induction over the numbers, of a set of them.                           *)
LEMMA Induct ==
  ASSUME NEW T, 0 \in T, \A n \in Nat : n \in T => n + 1 \in T
  PROVE  \A n \in Nat : n \in T
<1>1. SUFFICES ASSUME Nat \ T # {} PROVE FALSE
  OBVIOUS
<1>2. PICK m \in Nat \ T : \A k \in Nat \ T : m <= k
  BY <1>1, NatMin
<1>3. m # 0 /\ m - 1 \in Nat /\ m - 1 \in T /\ (m - 1) + 1 = m
  BY <1>2
<1> QED  BY <1>2, <1>3

(* sum follows the definition of Total up to m.                            *)
SumsUp(sum, f, S, m) ==
  sum = [n \in 0..m |-> IF n = 0 THEN 0 ELSE IF n \in S THEN sum[n - 1] + f[n] ELSE sum[n - 1]]

LEMMA SumExists == ASSUME NEW f, NEW S PROVE \A m \in Nat : \E sum : SumsUp(sum, f, S, m)
<1> DEFINE T == {m \in Nat : \E sum : SumsUp(sum, f, S, m)}
<1>1. 0 \in T
  <2> DEFINE sum == [n \in 0..0 |-> 0]
  <2>1. SumsUp(sum, f, S, 0)
    BY DEF SumsUp
  <2> QED  BY <2>1
<1>2. ASSUME NEW m \in Nat, m \in T PROVE m + 1 \in T
  <2>1. PICK h : SumsUp(h, f, S, m)
    BY <1>2
  <2> DEFINE last == IF m + 1 \in S THEN h[m] + f[m + 1] ELSE h[m]
             sum == [n \in 0..(m + 1) |-> IF n = m + 1 THEN last ELSE h[n]]
  <2>2. ASSUME NEW n \in 0..(m + 1)
        PROVE  sum[n] = IF n = 0 THEN 0 ELSE IF n \in S THEN sum[n - 1] + f[n] ELSE sum[n - 1]
    <3>1. CASE n = m + 1
      <4>1. n # 0 /\ n - 1 = m /\ m \in 0..(m + 1) /\ m # m + 1
        BY <3>1
      <4>2. sum[n - 1] = h[m] /\ sum[n] = last
        BY <3>1, <4>1
      <4> HIDE DEF sum
      <4> QED  BY <3>1, <4>1, <4>2
    <3>2. CASE n # m + 1
      <4>1. n \in 0..m
        BY <3>2
      <4>2. h[n] = IF n = 0 THEN 0 ELSE IF n \in S THEN h[n - 1] + f[n] ELSE h[n - 1]
        <5> HIDE DEF sum
        <5> QED  BY <2>1, <4>1 DEF SumsUp
      <4>3. sum[n] = h[n] /\ (n # 0 => sum[n - 1] = h[n - 1])
        BY <4>1, <3>2
      <4> HIDE DEF sum
      <4> QED  BY <4>2, <4>3
    <3> QED  BY <3>1, <3>2
  <2>3. sum = [n \in 0..(m + 1) |-> sum[n]]
    OBVIOUS
  <2> HIDE DEF sum
  <2>4. SumsUp(sum, f, S, m + 1)
    BY <2>2, <2>3 DEF SumsUp
  <2> QED  BY <2>4
<1> HIDE DEF T
<1>3. \A m \in Nat : m \in T
  BY <1>1, <1>2, Induct
<1> QED  BY <1>3 DEF T

(* What the sums up to every address are, and that the last is the total.  *)
SumOf(sum, f, S) ==
  /\ Bal!Total(f, S) = sum[Last] /\ sum[0] = 0
  /\ \A n \in 0..Last : sum[n] \in Int
  /\ \A n \in 0..Last : n + 1 <= Last =>
       sum[n + 1] = IF n + 1 \in S THEN sum[n] + f[n + 1] ELSE sum[n]

LEMMA TotalSumsUp ==
  ASSUME NEW f \in [Addresses -> Int], NEW S
  PROVE  \E sum : SumOf(sum, f, S)
<1> USE AddressesAre
<1>1. \E sum : SumsUp(sum, f, S, Last)
  BY SumExists
<1> DEFINE total == CHOOSE sum : SumsUp(sum, f, S, Last)
<1>2. SumsUp(total, f, S, Last)
  BY <1>1
<1>3. Bal!Total(f, S) = total[Last]
  BY DEF Bal!Total, SumsUp
<1> HIDE DEF total
<1>4. \A n \in 0..Last : total[n] = IF n = 0 THEN 0 ELSE IF n \in S THEN total[n - 1] + f[n] ELSE total[n - 1]
  BY <1>2 DEF SumsUp
<1>5. total[0] = 0
  BY <1>4
<1>6. ASSUME NEW n \in 0..Last, n + 1 <= Last
      PROVE  total[n + 1] = IF n + 1 \in S THEN total[n] + f[n + 1] ELSE total[n]
  <2>1. n + 1 \in 0..Last /\ n + 1 # 0 /\ (n + 1) - 1 = n
    BY <1>6
  <2> QED  BY <1>4, <2>1
<1> DEFINE T == {n \in Nat : n <= Last => total[n] \in Int}
<1>7. 0 \in T
  BY <1>5
<1>8. ASSUME NEW n \in Nat, n \in T PROVE n + 1 \in T
  <2>1. CASE n + 1 <= Last
    <3>1. n \in 0..Last /\ n + 1 \in Addresses /\ total[n] \in Int /\ f[n + 1] \in Int
      BY <1>8, <2>1
    <3> QED  BY <1>6, <2>1, <3>1
  <2> QED  BY <2>1
<1>9. \A n \in Nat : n \in T
  <2> HIDE DEF T
  <2> QED  BY <1>7, <1>8, Induct
<1>10. \A n \in 0..Last : total[n] \in Int
  BY <1>9
<1>11. SumOf(total, f, S)
  BY <1>3, <1>5, <1>6, <1>10 DEF SumOf
<1> QED  BY <1>11

(* The total of sums is the sum of the totals.                             *)
LEMMA TotalAdds ==
  ASSUME NEW S \in SUBSET Addresses, NEW f \in [Addresses -> Int], NEW g \in [Addresses -> Int],
         NEW h \in [Addresses -> Int], \A a \in S : h[a] = f[a] + g[a]
  PROVE  Bal!Total(h, S) = Bal!Total(f, S) + Bal!Total(g, S)
<1> USE AddressesAre
<1>1. PICK F : SumOf(F, f, S)
  BY TotalSumsUp
<1>2. PICK G : SumOf(G, g, S)
  BY TotalSumsUp
<1>3. PICK H : SumOf(H, h, S)
  BY TotalSumsUp
<1> DEFINE T == {n \in Nat : n <= Last => H[n] = F[n] + G[n]}
<1>4. 0 \in T
  BY <1>1, <1>2, <1>3 DEF SumOf
<1>5. ASSUME NEW n \in Nat, n \in T PROVE n + 1 \in T
  <2>1. CASE n + 1 <= Last
    <3>1. n \in 0..Last /\ n + 1 \in Addresses /\ H[n] = F[n] + G[n]
      BY <1>5, <2>1
    <3>2. f[n + 1] \in Int /\ g[n + 1] \in Int /\ F[n] \in Int /\ G[n] \in Int
      BY <1>1, <1>2, <3>1 DEF SumOf
    <3>3. /\ F[n + 1] = IF n + 1 \in S THEN F[n] + f[n + 1] ELSE F[n]
          /\ G[n + 1] = IF n + 1 \in S THEN G[n] + g[n + 1] ELSE G[n]
          /\ H[n + 1] = IF n + 1 \in S THEN H[n] + h[n + 1] ELSE H[n]
      BY <1>1, <1>2, <1>3, <2>1, <3>1 DEF SumOf
    <3>4. CASE n + 1 \in S
      <4>1. h[n + 1] = f[n + 1] + g[n + 1]
        BY <3>4
      <4> QED  BY <3>1, <3>2, <3>3, <3>4, <4>1
    <3> QED  BY <3>1, <3>3, <3>4
  <2> QED  BY <2>1
<1>6. \A n \in Nat : n \in T
  <2> HIDE DEF T
  <2> QED  BY <1>4, <1>5, Induct
<1> QED  BY <1>1, <1>2, <1>3, <1>6 DEF SumOf

(* What is more everywhere is more in total, at least by as much as it is  *)
(* at any one address.                                                     *)
LEMMA TotalCompares ==
  ASSUME NEW S \in SUBSET Addresses, NEW f \in [Addresses -> Int], NEW g \in [Addresses -> Int],
         \A a \in S : f[a] <= g[a]
  PROVE  /\ Bal!Total(f, S) \in Int /\ Bal!Total(g, S) \in Int /\ Bal!Total(f, S) <= Bal!Total(g, S)
         /\ \A a \in S : g[a] - f[a] <= Bal!Total(g, S) - Bal!Total(f, S)
<1> USE AddressesAre
<1>1. PICK F : SumOf(F, f, S)
  BY TotalSumsUp
<1>2. PICK G : SumOf(G, g, S)
  BY TotalSumsUp
<1> DEFINE T == {n \in Nat : n <= Last =>
                   F[n] <= G[n] /\ \A a \in S : a <= n => g[a] - f[a] <= G[n] - F[n]}
<1>3. 0 \in T
  BY <1>1, <1>2 DEF SumOf
<1>4. ASSUME NEW n \in Nat, n \in T PROVE n + 1 \in T
  <2>1. CASE n + 1 <= Last
    <3>1. /\ n \in 0..Last /\ n + 1 \in 0..Last /\ n + 1 \in Addresses /\ F[n] <= G[n]
          /\ \A a \in S : a <= n => g[a] - f[a] <= G[n] - F[n]
      BY <1>4, <2>1
    <3>2. \A a \in S : f[a] \in Int /\ g[a] \in Int /\ a \in 1..Last /\ f[a] <= g[a]
      OBVIOUS
    <3>3. F[n] \in Int /\ G[n] \in Int /\ F[n + 1] \in Int /\ G[n + 1] \in Int
      BY <1>1, <1>2, <3>1 DEF SumOf
    <3>4. CASE n + 1 \in S
      <4>1. F[n + 1] = F[n] + f[n + 1] /\ G[n + 1] = G[n] + g[n + 1]
        BY <1>1, <1>2, <2>1, <3>1, <3>4 DEF SumOf
      <4>2. F[n + 1] <= G[n + 1] /\ g[n + 1] - f[n + 1] <= G[n + 1] - F[n + 1]
        BY <3>1, <3>2, <3>3, <3>4, <4>1
      <4>3. ASSUME NEW a \in S, a <= n + 1 PROVE g[a] - f[a] <= G[n + 1] - F[n + 1]
        <5>1. CASE a = n + 1
          BY <4>2, <5>1
        <5>2. CASE a <= n
          <6>1. g[a] - f[a] <= G[n] - F[n] /\ f[n + 1] <= g[n + 1]
            BY <3>1, <3>2, <3>4, <4>3, <5>2
          <6>2. f[a] \in Int /\ g[a] \in Int /\ f[n + 1] \in Int /\ g[n + 1] \in Int
            BY <3>2, <3>4
          <6>3. \A i, j, k, l, p, q \in Int : i - j <= k - l /\ p <= q => i - j <= (k + q) - (l + p)
            OBVIOUS
          <6>4. g[a] - f[a] <= (G[n] + g[n + 1]) - (F[n] + f[n + 1])
            BY <3>3, <6>1, <6>2, <6>3
          <6> QED  BY <4>1, <6>4
        <5> QED  BY <3>2, <4>3, <5>1, <5>2
      <4> QED  BY <4>2, <4>3
    <3>5. CASE n + 1 \notin S
      <4>1. F[n + 1] = F[n] /\ G[n + 1] = G[n]
        BY <1>1, <1>2, <2>1, <3>1, <3>5 DEF SumOf
      <4>2. \A a \in S : a <= n + 1 => a <= n
        BY <3>2, <3>5
      <4> QED  BY <3>1, <4>1, <4>2
    <3> QED  BY <3>4, <3>5
  <2> QED  BY <2>1
<1>5. \A n \in Nat : n \in T
  <2> HIDE DEF T
  <2> QED  BY <1>3, <1>4, Induct
<1>6. F[Last] <= G[Last] /\ \A a \in S : a <= Last => g[a] - f[a] <= G[Last] - F[Last]
  BY <1>5
<1>7. \A a \in S : a <= Last
  OBVIOUS
<1> QED  BY <1>1, <1>2, <1>6, <1>7 DEF SumOf

LEMMA TotalOfNothing == ASSUME NEW S \in SUBSET Addresses PROVE Bal!Total(Bal!Zero, S) = 0
<1>1. Bal!Zero \in [Addresses -> Int] /\ \A a \in S : Bal!Zero[a] = 0
  BY DEF Bal!Zero
<1>2. \A a \in S : Bal!Zero[a] <= Bal!Zero[a] /\ Bal!Zero[a] = Bal!Zero[a] + Bal!Zero[a]
  BY <1>1
<1>3. Bal!Total(Bal!Zero, S) \in Int
  BY <1>1, <1>2, TotalCompares
<1>4. Bal!Total(Bal!Zero, S) = Bal!Total(Bal!Zero, S) + Bal!Total(Bal!Zero, S)
  BY <1>1, <1>2, TotalAdds
<1>5. \A x \in Int : x = x + x => x = 0
  OBVIOUS
<1> QED  BY <1>3, <1>4, <1>5

(* A change at one address changes the total by as much.                   *)
LEMMA TotalChanges ==
  ASSUME NEW S \in SUBSET Addresses, NEW f \in [Addresses -> Int], NEW c \in S, NEW d \in Int
  PROVE  Bal!Total([f EXCEPT ![c] = @ + d], S) = Bal!Total(f, S) + d
<1> USE AddressesAre
<1> DEFINE h == [f EXCEPT ![c] = @ + d]
<1>1. h \in [Addresses -> Int] /\ h[c] = f[c] + d /\ \A a \in Addresses : a # c => h[a] = f[a]
  OBVIOUS
<1> HIDE DEF h
<1>2. PICK F : SumOf(F, f, S)
  BY TotalSumsUp
<1>3. PICK H : SumOf(H, h, S)
  BY <1>1, TotalSumsUp
<1>4. c \in 1..Last
  OBVIOUS
<1> DEFINE T == {n \in Nat : n <= Last => H[n] = IF n < c THEN F[n] ELSE F[n] + d}
<1>5. 0 \in T
  BY <1>2, <1>3, <1>4 DEF SumOf
<1>6. ASSUME NEW n \in Nat, n \in T PROVE n + 1 \in T
  <2>1. CASE n + 1 <= Last
    <3>1. n \in 0..Last /\ n + 1 \in Addresses /\ H[n] = IF n < c THEN F[n] ELSE F[n] + d
      BY <1>6, <2>1
    <3>2. f[n + 1] \in Int /\ F[n] \in Int
      BY <1>2, <3>1 DEF SumOf
    <3>3. CASE n + 1 = c
      <4>1. n < c /\ ~(n + 1 < c) /\ n + 1 \in S
        BY <1>4, <3>3
      <4>2. F[n + 1] = F[n] + f[n + 1] /\ H[n + 1] = H[n] + h[n + 1]
        BY <1>2, <1>3, <2>1, <3>1, <4>1 DEF SumOf
      <4>3. H[n] = F[n] /\ h[n + 1] = f[n + 1] + d
        BY <1>1, <3>1, <3>3, <4>1
      <4> QED  BY <3>2, <4>1, <4>2, <4>3
    <3>4. CASE n + 1 # c
      <4>1. h[n + 1] = f[n + 1] /\ (n < c <=> n + 1 < c)
        BY <1>1, <1>4, <3>1, <3>4
      <4>2. /\ F[n + 1] = IF n + 1 \in S THEN F[n] + f[n + 1] ELSE F[n]
            /\ H[n + 1] = IF n + 1 \in S THEN H[n] + f[n + 1] ELSE H[n]
        BY <1>2, <1>3, <2>1, <3>1, <4>1 DEF SumOf
      <4>3. H[n + 1] = IF n + 1 < c THEN F[n + 1] ELSE F[n + 1] + d
        BY <3>1, <3>2, <4>1, <4>2
      <4> QED  BY <4>3
    <3> QED  BY <3>3, <3>4
  <2> QED  BY <2>1
<1>7. \A n \in Nat : n \in T
  <2> HIDE DEF T
  <2> QED  BY <1>5, <1>6, Induct
<1>8. H[Last] = IF Last < c THEN F[Last] ELSE F[Last] + d
  BY <1>7
<1> QED  BY <1>2, <1>3, <1>4, <1>8 DEF SumOf, h

(* The total over S is that of what f is on S, over all addresses.         *)
Masked(f, S) == [a \in Addresses |-> IF a \in S THEN f[a] ELSE 0]

LEMMA TotalMasked ==
  ASSUME NEW S \in SUBSET Addresses, NEW f \in [Addresses -> Int]
  PROVE  /\ Masked(f, S) \in [Addresses -> Int]
         /\ Bal!Total(f, S) = Bal!Total(Masked(f, S), Addresses)
<1> USE AddressesAre
<1>1. Masked(f, S) \in [Addresses -> Int] /\ \A a \in Addresses : Masked(f, S)[a] = IF a \in S THEN f[a] ELSE 0
  BY DEF Masked
<1> DEFINE h == Masked(f, S)
<1> HIDE DEF h
<1>2. PICK F : SumOf(F, f, S)
  BY TotalSumsUp
<1>3. PICK H : SumOf(H, h, Addresses)
  BY <1>1, TotalSumsUp DEF h
<1> DEFINE T == {n \in Nat : n <= Last => H[n] = F[n]}
<1>4. 0 \in T
  BY <1>2, <1>3 DEF SumOf
<1>5. ASSUME NEW n \in Nat, n \in T PROVE n + 1 \in T
  <2>1. CASE n + 1 <= Last
    <3>1. n \in 0..Last /\ n + 1 \in Addresses /\ H[n] = F[n]
      BY <1>5, <2>1
    <3>2. F[n] \in Int
      BY <1>2, <3>1 DEF SumOf
    <3>3. H[n + 1] = H[n] + h[n + 1] /\ F[n + 1] = IF n + 1 \in S THEN F[n] + f[n + 1] ELSE F[n]
      BY <1>2, <1>3, <2>1, <3>1 DEF SumOf
    <3>4. h[n + 1] = IF n + 1 \in S THEN f[n + 1] ELSE 0
      BY <1>1, <3>1 DEF h
    <3> QED  BY <3>1, <3>2, <3>3, <3>4
  <2> QED  BY <2>1
<1>6. \A n \in Nat : n \in T
  <2> HIDE DEF T
  <2> QED  BY <1>4, <1>5, Induct
<1>7. H[Last] = F[Last]
  BY <1>6
<1> QED  BY <1>1, <1>2, <1>3, <1>7 DEF SumOf, h

(* One address more.                                                       *)
LEMMA TotalTogether ==
  ASSUME NEW S \in SUBSET Addresses, NEW f \in [Addresses -> Int], NEW c \in Addresses, c \notin S
  PROVE  Bal!Total(f, S \cup {c}) = Bal!Total(f, S) + f[c]
<1>1. S \cup {c} \in SUBSET Addresses /\ f[c] \in Int
  OBVIOUS
<1>2. Masked(f, S \cup {c}) = [Masked(f, S) EXCEPT ![c] = @ + f[c]]
  <2> DEFINE m == Masked(f, S)
             h == [m EXCEPT ![c] = @ + f[c]]
  <2>1. m \in [Addresses -> Int] /\ m[c] = 0 /\ \A a \in Addresses : m[a] = IF a \in S THEN f[a] ELSE 0
    BY DEF Masked
  <2> HIDE DEF m
  <2>2. h[c] = f[c] /\ \A a \in Addresses : a # c => h[a] = m[a]
    BY <1>1, <2>1
  <2>3. h = [a \in Addresses |-> h[a]]
    BY <2>1
  <2> HIDE DEF h
  <2>4. \A a \in Addresses : h[a] = IF a \in S \cup {c} THEN f[a] ELSE 0
    BY <2>1, <2>2
  <2>5. h = Masked(f, S \cup {c})
    BY <2>3, <2>4 DEF Masked
  <2> QED  BY <2>5 DEF h, m
<1>3. Masked(f, S) \in [Addresses -> Int]
  BY TotalMasked
<1>4. Bal!Total([Masked(f, S) EXCEPT ![c] = @ + f[c]], Addresses) = Bal!Total(Masked(f, S), Addresses) + f[c]
  BY <1>1, <1>3, TotalChanges
<1>5. /\ Bal!Total(f, S) = Bal!Total(Masked(f, S), Addresses)
      /\ Bal!Total(f, S \cup {c}) = Bal!Total(Masked(f, S \cup {c}), Addresses)
  BY <1>1, TotalMasked
<1> QED  BY <1>2, <1>4, <1>5

(* More addresses have more together, when none has less than nothing.     *)
LEMMA TotalOfMore ==
  ASSUME NEW R \in SUBSET Addresses, NEW S \in SUBSET R, NEW f \in [Addresses -> Int],
         \A a \in R : f[a] >= 0
  PROVE  Bal!Total(f, S) <= Bal!Total(f, R)
<1>1. S \in SUBSET Addresses
  OBVIOUS
<1>2. Masked(f, S) \in [Addresses -> Int] /\ Masked(f, R) \in [Addresses -> Int]
  BY <1>1, TotalMasked
<1>3. \A a \in Addresses : Masked(f, S)[a] <= Masked(f, R)[a]
  BY DEF Masked
<1>4. Bal!Total(Masked(f, S), Addresses) <= Bal!Total(Masked(f, R), Addresses)
  BY <1>2, <1>3, TotalCompares
<1> QED  BY <1>1, <1>4, TotalMasked

LEMMA TotalIsInt == ASSUME NEW S \in SUBSET Addresses, NEW f \in [Addresses -> Int] PROVE Bal!Total(f, S) \in Int
<1>1. \A a \in S : f[a] <= f[a]
  OBVIOUS
<1> QED  BY <1>1, TotalCompares

LEMMA TotalOfNobody == ASSUME NEW f \in [Addresses -> Int] PROVE Bal!Total(f, {}) = 0
<1>1. Masked(f, {}) = Bal!Zero
  BY DEF Masked, Bal!Zero
<1> QED  BY <1>1, TotalMasked, TotalOfNothing

(* Only what f is on S counts.                                             *)
LEMMA TotalAgrees ==
  ASSUME NEW S \in SUBSET Addresses, NEW f \in [Addresses -> Int], NEW g \in [Addresses -> Int],
         \A a \in S : f[a] = g[a]
  PROVE  Bal!Total(f, S) = Bal!Total(g, S)
<1>1. Masked(f, S) = Masked(g, S)
  BY DEF Masked
<1> QED  BY <1>1, TotalMasked

(* Who have at most g each have at most g times their number together.     *)
LEMMA TotalIsBounded ==
  ASSUME NEW S \in SUBSET Addresses, NEW f \in [Addresses -> Int], NEW g \in Int, \A a \in S : f[a] <= g
  PROVE  Bal!Total(f, S) <= Cardinality(S) * g
<1>1. IsFiniteSet(Addresses)
  BY AddressesAre, FS_Interval
<1> DEFINE T == {k \in Nat : \A R \in SUBSET S : Cardinality(R) = k => Bal!Total(f, R) <= k * g}
<1>2. 0 \in T
  <2>1. \A R \in SUBSET S : Cardinality(R) = 0 => R = {}
    BY <1>1, FS_Subset, FS_EmptySet
  <2>2. 0 * g = 0 /\ Bal!Total(f, {}) <= 0
    BY TotalOfNobody
  <2> QED  BY <2>1, <2>2
<1>3. ASSUME NEW k \in Nat, k \in T PROVE k + 1 \in T
  <2> SUFFICES ASSUME NEW R \in SUBSET S, Cardinality(R) = k + 1 PROVE Bal!Total(f, R) <= (k + 1) * g
    OBVIOUS
  <2>1. IsFiniteSet(R)
    BY <1>1, FS_Subset
  <2>2. PICK c \in R : TRUE
    <3>1. R # {}
      <4>1. Cardinality(R) # 0
        OBVIOUS
      <4> QED  BY <4>1, FS_EmptySet
    <3> QED  BY <3>1
  <2>3. Cardinality(R \ {c}) = k /\ R \ {c} \in SUBSET S
    <3>1. Cardinality(R \ {c}) = Cardinality(R) - 1
      BY <2>1, <2>2, FS_RemoveElement
    <3>2. (k + 1) - 1 = k
      OBVIOUS
    <3> QED  BY <3>1, <3>2
  <2>4. Bal!Total(f, R \ {c}) <= k * g
    BY <1>3, <2>3
  <2>5. /\ (R \ {c}) \cup {c} = R /\ c \notin R \ {c} /\ c \in Addresses /\ f[c] <= g /\ f[c] \in Int
        /\ R \ {c} \in SUBSET Addresses
    OBVIOUS
  <2>6. Bal!Total(f, R) = Bal!Total(f, R \ {c}) + f[c]
    <3>1. Bal!Total(f, (R \ {c}) \cup {c}) = Bal!Total(f, R \ {c}) + f[c]
      BY <2>5, TotalTogether
    <3> QED  BY <2>5, <3>1
  <2>7. Bal!Total(f, R \ {c}) \in Int
    BY <2>5, TotalIsInt
  <2>8. (k + 1) * g = k * g + g
    BY Distribute
  <2> QED  BY <2>4, <2>5, <2>6, <2>7, <2>8
<1>4. \A k \in Nat : k \in T
  <2> HIDE DEF T
  <2> QED  BY <1>2, <1>3, Induct
<1>5. Cardinality(S) \in Nat
  BY <1>1, FS_Subset, FS_CardinalityType
<1> QED  BY <1>4, <1>5

(* There is a first of the heaviest, by an induction over the addresses.   *)
Leads(gained, S, n, a) ==
  /\ a \in S /\ a <= n
  /\ \A b \in S : b <= n => gained[a] > gained[b] \/ (gained[a] = gained[b] /\ a <= b)
LEMMA SomebodyLeads ==
  ASSUME NEW S \in SUBSET Addresses, NEW gained \in [Addresses -> Int], S # {}
  PROVE  \E a \in S : Leads(gained, S, Last, a)
<1> USE AddressesAre
<1>0. \A b \in S : gained[b] \in Int /\ b \in Nat /\ b >= 1 /\ b <= Last
  OBVIOUS
<1> DEFINE T == {n \in Nat : (\E b \in S : b <= n) => \E a : Leads(gained, S, n, a)}
<1>1. 0 \in T
  BY <1>0
<1>2. ASSUME NEW n \in Nat, n \in T PROVE n + 1 \in T
  <2>1. \A b \in S : b <= n + 1 <=> (b <= n \/ b = n + 1)
    BY <1>0
  <2>2. CASE n + 1 \notin S
    <3>1. \A b \in S : b <= n + 1 <=> b <= n
      BY <2>1, <2>2
    <3>2. ASSUME NEW b \in S, b <= n + 1 PROVE \E a : Leads(gained, S, n + 1, a)
      <4>1. PICK a : Leads(gained, S, n, a)
        BY <1>2, <3>1, <3>2
      <4>2. Leads(gained, S, n + 1, a)
        BY <3>1, <4>1 DEF Leads
      <4> QED  BY <4>2
    <3> QED  BY <3>2
  <2>3. CASE n + 1 \in S /\ ~\E b \in S : b <= n
    <3>1. \A b \in S : b <= n + 1 => b = n + 1
      BY <2>1, <2>3
    <3>2. Leads(gained, S, n + 1, n + 1)
      BY <1>0, <2>3, <3>1 DEF Leads
    <3> QED  BY <3>2
  <2>4. CASE n + 1 \in S /\ \E b \in S : b <= n
    <3>1. PICK a : Leads(gained, S, n, a)
      BY <1>2, <2>4
    <3>2. a \in S /\ a <= n + 1 /\ gained[a] \in Int /\ gained[n + 1] \in Int /\ a <= n /\ a \in Nat
      BY <1>0, <2>4, <3>1 DEF Leads
    <3>3. CASE gained[a] >= gained[n + 1]
      <4>1. Leads(gained, S, n + 1, a)
        BY <1>0, <2>1, <3>1, <3>2, <3>3 DEF Leads
      <4> QED  BY <4>1
    <3>4. CASE gained[n + 1] > gained[a]
      <4>1. \A b \in S : b <= n => gained[b] <= gained[a]
        BY <1>0, <3>1, <3>2 DEF Leads
      <4>2. \A b \in S : b <= n => gained[n + 1] > gained[b]
        BY <1>0, <3>2, <3>4, <4>1
      <4>3. Leads(gained, S, n + 1, n + 1)
        BY <1>0, <2>1, <2>4, <4>2 DEF Leads
      <4> QED  BY <4>3
    <3> QED  BY <3>2, <3>3, <3>4
  <2> QED  BY <2>2, <2>3, <2>4
<1>3. \A n \in Nat : n \in T
  <2> HIDE DEF T
  <2> QED  BY <1>1, <1>2, Induct
<1>4. PICK a : Leads(gained, S, Last, a)
  BY <1>0, <1>3
<1> QED  BY <1>4 DEF Leads

LEMMA NumbersFit ==
  ASSUME NEW S \in SUBSET Addresses, NEW R \in SUBSET S
  PROVE  /\ IsFiniteSet(R) /\ IsFiniteSet(S)
         /\ Cardinality(R) \in Nat /\ Cardinality(S) \in Nat /\ Cardinality(R) <= Cardinality(S)
<1>1. IsFiniteSet(Addresses)
  BY AddressesAre, FS_Interval
<1>2. IsFiniteSet(S)
  BY <1>1, FS_Subset
<1> QED  BY <1>2, FS_Subset, FS_CardinalityType

(* Arithmetic of the bound on how far an address may lag.                  *)
LEMMA ProductsCompare == ASSUME NEW k \in Nat, NEW x \in Int, NEW y \in Int, x <= y
  PROVE  k * x <= k * y /\ k * x \in Int
<1>1. y - x \in Nat /\ y = x + (y - x)
  OBVIOUS
<1>2. y * k = x * k + (y - x) * k /\ (y - x) * k >= 0
  <2>1. (x + (y - x)) * k = x * k + (y - x) * k
    BY <1>1, Distribute
  <2> QED  BY <1>1, <2>1
<1> QED  BY <1>2

LEMMA TheRestPays ==
  ASSUME NEW k \in Nat, k >= 1, NEW m \in Int, NEW t \in Nat, NEW x \in Int, NEW g \in Int, NEW y \in Int,
         x <= k * g, 2 * y <= ((k + 1) * m) * t, x + g <= y + t
  PROVE  2 * x <= (k * (m + 1)) * t
<1> DEFINE p == k * m * t
           q == m * t
           r == k * t
<1>1. /\ p \in Int /\ q \in Int /\ r \in Int /\ r >= t
      /\ ((k + 1) * m) * t = p + q
      /\ (k * (m + 1)) * t = p + r
      /\ k * q = p
  <2>1. (k + 1) * m = k * m + 1 * m /\ (k * m + 1 * m) * t = (k * m) * t + (1 * m) * t /\ 1 * m = m
    BY Distribute
  <2>2. k * (m + 1) = k * m + k
    BY Distribute
  <2>3. (k * m + k) * t = (k * m) * t + k * t
    BY Distribute
  <2>4. k * t >= t
    <3>1. t * 1 <= t * k
      BY ProductsCompare
    <3> QED  BY <3>1
  <2>5. k * (m * t) = (k * m) * t
    OBVIOUS
  <2> QED  BY <2>1, <2>2, <2>3, <2>4, <2>5
<1>2. k * x + x <= k * (y + t)
  <2>1. k * (x + g) = k * x + k * g
    BY Distribute
  <2>2. k * (x + g) <= k * (y + t)
    BY ProductsCompare
  <2> QED  BY <2>1, <2>2
<1>3. 2 * (k * x) + 2 * x <= k * (p + q + 2 * t)
  <2> HIDE DEF p, q
  <2>1. k * (2 * (y + t)) <= k * (p + q + 2 * t)
    <3>1. 2 * (y + t) <= p + q + 2 * t
      BY <1>1
    <3> QED  BY <1>1, <3>1, ProductsCompare
  <2>2. k * (2 * (y + t)) = 2 * (k * (y + t))
    OBVIOUS
  <2> QED  BY <1>1, <1>2, <2>1, <2>2
<1>4. k * (p + q + 2 * t) = k * p + p + 2 * r
  <2> HIDE DEF p, q
  <2>1. k * (p + q + 2 * t) = k * p + k * q + k * (2 * t) /\ k * (2 * t) = 2 * (k * t)
    BY <1>1, Distribute
  <2> QED  BY <1>1, <2>1
<1> HIDE DEF p, q, r
<1>5. SUFFICES ASSUME 2 * x >= p + r + 1 PROVE FALSE
  BY <1>1
<1>6. k * (p + r + 1) <= k * (2 * x) /\ k * (p + r + 1) = k * p + k * r + k
  <2>1. k * (p + r + 1) <= k * (2 * x)
    BY <1>1, <1>5, ProductsCompare
  <2>2. k * (p + r + 1) = k * p + k * r + k
    BY <1>1, Distribute
  <2> QED  BY <2>1, <2>2
<1>7. k * r >= r
  <2>1. r * 1 <= r * k
    BY <1>1, ProductsCompare DEF r
  <2> QED  BY <1>1, <2>1
<1> DEFINE kp == k * p
           kr == k * r
           kx == k * x
<1>8. k * (2 * x) = 2 * kx /\ kp \in Int /\ kr \in Int /\ kx \in Int
  BY <1>1
<1>9. 2 * kx + 2 * x <= kp + p + 2 * r
  BY <1>3, <1>4
<1>10. kp + kr + k <= 2 * kx /\ kr >= r
  BY <1>6, <1>7, <1>8
<1> HIDE DEF kp, kr, kx
<1> QED  BY <1>1, <1>5, <1>8, <1>9, <1>10
(* The picks of a whole round, and those made of it.                       *)
W == Bal!Total(Bal!Weight, ready)
K == Bal!Total(picks, ready)

BalancerTypeOK ==
  /\ configured \in [Addresses -> Weights] /\ ready \subseteq Addresses
  /\ current \in [Addresses -> Int] /\ picks \in [Addresses -> Nat]

(* The current weight of an address is what the picks owe it, and nothing  *)
(* when it is not ready; what they owe to all is nothing.                  *)
Owed ==
  /\ \A a \in ready : current[a] = K * Bal!Weight[a] - picks[a] * W
  /\ \A a \in Addresses \ ready : current[a] = 0 /\ picks[a] = 0
  /\ Bal!Total(current, ready) = 0

NobodyAhead == \A a \in ready : -current[a] < W

RoundOpen == ready # {} => K < W

(* What the picks owe to some of the addresses together: the fewer they    *)
(* are, and the more the others, the more it may be for each.              *)
Behind(S) == 2 * Bal!Total(current, S) <= (Cardinality(S) * (Cardinality(ready) - Cardinality(S))) * W
NobodyBehind == \A S \in SUBSET ready : Behind(S)

BalancerInv == BalancerTypeOK /\ Owed /\ NobodyAhead /\ RoundOpen /\ NobodyBehind

LEMMA WeightsAre ==
  ASSUME BalancerTypeOK, NEW S \in SUBSET Addresses
  PROVE  /\ Bal!Weight \in [Addresses -> 1..maxServiceWeight] /\ Bal!Weight \in [Addresses -> Int]
         /\ Bal!Total(Bal!Weight, S) \in Int /\ Bal!Total(Bal!Weight, S) >= 0
         /\ \A a \in S : /\ Bal!Weight[a] \in Int /\ 1 <= Bal!Weight[a]
                        /\ Bal!Weight[a] <= Bal!Total(Bal!Weight, S)
<1>1. Bal!Weight \in [Addresses -> 1..maxServiceWeight]
  <2>1. \A a \in Addresses : configured[a] \in Int /\ maxServiceWeight \in Nat \ {0}
    BY BalancerFits DEF BalancerTypeOK, Bal!BalancerAssumption
  <2>2. \A a \in Addresses : Bal!weightFromAddress(a) \in 1..maxServiceWeight
    BY <2>1 DEF Bal!weightFromAddress
  <2> QED  BY <2>2 DEF Bal!Weight
<1>2. Bal!Weight \in [Addresses -> Int] /\ Bal!Zero \in [Addresses -> Int]
  BY <1>1 DEF Bal!Zero
<1>3. \A a \in S : Bal!Zero[a] = 0 /\ 1 <= Bal!Weight[a] /\ Bal!Weight[a] \in Int
  BY <1>1, <1>2 DEF Bal!Zero
<1> DEFINE total == Bal!Total(Bal!Weight, S)
<1>4. /\ total \in Int /\ Bal!Total(Bal!Zero, S) <= total
      /\ \A a \in S : Bal!Weight[a] - Bal!Zero[a] <= total - Bal!Total(Bal!Zero, S)
  <2>1. \A a \in S : Bal!Zero[a] <= Bal!Weight[a]
    BY <1>3
  <2> QED  BY <1>2, <2>1, TotalCompares
<1> HIDE DEF total
<1>5. total \in Int /\ 0 <= total /\ \A a \in S : Bal!Weight[a] - 0 <= total - 0
  BY <1>3, <1>4, TotalOfNothing
<1>6. \A a \in S : Bal!Weight[a] <= total
  BY <1>3, <1>5
<1> QED  BY <1>1, <1>2, <1>3, <1>5, <1>6 DEF total

LEMMA PicksAre ==
  ASSUME BalancerTypeOK
  PROVE  K \in Int /\ K >= 0
<1>1. picks \in [Addresses -> Int] /\ Bal!Zero \in [Addresses -> Int]
      /\ ready \in SUBSET Addresses /\ \A a \in ready : Bal!Zero[a] <= picks[a]
  BY DEF BalancerTypeOK, Bal!Zero
<1>2. K \in Int /\ Bal!Total(Bal!Zero, ready) <= K
  BY <1>1, TotalCompares DEF K
<1> QED  BY <1>1, <1>2, TotalOfNothing

LEMMA InitBalancer == Bal!Init => BalancerInv
<1> SUFFICES ASSUME Bal!Init PROVE BalancerInv
  OBVIOUS
<1>1. BalancerTypeOK /\ ready = {} /\ current = Bal!Zero /\ picks = Bal!Zero
  BY DEF Bal!Init, Bal!Zero, BalancerTypeOK
<1>2. Bal!Total(current, ready) = 0
  BY <1>1, TotalOfNothing
<1>3. \A a \in Addresses : current[a] = 0 /\ picks[a] = 0
  BY <1>1 DEF Bal!Zero
<1>4. NobodyBehind
  <2> SUFFICES ASSUME NEW S \in SUBSET ready PROVE Behind(S)
    BY DEF NobodyBehind
  <2>1. S = {} /\ ready = S
    BY <1>1
  <2>2. W \in Int
    BY <1>1, WeightsAre DEF W, BalancerTypeOK
  <2> QED  BY <1>2, <2>1, <2>2, FS_EmptySet DEF Behind
<1> QED  BY <1>1, <1>2, <1>3, <1>4 DEF BalancerInv, Owed, NobodyAhead, RoundOpen

(* A new picker owes nothing.                                              *)
LEMMA BuildInv == ASSUME BalancerInv, NEW S \in SUBSET Addresses, Bal!Build(S) PROVE BalancerInv'
<1>1. /\ BalancerTypeOK /\ ready' = S /\ current' = Bal!Zero /\ picks' = Bal!Zero
      /\ configured' = configured
  BY DEF BalancerInv, Bal!Build
<1>2. BalancerTypeOK'
  BY <1>1 DEF BalancerTypeOK, Bal!Zero
<1>3. Bal!Weight' = Bal!Weight
  BY <1>1 DEF Bal!Weight, Bal!weightFromAddress
<1> DEFINE total == Bal!Total(Bal!Weight, S)
<1>4. W' = total /\ K' = 0 /\ Bal!Total(current, ready)' = 0
  <2>1. W' = total
    BY <1>1, <1>3 DEF W, Bal!Total
  <2>2. K' = Bal!Total(Bal!Zero, S) /\ Bal!Total(current, ready)' = Bal!Total(Bal!Zero, S)
    BY <1>1 DEF K, Bal!Total
  <2> QED  BY <2>1, <2>2, TotalOfNothing
<1>5. \A a \in Addresses : current'[a] = 0 /\ picks'[a] = 0
  BY <1>1 DEF Bal!Zero
<1>6. total \in Int /\ \A a \in S : Bal!Weight[a] \in Int /\ 1 <= Bal!Weight[a] /\ Bal!Weight[a] <= total
  BY <1>1, WeightsAre
<1> HIDE DEF total
<1>7. \A a \in S : 0 < total /\ 0 = 0 * Bal!Weight[a] - 0 * total /\ -0 < total
  BY <1>6
<1>8. Owed'
  BY <1>1, <1>3, <1>4, <1>5, <1>7 DEF Owed
<1>9. NobodyAhead' /\ RoundOpen'
  BY <1>1, <1>4, <1>5, <1>7 DEF NobodyAhead, RoundOpen
<1>10. total \in Nat
  BY WeightsAre, <1>1 DEF total
<1>11. NobodyBehind'
  <2> SUFFICES ASSUME NEW R \in SUBSET S PROVE Behind(R)'
    BY <1>1 DEF NobodyBehind
  <2>1. Bal!Total(Bal!Zero, R) = 0
    BY TotalOfNothing
  <2>2. 2 * 0 <= (Cardinality(R) * (Cardinality(S) - Cardinality(R))) * total
    <3>1. Cardinality(R) \in Nat /\ Cardinality(S) - Cardinality(R) \in Nat /\ total \in Nat
      BY <1>10, NumbersFit
    <3>2. \A i, j, k \in Nat : 2 * 0 <= (i * j) * k
      OBVIOUS
    <3> QED  BY <3>1, <3>2
  <2> QED  BY <1>1, <1>4, <2>1, <2>2 DEF Behind, Bal!Total
<1> QED  BY <1>2, <1>8, <1>9, <1>11 DEF BalancerInv

LEMMA Wholly ==
  ASSUME NEW t \in Int, t > 0, NEW w \in Int, NEW p \in Int, t * w - p * t > -t
  PROVE  p <= w
<1>1. (w + 1) * t = w * t + 1 * t /\ t * w = w * t /\ 1 * t = t
  BY Distribute
<1>2. SUFFICES ASSUME p - (w + 1) \in Nat PROVE FALSE
  OBVIOUS
<1>3. p * t = (w + 1) * t + (p - (w + 1)) * t
  <2>1. p = (w + 1) + (p - (w + 1)) /\ w + 1 \in Int /\ p - (w + 1) \in Int
    OBVIOUS
  <2> QED  BY <2>1, Distribute
<1>4. \A n \in Nat : n * t >= 0 /\ n * t \in Int
  OBVIOUS
<1> QED  BY <1>1, <1>2, <1>3, <1>4

(* A pick: who gains most has something, and pays for all.                 *)
LEMMA PickInv == ASSUME BalancerInv, Bal!pickNext PROVE BalancerInv'
<1> DEFINE gained == [a \in Addresses |-> IF a \in ready THEN current[a] + Bal!Weight[a] ELSE 0]
           c == Bal!Heaviest(gained)
           paid == [gained EXCEPT ![c] = @ - W]
           had == [picks EXCEPT ![c] = @ + 1]
<1>1. /\ ready # {} /\ ready \in SUBSET Addresses /\ configured' = configured /\ ready' = ready
      /\ current' = paid
      /\ picks' = IF K + 1 = W /\ paid = Bal!Zero THEN Bal!Zero ELSE had
  BY DEF Bal!pickNext, BalancerInv, BalancerTypeOK, K, W
<1>2. /\ BalancerTypeOK /\ Owed /\ NobodyAhead /\ NobodyBehind /\ K < W
  BY <1>1 DEF BalancerInv, RoundOpen
<1>3. /\ Bal!Weight \in [Addresses -> Int] /\ W \in Int /\ K \in Int /\ K >= 0
      /\ current \in [Addresses -> Int] /\ picks \in [Addresses -> Nat] /\ picks \in [Addresses -> Int]
      /\ \A a \in ready : /\ Bal!Weight[a] \in Int /\ 1 <= Bal!Weight[a] /\ current[a] \in Int
                         /\ picks[a] \in Int
  BY <1>1, <1>2, WeightsAre, PicksAre DEF BalancerTypeOK, W
<1>4. /\ gained \in [Addresses -> Int]
      /\ \A a \in ready : gained[a] = current[a] + Bal!Weight[a]
      /\ \A a \in Addresses \ ready : gained[a] = 0
  BY <1>1, <1>3
<1> HIDE DEF gained
<1>5. Bal!Total(gained, ready) = W
  <2>1. Bal!Total(gained, ready) = Bal!Total(current, ready) + W
    BY <1>1, <1>3, <1>4, TotalAdds DEF W
  <2> QED  BY <1>2, <1>3, <2>1 DEF Owed
<1>6. c \in ready /\ \A b \in ready : gained[b] <= gained[c]
  <2>1. \A a, b \in ready : b <= Last
    BY <1>1, AddressesAre
  <2>2. PICK a \in ready : Leads(gained, ready, Last, a)
    BY <1>1, <1>4, SomebodyLeads
  <2>3. \A b \in ready : gained[a] > gained[b] \/ (gained[a] = gained[b] /\ a <= b)
    BY <2>1, <2>2 DEF Leads
  <2>4. c \in ready /\ \A b \in ready : gained[c] > gained[b] \/ (gained[c] = gained[b] /\ c <= b)
    BY <2>3 DEF Bal!Heaviest
  <2> HIDE DEF c
  <2>5. \A b \in ready : gained[b] \in Int
    BY <1>1, <1>4
  <2> QED  BY <2>4, <2>5
<1> HIDE DEF c
<1>7. gained[c] > 0 /\ gained[c] \in Int
  <2>1. gained[c] \in Int /\ Bal!Zero \in [Addresses -> Int] /\ \A a \in ready : Bal!Zero[a] = 0 /\ gained[a] \in Int
    BY <1>1, <1>4, <1>6 DEF Bal!Zero
  <2>2. SUFFICES ASSUME gained[c] <= 0 PROVE FALSE
    BY <2>1
  <2>3. \A a \in ready : gained[a] <= Bal!Zero[a]
    BY <1>6, <2>1, <2>2
  <2>4. W <= 0
    BY <1>1, <1>4, <1>5, <2>1, <2>3, TotalCompares, TotalOfNothing
  <2> QED  BY <1>2, <1>3, <2>4
<1>8. /\ paid \in [Addresses -> Int] /\ had \in [Addresses -> Nat] /\ had \in [Addresses -> Int]
      /\ paid[c] = gained[c] - W /\ \A a \in Addresses : a # c => paid[a] = gained[a]
      /\ had[c] = picks[c] + 1 /\ \A a \in Addresses : a # c => had[a] = picks[a]
  BY <1>1, <1>3, <1>4, <1>6
<1>9. paid = [gained EXCEPT ![c] = @ + (-W)] /\ -W \in Int
  <2>1. gained[c] - W = gained[c] + (-W) /\ -W \in Int
    BY <1>3, <1>7
  <2> QED  BY <2>1
<1>10. Bal!Total(paid, ready) = 0
  <2>1. Bal!Total([gained EXCEPT ![c] = @ + (-W)], ready) = W + (-W)
    BY <1>1, <1>4, <1>5, <1>6, <1>9, TotalChanges
  <2> HIDE DEF paid
  <2> QED  BY <1>3, <1>9, <2>1
<1>11. Bal!Total(had, ready) = K + 1
  <2>1. picks \in [Addresses -> Int] /\ 1 \in Int /\ c \in ready /\ ready \in SUBSET Addresses
    BY <1>1, <1>3, <1>6
  <2>2. Bal!Total([picks EXCEPT ![c] = @ + 1], ready) = Bal!Total(picks, ready) + 1
    BY <2>1, TotalChanges
  <2> QED  BY <2>2 DEF K
<1> HIDE DEF paid, had
<1>12. ASSUME NEW S \in SUBSET ready
       PROVE  2 * Bal!Total(paid, S) <= (Cardinality(S) * (Cardinality(ready) - Cardinality(S))) * W
  <2> DEFINE k == Cardinality(S)
             n == Cardinality(ready)
             x == Bal!Total(gained, S)
             y == Bal!Total(current, S)
             w == Bal!Total(Bal!Weight, S)
  <2>1. S \in SUBSET Addresses /\ IsFiniteSet(S) /\ k \in Nat /\ n \in Nat /\ k <= n /\ W \in Nat
    BY <1>1, <1>2, <1>3, NumbersFit
  <2>2. ASSUME NEW R \in SUBSET ready
        PROVE  /\ Bal!Total(gained, R) = Bal!Total(current, R) + Bal!Total(Bal!Weight, R)
               /\ Bal!Total(gained, R) \in Int /\ Bal!Total(current, R) \in Int
               /\ Bal!Total(Bal!Weight, R) \in Int /\ Bal!Total(Bal!Weight, R) <= W
    <3>1. R \in SUBSET Addresses /\ \A a \in R : gained[a] = current[a] + Bal!Weight[a]
      BY <1>1, <1>4
    <3>2. Bal!Total(Bal!Weight, R) <= W
      <4>1. \A a \in ready : Bal!Weight[a] >= 0
        BY <1>3
      <4> QED  BY <1>1, <1>3, <4>1, TotalOfMore DEF W
    <3> QED  BY <1>3, <1>4, <3>1, <3>2, TotalAdds, TotalIsInt
  <2>3. /\ x = y + w /\ x \in Int /\ y \in Int /\ w \in Int /\ w <= W
        /\ 2 * y <= (k * (n - k)) * W /\ (k * (n - k)) * W \in Int
    <3>1. x = y + w /\ x \in Int /\ y \in Int /\ w \in Int /\ w <= W
      BY <2>2
    <3>2. 2 * y <= (k * (n - k)) * W
      BY <1>2 DEF NobodyBehind, Behind
    <3>3. (k * (n - k)) * W \in Int
      <4> HIDE DEF k, n
      <4> QED  BY <2>1
    <3> QED  BY <3>1, <3>2, <3>3
  <2>4. CASE c \in S
    <3>1. Bal!Total(paid, S) = x + (-W)
      BY <1>4, <1>9, <2>1, <2>4, TotalChanges
    <3> HIDE DEF k, n, x, y, w
    <3>2. 2 * (x + (-W)) <= (k * (n - k)) * W
      BY <1>3, <2>3
    <3> QED  BY <3>1, <3>2 DEF k, n
  <2>5. CASE S = {}
    <3>1. Bal!Total(paid, S) = 0 /\ k = 0
      BY <1>8, <2>5, TotalOfNobody, FS_EmptySet
    <3>2. \A i \in Int : 2 * 0 <= (0 * i) * W
      BY <1>3
    <3>3. n - 0 \in Int
      BY <2>1
    <3> QED  BY <3>1, <3>2, <3>3
  <2>6. CASE c \notin S /\ S # {}
    <3> DEFINE R == S \cup {c}
               v == Bal!Total(current, R)
    <3>1. Bal!Total(paid, S) = x
      <4>1. \A a \in S : paid[a] = gained[a]
        BY <1>8, <2>1, <2>6
      <4> QED  BY <1>4, <1>8, <2>1, <4>1, TotalAgrees
    <3>2. x <= k * gained[c]
      <4>1. \A a \in S : gained[a] <= gained[c]
        BY <1>6
      <4> QED  BY <1>4, <1>7, <2>1, <4>1, TotalIsBounded
    <3>3. R \in SUBSET ready /\ Cardinality(R) = k + 1
      BY <1>6, <2>1, <2>6, FS_AddElement
    <3>4. v \in Int /\ x + gained[c] <= v + W
      <4>1. Bal!Total(gained, R) = x + gained[c]
        BY <1>1, <1>4, <1>6, <2>1, <2>6, TotalTogether
      <4>2. /\ Bal!Total(gained, R) = v + Bal!Total(Bal!Weight, R) /\ v \in Int
            /\ Bal!Total(Bal!Weight, R) \in Int /\ Bal!Total(Bal!Weight, R) <= W
        BY <2>2, <3>3
      <4> HIDE DEF v, x, R
      <4> QED  BY <1>3, <4>1, <4>2
    <3>5. 2 * v <= ((k + 1) * (n - (k + 1))) * W
      <4>1. Behind(R)
        BY <1>2, <3>3 DEF NobodyBehind
      <4> QED  BY <3>3, <4>1 DEF Behind
    <3>6. k >= 1
      <4>1. k # 0
        BY <2>1, <2>6, FS_EmptySet
      <4> QED  BY <2>1, <4>1
    <3> HIDE DEF k, n, x, y, w, v, R
    <3>7. (n - (k + 1)) \in Int /\ (n - (k + 1)) + 1 = n - k
      BY <2>1
    <3>8. 2 * x <= (k * ((n - (k + 1)) + 1)) * W
      BY <1>7, <2>1, <2>3, <3>2, <3>4, <3>5, <3>6, <3>7, TheRestPays
    <3> QED  BY <3>1, <3>7, <3>8 DEF k, n
  <2> QED  BY <2>4, <2>5, <2>6
<1>13. \A a \in ready : paid[a] = (K + 1) * Bal!Weight[a] - had[a] * W
  <2> SUFFICES ASSUME NEW a \in ready PROVE paid[a] = (K + 1) * Bal!Weight[a] - had[a] * W
    OBVIOUS
  <2>1. current[a] = K * Bal!Weight[a] - picks[a] * W /\ gained[a] = current[a] + Bal!Weight[a]
    BY <1>2, <1>4 DEF Owed
  <2>2. (K + 1) * Bal!Weight[a] = K * Bal!Weight[a] + 1 * Bal!Weight[a] /\ 1 * Bal!Weight[a] = Bal!Weight[a]
    BY <1>3, Distribute
  <2>3. (picks[a] + 1) * W = picks[a] * W + 1 * W /\ 1 * W = W
    BY <1>3, Distribute
  <2>4. K * Bal!Weight[a] \in Int /\ picks[a] * W \in Int /\ Bal!Weight[a] \in Int
    BY <1>3
  <2>5. CASE a = c
    BY <1>3, <1>8, <2>1, <2>2, <2>3, <2>4, <2>5
  <2>6. CASE a # c
    BY <1>1, <1>3, <1>8, <2>1, <2>2, <2>4, <2>6
  <2> QED  BY <2>5, <2>6
<1>14. \A a \in ready : -paid[a] < W /\ paid[a] \in Int
  <2> SUFFICES ASSUME NEW a \in ready PROVE -paid[a] < W /\ paid[a] \in Int
    OBVIOUS
  <2>1. -current[a] < W /\ gained[a] = current[a] + Bal!Weight[a]
    BY <1>2, <1>4 DEF NobodyAhead
  <2>2. CASE a = c
    BY <1>3, <1>7, <1>8, <2>2
  <2>3. CASE a # c
    BY <1>1, <1>3, <1>8, <2>1, <2>3
  <2> QED  BY <2>2, <2>3
<1>15. \A a \in Addresses \ ready : paid[a] = 0 /\ had[a] = 0
  BY <1>2, <1>4, <1>6, <1>8 DEF Owed
<1>16. Bal!Weight' = Bal!Weight
  BY <1>1 DEF Bal!Weight, Bal!weightFromAddress
<1>17. W' = W
  BY <1>1, <1>16 DEF W, Bal!Total
<1>18. Bal!Total(current, ready)' = 0
  <2>1. Bal!Total(current, ready)' = Bal!Total(paid, ready)
    BY <1>1 DEF Bal!Total
  <2> QED  BY <1>10, <2>1
<1>19. NobodyAhead'
  BY <1>1, <1>14, <1>17 DEF NobodyAhead
<1>20. NobodyBehind'
  <2> SUFFICES ASSUME NEW S \in SUBSET ready PROVE Behind(S)'
    BY <1>1 DEF NobodyBehind
  <2>1. Bal!Total(current, S)' = Bal!Total(paid, S)
    BY <1>1 DEF Bal!Total
  <2> QED  BY <1>1, <1>17, <1>12, <2>1 DEF Behind
<1>21. CASE K + 1 = W /\ paid = Bal!Zero
  <2>1. picks' = Bal!Zero
    BY <1>1, <1>21
  <2>2. K' = 0
    <3>1. K' = Bal!Total(Bal!Zero, ready)
      BY <1>1, <2>1 DEF K, Bal!Total
    <3> QED  BY <1>1, <3>1, TotalOfNothing
  <2>3. \A a \in Addresses : current'[a] = 0 /\ picks'[a] = 0
    BY <1>1, <1>21, <2>1 DEF Bal!Zero
  <2>4. \A a \in ready : 0 = 0 * Bal!Weight[a] - 0 * W
    BY <1>3
  <2>5. Owed'
    BY <1>1, <1>16, <1>17, <1>18, <2>2, <2>3, <2>4 DEF Owed
  <2>6. RoundOpen'
    BY <1>2, <1>3, <1>17, <2>2 DEF RoundOpen
  <2>7. BalancerTypeOK'
    BY <1>1, <1>2, <1>8, <2>1 DEF BalancerTypeOK, Bal!Zero
  <2> QED  BY <1>19, <1>20, <2>5, <2>6, <2>7 DEF BalancerInv
<1>22. CASE K + 1 = W /\ paid # Bal!Zero
  <2>1. \A a \in ready : had[a] <= Bal!Weight[a] /\ had[a] \in Int
    <3> SUFFICES ASSUME NEW a \in ready PROVE had[a] <= Bal!Weight[a] /\ had[a] \in Int
      OBVIOUS
    <3>1. had[a] \in Int /\ W > 0 /\ Bal!Weight[a] \in Int
      BY <1>1, <1>3, <1>8, <1>22
    <3>2. W * Bal!Weight[a] - had[a] * W > -W
      <4>1. W * Bal!Weight[a] - had[a] * W = paid[a] /\ paid[a] \in Int /\ -paid[a] < W
        BY <1>13, <1>14, <1>22
      <4> HIDE DEF paid
      <4> QED  BY <1>3, <4>1
    <3> QED  BY <1>3, <3>1, <3>2, Wholly
  <2>2. \A a \in ready : Bal!Weight[a] - had[a] <= W - (K + 1)
    BY <1>1, <1>3, <1>8, <1>11, <2>1, TotalCompares DEF W
  <2>3. \A a \in ready : had[a] = Bal!Weight[a]
    BY <1>3, <1>22, <2>1, <2>2
  <2>4. \A a \in ready : paid[a] = 0
    <3>1. \A a \in ready : W * Bal!Weight[a] = Bal!Weight[a] * W /\ W * Bal!Weight[a] \in Int
      BY <1>3
    <3> QED  BY <1>13, <1>22, <2>3, <3>1
  <2>5. paid = Bal!Zero
    BY <1>8, <1>15, <2>4 DEF Bal!Zero
  <2> QED  BY <1>22, <2>5
<1>23. CASE K + 1 # W
  <2>1. picks' = had /\ K + 1 < W
    BY <1>1, <1>2, <1>3, <1>23
  <2>2. K' = K + 1
    <3>1. K' = Bal!Total(had, ready)
      BY <1>1, <2>1 DEF K, Bal!Total
    <3> QED  BY <1>11, <3>1
  <2>3. Owed'
    BY <1>1, <1>13, <1>15, <1>16, <1>17, <1>18, <2>1, <2>2 DEF Owed
  <2>4. RoundOpen'
    BY <1>17, <2>1, <2>2 DEF RoundOpen
  <2>5. BalancerTypeOK'
    BY <1>1, <1>2, <1>8, <2>1 DEF BalancerTypeOK
  <2> QED  BY <1>19, <1>20, <2>3, <2>4, <2>5 DEF BalancerInv
<1> QED  BY <1>21, <1>22, <1>23

LEMMA BalancerStep == BalancerInv /\ [Bal!Next]_Bal!vars => BalancerInv'
<1> SUFFICES ASSUME BalancerInv, [Bal!Next]_Bal!vars PROVE BalancerInv'
  OBVIOUS
<1>1. CASE UNCHANGED <<configured, ready, current, picks>>
  <2>1. Bal!Weight' = Bal!Weight
    BY <1>1 DEF Bal!Weight, Bal!weightFromAddress
  <2>2. W' = W /\ K' = K /\ Bal!Total(current, ready)' = Bal!Total(current, ready)
    BY <1>1, <2>1 DEF W, K, Bal!Total
  <2>3. \A S \in SUBSET ready : Behind(S)' <=> Behind(S)
    <3>1. \A S \in SUBSET ready : Bal!Total(current, S)' = Bal!Total(current, S)
      BY <1>1 DEF Bal!Total
    <3> QED  BY <1>1, <2>2, <3>1 DEF Behind
  <2>4. NobodyBehind <=> NobodyBehind'
    BY <1>1, <2>3 DEF NobodyBehind
  <2> QED  BY <1>1, <2>1, <2>2, <2>4 DEF BalancerInv, BalancerTypeOK, Owed, NobodyAhead, RoundOpen
<1> QED  BY <1>1, BuildInv, PickInv DEF Bal!Next, Bal!vars

(* The share each address is due, for any number of addresses and whatever *)
(* weights they are configured with (pickNext, grpc/balancer.go:132-149).  *)
THEOREM NobodyTakesMore == Bal!Spec => []SharesAreFair
<1>1. ASSUME BalancerInv PROVE SharesAreFair
  <2>1. /\ ready \in SUBSET Addresses /\ W \in Int /\ K \in Int
        /\ Bal!Weight \in [Addresses -> 1..maxServiceWeight] /\ picks \in [Addresses -> Nat]
    BY <1>1, WeightsAre, PicksAre DEF BalancerInv, BalancerTypeOK, W
  <2>2. ASSUME NEW a \in ready
        PROVE  Bal!Weight[a] \in 1..maxServiceWeight /\ picks[a] * W - K * Bal!Weight[a] < W
    <3>1. Bal!Weight[a] \in 1..maxServiceWeight /\ picks[a] \in Int
      BY <2>1
    <3>2. current[a] = K * Bal!Weight[a] - picks[a] * W /\ -current[a] < W
      BY <1>1 DEF BalancerInv, Owed, NobodyAhead
    <3>3. K * Bal!Weight[a] \in Int /\ picks[a] * W \in Int
      BY <2>1, <3>1
    <3> QED  BY <2>1, <3>1, <3>2, <3>3
  <2>3. ready # {} => K < W
    BY <1>1 DEF BalancerInv, RoundOpen
  <2> QED  BY <2>2, <2>3 DEF SharesAreFair, Bal!SharesAreFair, Bal!Due, Bal!Had, K, W
<1>2. BalancerInv => SharesAreFair
  BY <1>1
<1> QED  BY <1>2, InitBalancer, BalancerStep, PTL DEF Bal!Spec

(* Nobody waits for longer than the number of its rivals justifies, for    *)
(* any number of addresses and any weights (pickNext,                      *)
(* grpc/balancer.go:132-149).                                              *)
THEOREM NobodyIsForgotten == Bal!Spec => []NobodyLags
<1>1. ASSUME BalancerInv PROVE NobodyLags
  <2> SUFFICES ASSUME NEW a \in ready
               PROVE  2 * (K * Bal!Weight[a] - picks[a] * W) <= (Bal!Cardinality(ready) - 1) * W
    BY DEF NobodyLags, Bal!NobodyLags, Bal!Due, Bal!Had, K, W
  <2>1. /\ current \in [Addresses -> Int] /\ a \in Addresses /\ ready \in SUBSET Addresses
        /\ current[a] = K * Bal!Weight[a] - picks[a] * W
    BY <1>1 DEF BalancerInv, BalancerTypeOK, Owed
  <2>2. Bal!Total(current, {a}) = current[a]
    <3>1. /\ Bal!Total(current, {} \cup {a}) = Bal!Total(current, {}) + current[a]
          /\ Bal!Total(current, {}) = 0 /\ current[a] \in Int
      BY <2>1, TotalTogether, TotalOfNobody
    <3>2. {} \cup {a} = {a}
      OBVIOUS
    <3> QED  BY <3>1, <3>2
  <2>3. 2 * current[a] <= (1 * (Cardinality(ready) - 1)) * W
    <3>1. Cardinality({a}) = 1
      BY FS_Singleton
    <3>2. Behind({a})
      BY <1>1 DEF BalancerInv, NobodyBehind
    <3> QED  BY <2>2, <3>1, <3>2 DEF Behind
  <2>4. Bal!Cardinality(ready) = Cardinality(ready) /\ 1 * (Cardinality(ready) - 1) = Cardinality(ready) - 1
    <3>1. Cardinality(ready) - 1 \in Int
      BY <2>1, NumbersFit
    <3> QED  BY <3>1 DEF Bal!Cardinality, Cardinality
  <2> QED  BY <2>1, <2>3, <2>4
<1>2. BalancerInv => NobodyLags
  BY <1>1
<1> QED  BY <1>2, InitBalancer, BalancerStep, PTL DEF Bal!Spec
-----------------------------------------------------------------------------
(* The retry loop.                                                         *)

(* power follows the definition of Power up to m.                          *)
PowersUp(power, m) ==
  power = [n \in 0..m |-> IF n = 0 THEN 1 ELSE 2 * power[n - 1]]

PowersAre(power, m) ==
  power[0] = 1 /\ \A n \in 0..m : n + 1 <= m => power[n + 1] = 2 * power[n]

LEMMA PowersUpAre == ASSUME NEW m \in Nat, NEW power, PowersUp(power, m) PROVE PowersAre(power, m)
<1>1. \A n \in 0..m : power[n] = IF n = 0 THEN 1 ELSE 2 * power[n - 1]
  BY DEF PowersUp
<1>2. power[0] = 1
  BY <1>1
<1>3. ASSUME NEW n \in 0..m, n + 1 <= m PROVE power[n + 1] = 2 * power[n]
  <2>1. n + 1 \in 0..m /\ n + 1 # 0 /\ (n + 1) - 1 = n
    BY <1>3
  <2> QED  BY <1>1, <2>1
<1> QED  BY <1>2, <1>3 DEF PowersAre

LEMMA PowersExist == \A m \in Nat : \E power : PowersUp(power, m)
<1> DEFINE T == {m \in Nat : \E power : PowersUp(power, m)}
<1>1. 0 \in T
  <2> DEFINE power == [n \in 0..0 |-> 1]
  <2>1. PowersUp(power, 0)
    BY DEF PowersUp
  <2> QED  BY <2>1
<1>2. ASSUME NEW m \in Nat, m \in T PROVE m + 1 \in T
  <2>1. PICK h : PowersUp(h, m)
    BY <1>2
  <2> DEFINE power == [n \in 0..(m + 1) |-> IF n = m + 1 THEN 2 * h[m] ELSE h[n]]
  <2>2. ASSUME NEW n \in 0..(m + 1)
        PROVE  power[n] = IF n = 0 THEN 1 ELSE 2 * power[n - 1]
    <3>1. CASE n = m + 1
      <4>1. n # 0 /\ n - 1 = m /\ m \in 0..(m + 1) /\ m # m + 1
        BY <3>1
      <4>2. power[n - 1] = h[m] /\ power[n] = 2 * h[m]
        BY <3>1, <4>1
      <4> HIDE DEF power
      <4> QED  BY <4>1, <4>2
    <3>2. CASE n # m + 1
      <4>1. n \in 0..m
        BY <3>2
      <4>2. h[n] = IF n = 0 THEN 1 ELSE 2 * h[n - 1]
        <5> HIDE DEF power
        <5> QED  BY <2>1, <4>1 DEF PowersUp
      <4>3. power[n] = h[n] /\ (n # 0 => power[n - 1] = h[n - 1])
        BY <4>1, <3>2
      <4> HIDE DEF power
      <4> QED  BY <4>2, <4>3
    <3> QED  BY <3>1, <3>2
  <2>3. power = [n \in 0..(m + 1) |-> power[n]]
    OBVIOUS
  <2> HIDE DEF power
  <2>4. PowersUp(power, m + 1)
    BY <2>2, <2>3 DEF PowersUp
  <2> QED  BY <2>4
<1> HIDE DEF T
<1>3. \A m \in Nat : m \in T
  BY <1>1, <1>2, Induct
<1> QED  BY <1>3 DEF T

LEMMA PowersAgree ==
  ASSUME NEW m \in Nat, NEW p, NEW k \in Nat, NEW q, PowersAre(p, m), PowersAre(q, k)
  PROVE  \A n \in Nat : n <= m /\ n <= k => p[n] = q[n]
<1> DEFINE T == {n \in Nat : n <= m /\ n <= k => p[n] = q[n]}
<1>1. 0 \in T
  BY DEF PowersAre
<1>2. ASSUME NEW n \in Nat, n \in T PROVE n + 1 \in T
  <2>1. CASE n + 1 <= m /\ n + 1 <= k
    <3>1. n \in 0..m /\ n \in 0..k /\ p[n] = q[n]
      BY <1>2, <2>1
    <3>2. p[n + 1] = 2 * p[n] /\ q[n + 1] = 2 * q[n]
      BY <2>1, <3>1 DEF PowersAre
    <3> QED  BY <3>1, <3>2
  <2> QED  BY <2>1
<1> HIDE DEF T
<1>3. \A n \in Nat : n \in T
  BY <1>1, <1>2, Induct
<1> QED  BY <1>3 DEF T

(* So Power is what its definition says.                                   *)
LEMMA PowerIs ==
  /\ Rt!Power[0] = 1
  /\ \A n \in Nat : Rt!Power[n + 1] = 2 * Rt!Power[n]
  /\ \A n \in Nat : Rt!Power[n] \in Nat /\ Rt!Power[n] >= n + 1
<1> DEFINE F(n) == CHOOSE power : PowersUp(power, n)
           P == [n \in Nat |-> F(n)[n]]
<1>1. ASSUME NEW n \in Nat PROVE PowersAre(F(n), n)
  <2>1. PowersUp(F(n), n)
    BY PowersExist
  <2> QED  BY <2>1, PowersUpAre
<1>2. P[0] = 1
  BY <1>1 DEF PowersAre
<1>3. ASSUME NEW n \in Nat PROVE P[n + 1] = 2 * P[n]
  <2> HIDE DEF F
  <2>1. F(n + 1)[n] = F(n)[n]
    <3>1. PowersAre(F(n + 1), n + 1) /\ PowersAre(F(n), n) /\ n + 1 \in Nat /\ n <= n + 1
      BY <1>1
    <3> QED  BY <3>1, PowersAgree
  <2>2. F(n + 1)[n + 1] = 2 * F(n + 1)[n]
    <3>1. PowersAre(F(n + 1), n + 1) /\ n \in 0..(n + 1)
      BY <1>1
    <3> QED  BY <3>1 DEF PowersAre
  <2>3. P[n + 1] = F(n + 1)[n + 1] /\ P[n] = F(n)[n]
    OBVIOUS
  <2> QED  BY <2>1, <2>2, <2>3
<1>4. \A n \in Nat : P[n] = IF n = 0 THEN 1 ELSE 2 * P[n - 1]
  <2> SUFFICES ASSUME NEW n \in Nat PROVE P[n] = IF n = 0 THEN 1 ELSE 2 * P[n - 1]
    OBVIOUS
  <2> HIDE DEF P
  <2>1. CASE n # 0
    <3>1. n - 1 \in Nat /\ (n - 1) + 1 = n
      BY <2>1
    <3> QED  BY <1>3, <2>1, <3>1
  <2> QED  BY <1>2, <2>1
<1>5. P = [n \in Nat |-> IF n = 0 THEN 1 ELSE 2 * P[n - 1]]
  <2>1. P = [n \in Nat |-> P[n]]
    OBVIOUS
  <2> HIDE DEF P
  <2> QED  BY <1>4, <2>1
<1>6. Rt!Power = [n \in Nat |-> IF n = 0 THEN 1 ELSE 2 * Rt!Power[n - 1]]
  <2> HIDE DEF P
  <2> QED  BY <1>5 DEF Rt!Power, Rt!Multiplier
<1>7. Rt!Power[0] = 1
  BY <1>6
<1>8. ASSUME NEW n \in Nat PROVE Rt!Power[n + 1] = 2 * Rt!Power[n]
  <2>1. n + 1 \in Nat /\ n + 1 # 0 /\ (n + 1) - 1 = n
    OBVIOUS
  <2> QED  BY <1>6, <2>1
<1> DEFINE T == {n \in Nat : Rt!Power[n] \in Nat /\ Rt!Power[n] >= n + 1}
<1>9. 0 \in T
  BY <1>7
<1>10. ASSUME NEW n \in Nat, n \in T PROVE n + 1 \in T
  BY <1>8, <1>10
<1>11. \A n \in Nat : n \in T
  <2> HIDE DEF T
  <2> QED  BY <1>9, <1>10, Induct
<1> QED  BY <1>7, <1>8, <1>11

Capped(x) == IF x > max THEN max ELSE x

RetryTypeOK ==
  /\ initial \in InitialDelays /\ max \in MaxDelays /\ jitter \in BOOLEAN
  /\ attempt \in 0..MaxAttempts /\ delay \in Int
  /\ outcomes \in Seq({"ok", "retry", "final"}) /\ Len(outcomes) = attempt
  /\ waits \in Seq(Int) /\ Len(waits) <= attempt
  /\ retryResult \in {"running", "nil", "error", "cancelled"}

(* While the loop runs its calls have all failed and it may call again.    *)
GoesOn ==
  /\ retryResult = "running" =>
       attempt < MaxAttempts /\ \A i \in 1..Len(outcomes) : outcomes[i] = "retry"
  /\ \A i \in 1..Len(outcomes) - 1 : outcomes[i] = "retry"
  /\ retryResult = "nil" <=> outcomes # <<>> /\ outcomes[Len(outcomes)] = "ok"

(* The delay is the uncapped one that belongs to the wait, capped.         *)
DelayFits ==
  Rt!LoopFits =>
    /\ delay > 0 /\ (Len(waits) = 0 => delay = initial)
    /\ Len(waits) > 0 => delay <= max
    /\ Len(waits) > 0 /\ Rt!BackoffFits(Len(waits)) => delay = Capped(initial * Rt!Power[Len(waits)])

WaitsFit ==
  Rt!LoopFits => \A i \in 2..Len(waits) :
    /\ 0 < waits[i] /\ waits[i] <= 2 * max
    /\ Rt!BackoffFits(i - 1) => /\ Capped(initial * Rt!Power[i - 1]) <= waits[i]
                                /\ waits[i] <= 2 * Capped(initial * Rt!Power[i - 1])

RetryInv == RetryTypeOK /\ GoesOn /\ DelayFits /\ WaitsFit

LEMMA ConfigIs == ASSUME RetryTypeOK PROVE
  /\ initial \in Nat /\ initial >= 1 /\ initial <= Largest
  /\ max \in Nat /\ max >= 1 /\ max <= Largest
  /\ Largest \in Nat /\ Largest >= 1 /\ MaxAttempts \in Nat /\ MaxAttempts >= 1
BY RetryFits DEF RetryTypeOK, Rt!RetryAssumption

LEMMA InitRetry == Rt!Init => RetryInv
<1> SUFFICES ASSUME Rt!Init PROVE RetryInv
  OBVIOUS
<1>1. RetryTypeOK
  BY RetryFits DEF Rt!Init, RetryTypeOK, Rt!RetryAssumption
<1>2. Len(waits) = 0 /\ Len(outcomes) = 0 /\ delay = initial /\ outcomes = <<>> /\ attempt = 0
      /\ retryResult = "running"
  BY DEF Rt!Init
<1>3. initial > 0 /\ 0 < MaxAttempts
  BY <1>1, ConfigIs
<1> QED  BY <1>1, <1>2, <1>3 DEF RetryInv, GoesOn, DelayFits, WaitsFit

LEMMA AttemptInv ==
  ASSUME RetryInv, NEW o \in {"ok", "retry", "final"}, Rt!Attempt(o)
  PROVE  RetryInv'
<1>1. /\ RetryTypeOK /\ GoesOn /\ retryResult = "running" /\ Len(waits) = attempt
      /\ attempt' = attempt + 1 /\ outcomes' = Append(outcomes, o)
      /\ UNCHANGED <<initial, max, jitter, delay, waits>>
      /\ retryResult' = IF ~Rt!Stops(o) THEN "running" ELSE IF o = "ok" THEN "nil" ELSE "error"
  BY DEF RetryInv, Rt!Attempt, Rt!Ready, Rt!config
<1>2. /\ attempt \in Nat /\ attempt < MaxAttempts /\ MaxAttempts \in Nat
      /\ outcomes \in Seq({"ok", "retry", "final"}) /\ Len(outcomes) = attempt
      /\ \A i \in 1..attempt : outcomes[i] = "retry"
  BY <1>1, ConfigIs DEF RetryTypeOK, GoesOn
<1>3. /\ outcomes' \in Seq({"ok", "retry", "final"}) /\ Len(outcomes') = attempt + 1
      /\ outcomes'[attempt + 1] = o /\ \A i \in 1..attempt : outcomes'[i] = "retry"
      /\ outcomes' # <<>>
  BY <1>1, <1>2
<1>4. RetryTypeOK'
  BY <1>1, <1>2, <1>3 DEF RetryTypeOK
<1>5. retryResult' = "running" <=> o = "retry" /\ attempt + 1 # MaxAttempts
  BY <1>1 DEF Rt!Stops
<1>6. retryResult' = "nil" <=> o = "ok"
  BY <1>1 DEF Rt!Stops
<1>7. GoesOn'
  <2>1. \A i \in 1..(attempt + 1) : i \in 1..attempt \/ i = attempt + 1
    BY <1>2
  <2>2. \A i \in 1..((attempt + 1) - 1) : i \in 1..attempt
    BY <1>2
  <2>3. (retryResult' = "running") =>
           attempt' < MaxAttempts /\ \A i \in 1..Len(outcomes') : outcomes'[i] = "retry"
    BY <1>1, <1>2, <1>3, <1>5, <2>1
  <2> QED  BY <1>3, <1>6, <2>2, <2>3 DEF GoesOn
<1>8. (DelayFits /\ WaitsFit)'
  BY <1>1 DEF RetryInv, DelayFits, WaitsFit, Rt!LoopFits, Rt!BackoffFits, Capped
<1> QED  BY <1>4, <1>7, <1>8 DEF RetryInv

LEMMA FloatFits == \A x \in Int : Rt!FromFloat(x) \in Int /\ (x >= 0 /\ x <= Largest => Rt!FromFloat(x) = x)
BY RetryFits DEF Rt!FromFloat, Rt!RetryAssumption

LEMMA WrapFits == \A x \in Int : Rt!Wrapped(x) \in Int /\ (x >= 0 /\ x <= Largest => Rt!Wrapped(x) = x)
<1>1. Largest \in Nat /\ Largest >= 1
  BY RetryFits DEF Rt!RetryAssumption
<1>2. \A y \in Nat : y < 2 * (Largest + 1) => y % (2 * (Largest + 1)) = y
  BY <1>1
<1>3. \A y \in Int : y % (2 * (Largest + 1)) \in Int
  BY <1>1
<1> SUFFICES ASSUME NEW x \in Int
             PROVE  Rt!Wrapped(x) \in Int /\ (x >= 0 /\ x <= Largest => Rt!Wrapped(x) = x)
  OBVIOUS
<1> DEFINE y == x + Largest + 1
<1>4. y \in Int /\ y % (2 * (Largest + 1)) \in Int
  BY <1>1, <1>3
<1>5. Rt!Wrapped(x) \in Int
  BY <1>1, <1>4 DEF Rt!Wrapped
<1>6. ASSUME x >= 0, x <= Largest PROVE Rt!Wrapped(x) = x
  <2>1. y \in Nat /\ y < 2 * (Largest + 1) /\ (y - Largest) - 1 = x
    BY <1>1, <1>6
  <2> QED  BY <1>2, <2>1 DEF Rt!Wrapped
<1> QED  BY <1>5, <1>6

LEMMA JitterFits ==
  ASSUME NEW d \in Int
  PROVE  /\ \A w \in Rt!Jittered(d) : w \in Int
         /\ d > 0 /\ 2 * d <= Largest => \A w \in Rt!Jittered(d) : d <= w /\ w <= 2 * d
<1>1. CASE ~jitter
  <2>1. \A w \in Rt!Jittered(d) : w = d
    BY <1>1 DEF Rt!Jittered
  <2> QED  BY <2>1
<1>2. CASE jitter
  <2> SUFFICES ASSUME NEW w \in Rt!Jittered(d)
               PROVE  w \in Int /\ (d > 0 /\ 2 * d <= Largest => d <= w /\ w <= 2 * d)
    OBVIOUS
  <2>1. PICK v \in (d..(2 * d)) \cup ((2 * d)..d) : w = Rt!Wrapped(v)
    BY <1>2 DEF Rt!Jittered
  <2>2. v \in Int /\ (d > 0 => d <= v /\ v <= 2 * d)
    BY <2>1
  <2>3. w \in Int /\ (v >= 0 /\ v <= Largest => w = v)
    BY <2>1, <2>2, WrapFits
  <2>4. Largest \in Nat
    BY RetryFits DEF Rt!RetryAssumption
  <2> QED  BY <2>2, <2>3, <2>4
<1> QED  BY <1>1, <1>2

(* What the uncapped delay is a wait later.                                *)
LEMMA Doubles ==
  ASSUME NEW i \in Nat, NEW k \in Nat
  PROVE  /\ i * Rt!Power[k] \in Nat /\ i * Rt!Power[k + 1] = 2 * (i * Rt!Power[k])
         /\ i * (k + 1) <= i * Rt!Power[k] /\ i * Rt!Power[0] = i
<1>1. Rt!Power[k] \in Nat /\ Rt!Power[k] >= k + 1 /\ Rt!Power[k + 1] = 2 * Rt!Power[k] /\ Rt!Power[0] = 1
  BY PowerIs
<1>2. \A p \in Nat : i * p \in Nat /\ i * (2 * p) = 2 * (i * p)
  OBVIOUS
<1>3. ASSUME NEW p \in Nat, p >= k + 1 PROVE i * (k + 1) <= i * p
  <2>1. p - (k + 1) \in Nat /\ (p - (k + 1)) * i \in Nat
    BY <1>3
  <2>2. ((k + 1) + (p - (k + 1))) * i = (k + 1) * i + (p - (k + 1)) * i
    BY <2>1, Distribute
  <2>3. (k + 1) + (p - (k + 1)) = p /\ i * p = p * i /\ i * (k + 1) = (k + 1) * i /\ (k + 1) * i \in Nat
    BY <1>3
  <2> QED  BY <2>1, <2>2, <2>3
<1> QED  BY <1>1, <1>2, <1>3

LEMMA WaitInv == ASSUME RetryInv, Rt!Wait PROVE RetryInv'
<1> DEFINE k == Len(waits)
<1>1. PICK w \in Rt!Jittered(delay) : waits' = Append(waits, w)
  BY DEF Rt!Wait
<1>2. /\ RetryTypeOK /\ retryResult = "running" /\ Len(waits) < attempt /\ delay' = Rt!Grown(delay)
      /\ UNCHANGED <<initial, max, jitter, attempt, outcomes, retryResult>>
  BY DEF RetryInv, Rt!Wait, Rt!config
<1>3. /\ waits \in Seq(Int) /\ k \in Nat /\ w \in Int /\ delay \in Int /\ attempt \in Nat
  BY <1>1, <1>2, JitterFits DEF RetryTypeOK
<1>4. /\ waits' \in Seq(Int) /\ Len(waits') = k + 1 /\ waits'[k + 1] = w
      /\ \A i \in 1..k : waits'[i] = waits[i]
  BY <1>1, <1>3
<1>5. delay * 2 \in Int /\ delay * 2 = 2 * delay
      /\ delay' = Capped(Rt!FromFloat(delay * 2)) /\ Rt!FromFloat(delay * 2) \in Int
  BY <1>2, <1>3, FloatFits DEF Rt!Grown, Rt!Multiplier, Capped
<1>6. RetryTypeOK'
  <2>1. delay' \in Int
    BY <1>2, <1>5, ConfigIs DEF Capped
  <2> QED  BY <1>2, <1>3, <1>4, <2>1 DEF RetryTypeOK
<1>7. GoesOn'
  BY <1>2 DEF RetryInv, GoesOn
<1>8. Rt!LoopFits' = Rt!LoopFits /\ \A n : Rt!BackoffFits(n)' = Rt!BackoffFits(n)
      /\ \A x : Capped(x)' = Capped(x)
  BY <1>2 DEF Rt!LoopFits, Rt!BackoffFits, Capped
<1>9. CASE ~Rt!LoopFits
  BY <1>6, <1>7, <1>8, <1>9 DEF RetryInv, DelayFits, WaitsFit
<1>10. CASE Rt!LoopFits
  <2>1. /\ delay > 0 /\ 2 * max <= Largest /\ 2 * initial <= Largest /\ max \in Nat /\ initial \in Nat
        /\ max >= 1 /\ initial >= 1
        /\ (k = 0 => delay = initial) /\ (k > 0 => delay <= max)
        /\ (k > 0 /\ Rt!BackoffFits(k) => delay = Capped(initial * Rt!Power[k]))
    BY <1>2, <1>10, ConfigIs DEF RetryInv, DelayFits, Rt!LoopFits
  <2>2. 2 * delay <= Largest
    <3>1. Largest \in Nat
      BY <1>2, ConfigIs
    <3> QED  BY <1>3, <2>1, <3>1
  <2>3. delay <= w /\ w <= 2 * delay
    BY <1>3, <2>1, <2>2, JitterFits
  <2>4. delay' = Capped(2 * delay)
    <3>1. delay * 2 >= 0 /\ delay * 2 <= Largest
      BY <1>3, <1>5, <2>1, <2>2
    <3> QED  BY <1>5, <3>1, FloatFits
  <2>5. delay' > 0 /\ delay' <= max
    BY <1>3, <2>1, <2>4 DEF Capped
  <2>6. ASSUME Rt!BackoffFits(k + 1) PROVE delay' = Capped(initial * Rt!Power[k + 1])
    <3> DEFINE x == initial * Rt!Power[k]
    <3>1. x \in Nat /\ initial * Rt!Power[k + 1] = 2 * x /\ 2 * x <= Largest /\ initial * Rt!Power[0] = initial
      BY <1>3, <2>1, <2>6, Doubles DEF Rt!BackoffFits
    <3>2. CASE k = 0
      BY <2>1, <2>4, <3>1, <3>2
    <3>3. CASE k > 0
      <4>1. x <= Largest
        <5> HIDE DEF x
        <5>1. Largest \in Nat
          BY <1>2, ConfigIs
        <5> QED  BY <3>1, <5>1
      <4>2. Rt!BackoffFits(k)
        BY <4>1 DEF Rt!BackoffFits
      <4>3. delay = Capped(x)
        BY <2>1, <3>3, <4>2
      <4> HIDE DEF x
      <4>4. Capped(2 * Capped(x)) = Capped(2 * x)
        BY <2>1, <3>1 DEF Capped
      <4> QED  BY <2>4, <3>1, <4>3, <4>4
    <3> HIDE DEF x
    <3> QED  BY <1>3, <3>2, <3>3
  <2>7. DelayFits'
    BY <1>3, <1>4, <1>8, <2>5, <2>6, <1>2 DEF DelayFits, Capped
  <2>8. ASSUME NEW i \in 2..(k + 1)
        PROVE  /\ 0 < waits'[i] /\ waits'[i] <= 2 * max
               /\ Rt!BackoffFits(i - 1) => /\ Capped(initial * Rt!Power[i - 1]) <= waits'[i]
                                           /\ waits'[i] <= 2 * Capped(initial * Rt!Power[i - 1])
    <3>1. CASE i = k + 1
      <4>1. i - 1 = k /\ k > 0 /\ waits'[i] = w
        BY <1>3, <1>4, <2>8, <3>1
      <4>2. 0 < w /\ w <= 2 * max
        BY <1>3, <2>1, <2>3, <4>1
      <4>3. Rt!BackoffFits(k) => Capped(initial * Rt!Power[k]) <= w /\ w <= 2 * Capped(initial * Rt!Power[k])
        BY <2>1, <2>3, <4>1
      <4> QED  BY <4>1, <4>2, <4>3
    <3>2. CASE i # k + 1
      <4>1. i \in 2..k /\ waits'[i] = waits[i]
        BY <1>3, <1>4, <2>8, <3>2
      <4> QED  BY <1>10, <4>1 DEF RetryInv, WaitsFit
    <3> QED  BY <3>1, <3>2
  <2>9. WaitsFit'
    BY <1>2, <1>4, <1>8, <2>8 DEF WaitsFit, Capped
  <2> QED  BY <1>6, <1>7, <2>7, <2>9 DEF RetryInv
<1> QED  BY <1>9, <1>10

LEMMA RetryStep == RetryInv /\ [Rt!Next]_Rt!vars => RetryInv'
<1> SUFFICES ASSUME RetryInv, [Rt!Next]_Rt!vars PROVE RetryInv'
  OBVIOUS
<1>1. CASE Rt!Cancel \/ Rt!CancelledWait \/ UNCHANGED Rt!vars
  <2>1. /\ UNCHANGED <<initial, max, jitter, attempt, outcomes, delay, waits>>
        /\ retryResult' = retryResult \/ (retryResult = "running" /\ retryResult' = "cancelled")
    BY <1>1 DEF Rt!Cancel, Rt!CancelledWait, Rt!vars, Rt!config
  <2>2. RetryTypeOK'
    BY <2>1 DEF RetryInv, RetryTypeOK
  <2>3. GoesOn'
    <3>1. GoesOn
      BY DEF RetryInv
    <3>2. CASE retryResult' = retryResult
      BY <2>1, <3>1, <3>2 DEF GoesOn
    <3>3. CASE retryResult = "running" /\ retryResult' = "cancelled"
      <4>1. ~(outcomes # <<>> /\ outcomes[Len(outcomes)] = "ok")
        BY <3>1, <3>3 DEF GoesOn
      <4> QED  BY <2>1, <3>1, <3>3, <4>1 DEF GoesOn
    <3> QED  BY <2>1, <3>2, <3>3
  <2>4. (DelayFits /\ WaitsFit)'
    BY <2>1 DEF RetryInv, DelayFits, WaitsFit, Rt!LoopFits, Rt!BackoffFits, Capped
  <2> QED  BY <2>2, <2>3, <2>4 DEF RetryInv
<1> QED  BY <1>1, AttemptInv, WaitInv DEF Rt!Next

LEMMA BackoffIs ==
  ASSUME RetryTypeOK, NEW n \in Nat
  PROVE  /\ Rt!Backoff("constant", initial, max, n) = Capped(initial)
         /\ initial * n <= Largest => Rt!Backoff("linear", initial, max, n) = Capped(initial * n)
         /\ n > 0 /\ initial * Rt!Power[n - 1] <= Largest =>
              Rt!Backoff("exponential", initial, max, n) = Capped(initial * Rt!Power[n - 1])
<1>1. initial \in Nat /\ max \in Nat /\ max > 0
  BY ConfigIs
<1>2. Rt!Backoff("constant", initial, max, n) = Capped(initial)
  BY <1>1 DEF Rt!Backoff, Capped
<1>3. ASSUME initial * n <= Largest PROVE Rt!Backoff("linear", initial, max, n) = Capped(initial * n)
  <2>1. initial * n \in Nat
    BY <1>1
  <2>2. Rt!Wrapped(initial * n) = initial * n
    BY <1>3, <2>1, WrapFits
  <2> QED  BY <1>1, <2>2 DEF Rt!Backoff, Capped
<1>4. ASSUME n > 0, initial * Rt!Power[n - 1] <= Largest
      PROVE  Rt!Backoff("exponential", initial, max, n) = Capped(initial * Rt!Power[n - 1])
  <2>1. initial * Rt!Power[n - 1] \in Nat
    <3>1. n - 1 \in Nat
      BY <1>4
    <3> QED  BY <1>1, <3>1, Doubles
  <2>2. Rt!FromFloat(initial * Rt!Power[n - 1]) = initial * Rt!Power[n - 1]
    BY <1>4, <2>1, FloatFits
  <2> QED  BY <1>1, <2>2 DEF Rt!Backoff, Capped
<1> QED  BY <1>2, <1>3, <1>4

(* As long as it fits, Backoff stays within the cap and never goes back.   *)
LEMMA BackoffGrows ==
  ASSUME RetryTypeOK, NEW n \in Nat \ {0}, Rt!BackoffFits(n),
         NEW policy \in {"constant", "linear", "exponential"}
  PROVE  /\ Rt!Backoff(policy, initial, max, n) <= max
         /\ Rt!Backoff(policy, initial, max, n) <= Rt!Backoff(policy, initial, max, n + 1)
<1>1. initial \in Nat /\ max \in Nat /\ Largest \in Nat /\ n \in Nat /\ n - 1 \in Nat /\ (n - 1) + 1 = n
      /\ n + 1 \in Nat /\ (n + 1) - 1 = n /\ n > 0 /\ n + 1 > 0
  BY ConfigIs
<1>2. \A x, y \in Nat : x <= y => Capped(x) <= max /\ Capped(x) <= Capped(y)
  BY <1>1 DEF Capped
<1>3. initial * Rt!Power[n] <= Largest /\ initial * Rt!Power[n] \in Nat
      /\ initial * (n + 1) <= initial * Rt!Power[n]
  BY <1>1, Doubles DEF Rt!BackoffFits
<1>4. initial * Rt!Power[n - 1] \in Nat /\ initial * Rt!Power[n] = 2 * (initial * Rt!Power[n - 1])
  <2>1. initial * Rt!Power[(n - 1) + 1] = 2 * (initial * Rt!Power[n - 1])
    BY <1>1, Doubles
  <2> QED  BY <1>1, <2>1, Doubles
<1>5. CASE policy = "constant"
  <2>1. Rt!Backoff(policy, initial, max, n) = Capped(initial) /\ Rt!Backoff(policy, initial, max, n + 1) = Capped(initial)
    BY <1>1, <1>5, BackoffIs
  <2> QED  BY <1>1, <1>2, <2>1
<1>6. CASE policy = "linear"
  <2>1. initial * n \in Nat /\ initial * (n + 1) \in Nat /\ initial * n <= initial * (n + 1)
    <3>1. (n + 1) * initial = n * initial + 1 * initial
      BY <1>1, Distribute
    <3>2. (n + 1) * initial = initial * (n + 1) /\ n * initial = initial * n /\ 1 * initial = initial
          /\ initial * n \in Nat /\ initial * (n + 1) \in Nat
      BY <1>1
    <3> QED  BY <1>1, <3>1, <3>2
  <2>2. initial * (n + 1) <= Largest /\ initial * n <= Largest
    BY <1>1, <1>3, <2>1
  <2>3. Rt!Backoff(policy, initial, max, n) = Capped(initial * n)
        /\ Rt!Backoff(policy, initial, max, n + 1) = Capped(initial * (n + 1))
    BY <1>1, <1>6, <2>2, BackoffIs
  <2> QED  BY <1>2, <2>1, <2>3
<1>7. CASE policy = "exponential"
  <2>1. initial * Rt!Power[n - 1] <= Largest /\ initial * Rt!Power[n - 1] <= initial * Rt!Power[n]
    BY <1>1, <1>3, <1>4
  <2>2. Rt!Backoff(policy, initial, max, n) = Capped(initial * Rt!Power[n - 1])
    BY <1>1, <1>7, <2>1, BackoffIs
  <2>3. Rt!Backoff(policy, initial, max, n + 1) = Capped(initial * Rt!Power[n])
    <3>1. initial * Rt!Power[(n + 1) - 1] <= Largest
      BY <1>1, <1>3
    <3>2. Rt!Backoff("exponential", initial, max, n + 1) = Capped(initial * Rt!Power[(n + 1) - 1])
      BY <1>1, <3>1, BackoffIs
    <3> QED  BY <1>1, <1>7, <3>2
  <2> QED  BY <1>2, <1>3, <1>4, <2>1, <2>2, <2>3
<1> QED  BY <1>5, <1>6, <1>7

(* The loop's delays and those of Backoff, for any delays, number of       *)
(* attempts and width (DoWithResult, resilience/retry.go:78-153, and       *)
(* Backoff, 193-214).                                                      *)
THEOREM RetryWaitsAsPromised == Rt!Spec => []LoopFollowsBackoff
<1>1. ASSUME RetryInv PROVE LoopFollowsBackoff
  <2>1. RetryTypeOK /\ GoesOn
    BY <1>1 DEF RetryInv
  <2>2. Len(waits) <= attempt /\ attempt <= MaxAttempts /\ Len(waits) \in Nat /\ MaxAttempts \in Nat
    BY <2>1, ConfigIs DEF RetryTypeOK
  <2>3. ASSUME Rt!LoopFits, NEW i \in 2..Len(waits)
        PROVE  /\ 0 < waits[i] /\ waits[i] <= 2 * max
               /\ Rt!BackoffFits(i - 1) =>
                    /\ Rt!Backoff("exponential", initial, max, i) <= waits[i]
                    /\ waits[i] <= 2 * Rt!Backoff("exponential", initial, max, i)
    <3>1. i \in Nat /\ i > 0
      OBVIOUS
    <3>2. Rt!BackoffFits(i - 1) =>
            Rt!Backoff("exponential", initial, max, i) = Capped(initial * Rt!Power[i - 1])
      BY <2>1, <3>1, BackoffIs DEF Rt!BackoffFits
    <3> QED  BY <1>1, <2>3, <3>2 DEF RetryInv, WaitsFit
  <2>4. ASSUME NEW policy \in {"constant", "linear", "exponential"}, NEW n \in 1..MaxAttempts,
               Rt!BackoffFits(n)
        PROVE  /\ Rt!Backoff(policy, initial, max, n) <= max
               /\ Rt!Backoff(policy, initial, max, n) <= Rt!Backoff(policy, initial, max, n + 1)
    <3>1. n \in Nat \ {0}
      BY <2>2
    <3> QED  BY <2>1, <2>4, <3>1, BackoffGrows
  <2> QED  BY <2>1, <2>2, <2>3, <2>4 DEF LoopFollowsBackoff, Rt!LoopFollowsBackoff, GoesOn
<1>2. RetryInv => LoopFollowsBackoff
  BY <1>1
<1> QED  BY <1>2, InitRetry, RetryStep, PTL DEF Rt!Spec
=============================================================================
