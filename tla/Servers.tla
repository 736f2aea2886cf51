------------------------------- MODULE Servers -------------------------------
(***************************************************************************)
(* The life of a server: grpc/server.go and http/server.go, which differ   *)
(* in how Stop ends, and GrpcServer of grpc_server.go, which registers the *)
(* service in etcd after it has started a server and takes the             *)
(* registration back before it stops it.                                   *)
(*                                                                         *)
(* Start serves in the caller's goroutine and StartAsync in one of its     *)
(* own; mu is released between the steps of Start and of Stop, so that     *)
(* those of two callers interleave.  What is served is left out.           *)
(***************************************************************************)
EXTENDS Naturals, FiniteSets

CONSTANTS
  Callers,      \* goroutines that start and stop a server
  MaxSockets,   \* bound on the sockets ever bound
  None

Sockets == 1 .. MaxSockets

VARIABLES
  kind,        \* "http", "grpc", or "GrpcServer" around a server of package grpc
  listener, running, stopped,   \* the fields of Server
  inner,       \* whether grpc.Server or fiber's app has been shut down
  fresh,       \* the sockets that have not been bound yet
  bound,       \* the sockets bound and not closed
  serving,     \* of each socket: "no", "spawned", "accepting", "ending" or "over"
  pc, task,    \* what each caller does, of which call
  taken,       \* the listener it has read
  registrar,   \* GrpcServer.registrar: "none", "created", "registered"
  failed,      \* history: Serve has ended by itself, or Stop with an error
  nilServe,    \* history: Serve was called without a listener, which panics
  raced        \* history: a socket was bound between the last two steps of Stop,
               \* or before the Serve of an older one had cleared the fields

srvVars == <<listener, running, stopped, inner, fresh, bound, serving>>
history == <<failed, nilServe, raced>>
vars == <<kind, srvVars, pc, task, taken, registrar, history>>

Init ==
  /\ kind \in {"http", "grpc", "GrpcServer"}
  /\ listener = None /\ running = FALSE /\ stopped = FALSE /\ inner = "up"
  /\ fresh = Sockets /\ bound = {} /\ serving = [s \in Sockets |-> "no"]
  /\ pc = [c \in Callers |-> "idle"] /\ task = [c \in Callers |-> "none"]
  /\ taken = [c \in Callers |-> None]
  /\ registrar = "none"
  /\ failed = FALSE /\ nilServe = FALSE /\ raced = FALSE

Goto(c, place) == pc' = [pc EXCEPT ![c] = place]
Enter(c, t, place) == Goto(c, place) /\ task' = [task EXCEPT ![c] = t]

(* A GrpcServer has no lock of its own: the framework calls it from one    *)
(* goroutine at a time.                                                    *)
MayCall(c) == pc[c] = "idle" /\ (kind = "GrpcServer" => \A d \in Callers : pc[d] = "idle")

-----------------------------------------------------------------------------
(* Start, StartAsync and Listen; a stopped server stays stopped.           *)
CallStart(c) ==
  /\ MayCall(c) /\ ~stopped
  /\ \E t \in IF kind = "GrpcServer" THEN {"async"} ELSE {"sync", "async", "listen"} :
       Enter(c, t, "listen")
  /\ UNCHANGED <<kind, srvVars, taken, registrar, history>>

(* Listen, under mu.  The address may be in use.                           *)
Listen(c) ==
  /\ pc[c] = "listen"
  /\ \/ /\ ~stopped /\ ~running
        /\ Goto(c, IF task[c] = "listen" THEN "idle" ELSE "mark")
        /\ IF listener # None THEN UNCHANGED <<listener, fresh, bound, raced>>
           ELSE \E s \in fresh :
                  /\ listener' = s /\ bound' = bound \cup {s} /\ fresh' = fresh \ {s}
                  /\ raced' = (raced \/ \E d \in Callers : pc[d] = "stopped")
     \/ /\ stopped \/ running \/ listener = None
        /\ Goto(c, "idle")
        /\ UNCHANGED <<listener, fresh, bound, raced>>
  /\ UNCHANGED <<kind, running, stopped, inner, serving, task, taken, registrar,
                 failed, nilServe>>

(* markRunning.  Mutant: without its checks.                               *)
Markable == ~stopped /\ ~running /\ listener # None

Mark(c) ==
  /\ pc[c] = "mark"
  /\ IF Markable THEN running' = TRUE /\ Goto(c, "take")
                 ELSE UNCHANGED running /\ Goto(c, "idle")
  /\ UNCHANGED <<kind, listener, stopped, inner, fresh, bound, serving, task, taken,
                 registrar, history>>

(* getListener, and Serve in this goroutine or in another.                 *)
Take(c) ==
  /\ pc[c] = "take"
  /\ IF listener = None THEN nilServe' = TRUE /\ UNCHANGED serving
     ELSE serving' = [serving EXCEPT ![listener] = "spawned"] /\ UNCHANGED nilServe
  /\ taken' = [taken EXCEPT ![c] = listener]
  /\ Goto(c, IF listener # None /\ kind = "GrpcServer" THEN "register"
             ELSE IF listener # None /\ task[c] = "sync" THEN "serve" ELSE "idle")
  /\ UNCHANGED <<kind, listener, running, stopped, inner, fresh, bound, task, registrar,
                 failed, raced>>

(* Serve returns at once when the server has been shut down, and closes    *)
(* its socket when it returns; an error of Accept ends it too.             *)
Serve(s) ==
  /\ serving[s] = "spawned" /\ inner = "up" /\ s \in bound
  /\ serving' = [serving EXCEPT ![s] = "accepting"]
  /\ UNCHANGED <<kind, listener, running, stopped, inner, fresh, bound, pc, task, taken,
                 registrar, history>>

ServeReturns(s, bad) ==
  /\ \/ ~bad /\ serving[s] \in {"spawned", "accepting"} /\ (inner = "down" \/ s \notin bound)
     \/ bad /\ serving[s] = "accepting"
  /\ serving' = [serving EXCEPT ![s] = "ending"]
  /\ bound' = bound \ {s}
  /\ failed' = (failed \/ (bad /\ inner = "up"))
  /\ UNCHANGED <<kind, listener, running, stopped, inner, fresh, pc, task, taken,
                 registrar, nilServe, raced>>

(* After Serve: clearRuntimeState.                                         *)
Clear(s) ==
  /\ serving[s] = "ending"
  /\ serving' = [serving EXCEPT ![s] = "over"]
  /\ running' = FALSE /\ listener' = None
  /\ raced' = (raced \/ listener \notin {s, None})
  /\ UNCHANGED <<kind, stopped, inner, fresh, bound, pc, task, taken, registrar, failed, nilServe>>

StartReturns(c) ==
  /\ pc[c] = "serve" /\ serving[taken[c]] = "over"
  /\ Goto(c, "idle")
  /\ UNCHANGED <<kind, srvVars, task, taken, registrar, history>>

-----------------------------------------------------------------------------
(* GrpcServer.Start goes on to register the service, unless there is no    *)
(* etcd or its timeout does not parse; it rolls back when that fails.      *)
Standalone(c) ==
  /\ pc[c] = "register" /\ registrar = "none"
  /\ Goto(c, "idle")
  /\ UNCHANGED <<kind, srvVars, task, taken, registrar, history>>

(* The new registrar takes the place of one that a Start before has left,  *)
(* when a Serve had ended by itself; the rollback closes that one.         *)
CreateRegistrar(c) ==
  /\ pc[c] = "register"
  /\ \/ registrar' = "created" /\ Goto(c, "announce") /\ UNCHANGED task
     \/ registrar' = "none" /\ Enter(c, "stop", "stop")
  /\ UNCHANGED <<kind, srvVars, taken, history>>

RegisterService(c) ==
  /\ pc[c] = "announce"
  /\ \/ registrar' = "registered" /\ Goto(c, "idle") /\ UNCHANGED task
     \/ registrar' = "none" /\ Enter(c, "stop", "stop")
  /\ UNCHANGED <<kind, srvVars, taken, history>>

(* Stop of a GrpcServer: Deregister and Close of the registrar, which may  *)
(* fail, but it is let go of.  Mutant: the server is stopped first.        *)
LetGoLater(c) == UNCHANGED registrar
LetGo(c) == registrar' = "none"

CallStop(c) ==
  /\ MayCall(c)
  /\ LetGo(c)
  /\ IF stopped THEN UNCHANGED <<pc, task>> ELSE Enter(c, "stop", "stop")
  /\ UNCHANGED <<kind, srvVars, taken, history>>

(* GracefulStop, or Stop after 10 s or at the end of the context, and      *)
(* app.Shutdown: the sockets that are served are closed, and Serve returns.*)
Shutdown(c) ==
  /\ pc[c] = "stop"
  /\ inner' = "down"
  /\ bound' = bound \ {s \in Sockets : serving[s] = "accepting"}
  /\ Goto(c, "close")
  /\ UNCHANGED <<kind, listener, running, stopped, fresh, serving, task, taken, registrar,
                 history>>

(* closeListener.  Mutant: the socket is left to Serve.                    *)
ClosedNone == bound
Closed == bound \ {listener}

(* An error of the gRPC listener ends Stop here, the HTTP server goes on.  *)
CloseListener(c) ==
  /\ pc[c] = "close"
  /\ running' = FALSE /\ listener' = None
  /\ bound' = Closed
  /\ \/ Goto(c, "stopped") /\ UNCHANGED failed
     \/ kind # "http" /\ listener # None /\ Goto(c, "idle") /\ failed' = TRUE
  /\ UNCHANGED <<kind, stopped, inner, fresh, serving, task, taken, registrar, nilServe, raced>>

(* The last section; that of the gRPC server clears the fields again.      *)
SetStopped(c) ==
  /\ pc[c] = "stopped"
  /\ stopped' = TRUE
  /\ IF kind = "http" THEN UNCHANGED <<running, listener>>
                      ELSE running' = FALSE /\ listener' = None
  /\ Goto(c, "idle")
  /\ UNCHANGED <<kind, inner, fresh, bound, serving, task, taken, registrar, history>>

Step(c) ==
  \/ Listen(c) \/ Mark(c) \/ Take(c) \/ StartReturns(c)
  \/ Standalone(c) \/ CreateRegistrar(c) \/ RegisterService(c)
  \/ Shutdown(c) \/ CloseListener(c) \/ SetStopped(c)

Next ==
  \/ \E c \in Callers : CallStart(c) \/ CallStop(c) \/ Step(c)
  \/ \E s \in Sockets : Serve(s) \/ Clear(s) \/ \E bad \in BOOLEAN : ServeReturns(s, bad)

Spec == Init /\ [][Next]_vars

-----------------------------------------------------------------------------
(* Once Stop has returned the port is free, whatever Start, Listen, Serve  *)
(* and another Stop did meanwhile, unless a Listen came between the two    *)
(* last steps of Stop, or before a late Serve cleared the fields: nobody   *)
(* closes its socket then.                                                 *)
StoppedFreesPort == (stopped /\ ~raced) => bound = {}

(* However many callers start it, one of them serves: until the server is  *)
(* shut down nobody is about to serve a socket that another serves or is   *)
(* about to serve.                                                         *)
OneServes ==
  \A c \in Callers : (pc[c] = "take" /\ inner = "up") =>
    /\ \A d \in Callers \ {c} : pc[d] # "take"
    /\ serving[listener] = "no"

(* Starts and stops that overlap leave the sockets in order: each has one  *)
(* that serves it, and none outlives the server.  (Listen, markRunning,    *)
(* getListener, closeListener and clear of grpc/server.go and              *)
(* http/server.go.)                                                        *)
SocketsAreSettled == StoppedFreesPort /\ OneServes

(* The service is registered only while its server accepts calls or is     *)
(* about to, unless a Serve has ended by itself, which nobody tells etcd,  *)
(* or a Stop with an error, after which Start appears to succeed.          *)
RegisteredIsServed ==
  registrar = "registered" =>
    \/ failed
    \/ \E s \in Sockets : serving[s] \in {"spawned", "accepting"} /\ s \in bound
=============================================================================
