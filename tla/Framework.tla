------------------------------- MODULE Framework -------------------------------
(***************************************************************************)
(* The lifecycle of framework.go: Init, Start and Stop over the built-in   *)
(* subsystems and the registered custom components, with the failures of   *)
(* every one of them, the rollbacks, and RegisterComponent.                *)
(*                                                                         *)
(* lifecycleMu admits one of Init, Start and Stop at a time; `op' is the   *)
(* one that holds it.  f.mu is held only around accesses to the fields, so *)
(* an operation takes one step per subsystem or component it calls, and    *)
(* RegisterComponent, which takes f.mu alone, comes between any two steps. *)
(* The lists that Start and Stop copy from f under f.mu need no variables  *)
(* of their own: nothing but the holder of lifecycleMu changes them.       *)
(***************************************************************************)
EXTENDS Naturals, FiniteSets, SequencesExt

CONSTANTS
  Components,   \* names of the custom components a program may register
  Enabled,      \* those whose IsEnabled returns true
  Configured    \* built-in subsystems configured through an Option

(* The order in which Init brings the built-in subsystems up, and the one  *)
(* in which stop takes them down; metrics has nothing to stop.             *)
InitOrder == << "tracing", "logger", "metrics", "grpcServer", "grpcClientMgr",
                "httpServer", "gorm", "mongodb", "redis" >>
StopOrder == << "httpServer", "grpcServer", "grpcClientMgr",
                "redis", "mongodb", "gorm", "tracing", "logger" >>
StartOrder == << "grpcServer", "httpServer" >>

Builtins == Range(InitOrder)

(* What the constants must satisfy.                                        *)
LifecycleAssumption ==
  /\ Enabled \subseteq Components
  /\ Configured \subseteq Builtins
  /\ Components \cap Builtins = {}

VARIABLES
  initializing, initialized, started, stopped, stopping,  \* the flags of f
  handles,         \* built-ins whose field in f is set
  componentOrder,  \* registered components, in order
  initializedComponentOrder,
  op,              \* the operation that holds lifecycleMu, or "idle"
  todo,            \* the units the operation has still to call
  failed,          \* units whose Stop failed in this pass of stop
  up,              \* history: units brought up and not taken down since
  running          \* history: units started and not taken down since

flags == <<initializing, initialized, started, stopped, stopping>>
vars == <<flags, handles, componentOrder, initializedComponentOrder,
          op, todo, failed, up, running>>

Init ==
  /\ initializing = FALSE /\ initialized = FALSE /\ started = FALSE
  /\ stopped = FALSE /\ stopping = FALSE
  /\ handles = {} /\ componentOrder = <<>> /\ initializedComponentOrder = <<>>
  /\ op = "idle" /\ todo = <<>> /\ failed = {} /\ up = {} /\ running = {}

(* The elements of seq that are in the set, in the order of seq.           *)
Among(seq, set) ==
  LET upTo[n \in 0..Len(seq)] ==
        IF n = 0 THEN <<>>
        ELSE IF seq[n] \in set THEN Append(upTo[n - 1], seq[n])
        ELSE upTo[n - 1]
  IN  upTo[Len(seq)]

-----------------------------------------------------------------------------
(* No component joins a framework that has anything up, nor one whose Init *)
(* or Stop is under way.                                                   *)
Frozen == initializing \/ initialized \/ started \/ stopping

(* RegisterComponent: under f.mu only, so at any moment.                   *)
RegisterComponent(c) ==
  /\ c \notin Range(componentOrder)
  /\ ~Frozen
  /\ componentOrder' = Append(componentOrder, c)
  /\ UNCHANGED <<flags, handles, initializedComponentOrder, op, todo, failed,
                 up, running>>

-----------------------------------------------------------------------------
(* stop: the pass shared by Stop and by the rollbacks of Init and Start.   *)

StopGuard == ~stopped /\ (initializing \/ initialized \/ started)

(* Mutant: components stopped in the order of their initialization.        *)
StopListForward == initializedComponentOrder \o Among(StopOrder, handles)
StopList == Reverse(initializedComponentOrder) \o Among(StopOrder, handles)

EnterStop ==
  /\ StopGuard
  /\ todo' = StopList
  /\ failed' = {}
  /\ stopping' = TRUE
  /\ op' = "stop"

Stop ==
  /\ op = "idle"
  /\ EnterStop
  /\ UNCHANGED <<initializing, initialized, started, stopped, handles,
                 componentOrder, initializedComponentOrder, up, running>>

StopUnit ==
  /\ op = "stop" /\ todo # <<>>
  /\ todo' = Tail(todo)
  /\ \/ /\ up' = up \ {Head(todo)}
        /\ running' = running \ {Head(todo)}
        /\ UNCHANGED failed
     \/ /\ failed' = failed \cup {Head(todo)}
        /\ UNCHANGED <<up, running>>
  /\ UNCHANGED <<flags, handles, componentOrder, initializedComponentOrder, op>>

(* What stop leaves in f: the handles and components that did not close.   *)
(* Mutants: every handle is kept; no component is.                         *)
keptHandlesAll == handles
keptHandles == IF failed = {} THEN {} ELSE handles \cap (failed \cup {"metrics"})

remainingNone == <<>>
remaining == Among(initializedComponentOrder, failed)

(* Whether another Stop is left to do.                                     *)
retry == failed # {}

(* The closing critical section of stop: what was closed is forgotten, and *)
(* after any error the rest is kept for another Stop.                      *)
StopFinish ==
  /\ op = "stop" /\ todo = <<>>
  /\ started' = FALSE /\ initializing' = FALSE
  /\ initialized' = retry
  /\ stopped' = ~retry
  /\ handles' = keptHandles
  /\ initializedComponentOrder' = remaining
  /\ op' = "unwind"
  /\ UNCHANGED <<stopping, componentOrder, todo, failed, up, running>>

(* The deferred functions of stop and Init, then the release of lifecycleMu.*)
Unwind ==
  /\ op = "unwind"
  /\ stopping' = FALSE
  /\ op' = "idle" /\ failed' = {}
  /\ UNCHANGED <<initializing, initialized, started, stopped, handles,
                 componentOrder, initializedComponentOrder, todo, up, running>>

-----------------------------------------------------------------------------
(* Init.  A logger is installed even when none is configured.              *)

BeginInit ==
  /\ op = "idle" /\ ~initialized
  /\ stopped' = FALSE /\ initializing' = TRUE
  /\ op' = "init"
  /\ todo' = Among(InitOrder, Configured \cup {"logger"})
  /\ UNCHANGED <<initialized, started, stopping, handles, componentOrder,
                 initializedComponentOrder, failed, up, running>>

InitBuiltin ==
  /\ op = "init" /\ todo # <<>>
  /\ todo' = Tail(todo)
  /\ handles' = handles \cup {Head(todo)}
  /\ up' = up \cup ({Head(todo)} \ {"metrics"})
  /\ UNCHANGED <<flags, componentOrder, initializedComponentOrder, op, failed,
                 running>>

(* componentsSnapshot, once the built-in subsystems are there.             *)
SnapshotComponents ==
  /\ op = "init" /\ todo = <<>>
  /\ todo' = Among(componentOrder, Enabled)
  /\ op' = "initComponents"
  /\ UNCHANGED <<flags, handles, componentOrder, initializedComponentOrder,
                 failed, up, running>>

InitComponent ==
  /\ op = "initComponents" /\ todo # <<>>
  /\ todo' = Tail(todo)
  /\ initializedComponentOrder' = Append(initializedComponentOrder, Head(todo))
  /\ up' = up \cup {Head(todo)}
  /\ UNCHANGED <<flags, handles, componentOrder, op, failed, running>>

(* metrics.New and the silent logger cannot fail; everything else can.     *)
InitFails ==
  /\ op \in {"init", "initComponents"} /\ todo # <<>>
  /\ Head(todo) # "metrics"
  /\ Head(todo) = "logger" => "logger" \in Configured
  /\ EnterStop
  /\ UNCHANGED <<initializing, initialized, started, stopped, handles,
                 componentOrder, initializedComponentOrder, up, running>>

InitSucceeds ==
  /\ op = "initComponents" /\ todo = <<>>
  /\ initialized' = TRUE /\ initializing' = FALSE
  /\ op' = "idle"
  /\ UNCHANGED <<started, stopped, stopping, handles, componentOrder,
                 initializedComponentOrder, todo, failed, up, running>>

-----------------------------------------------------------------------------
(* Start.                                                                  *)

StartGuard == initialized /\ ~started

StartList == Among(StartOrder, handles) \o Among(initializedComponentOrder, Enabled)

BeginStart ==
  /\ op = "idle" /\ StartGuard
  /\ op' = "start"
  /\ todo' = StartList
  /\ UNCHANGED <<flags, handles, componentOrder, initializedComponentOrder,
                 failed, up, running>>

StartUnit ==
  /\ op = "start" /\ todo # <<>>
  /\ todo' = Tail(todo)
  /\ running' = running \cup {Head(todo)}
  /\ UNCHANGED <<flags, handles, componentOrder, initializedComponentOrder,
                 op, failed, up>>

StartFails ==
  /\ op = "start" /\ todo # <<>>
  /\ EnterStop
  /\ UNCHANGED <<initializing, initialized, started, stopped, handles,
                 componentOrder, initializedComponentOrder, up, running>>

(* f.started cannot have become true meanwhile: lifecycleMu is held.       *)
StartSucceeds ==
  /\ op = "start" /\ todo = <<>>
  /\ started' = TRUE
  /\ op' = "idle"
  /\ UNCHANGED <<initializing, initialized, stopped, stopping, handles,
                 componentOrder, initializedComponentOrder, todo, failed,
                 up, running>>

Next ==
  \/ \E c \in Components : RegisterComponent(c)
  \/ BeginInit \/ InitBuiltin \/ SnapshotComponents \/ InitComponent
  \/ InitFails \/ InitSucceeds
  \/ BeginStart \/ StartUnit \/ StartFails \/ StartSucceeds
  \/ Stop \/ StopUnit \/ StopFinish \/ Unwind

Spec == Init /\ [][Next]_vars

-----------------------------------------------------------------------------
Referenced == (handles \ {"metrics"}) \cup Range(initializedComponentOrder)

(* f refers to everything that is up, and outside a pass of stop to        *)
(* nothing else: whatever failed to stop can be reached by the next Stop,  *)
(* and what did stop is not stopped twice (the Closed flags and            *)
(* `remaining' of stop).                                                   *)
NothingForgotten ==
  /\ up \subseteq Referenced
  /\ op # "stop" => up = Referenced

(* A framework that is idle and not initialized holds nothing: an Init or  *)
(* a Start that failed was rolled back, or else initialized is set so that *)
(* Stop can be retried (stop's final critical section).                    *)
NoLeakWhenIdle ==
  (op = "idle" /\ ~initialized) => up = {} /\ running = {}

(* The framework knows what is up, at rest and on the way.                 *)
(* (framework.go, Init, Start and stop.)                                   *)
NothingLeftBehind == NothingForgotten /\ NoLeakWhenIdle

(* stop calls only units that are up, and Init only units that are down:   *)
(* no unit is stopped twice or initialized over a living instance, however *)
(* Init, Start and Stop fail and are retried.                              *)
NoDoubleStopNoDoubleInit ==
  /\ op = "stop" => Range(todo) \subseteq up
  /\ op \in {"init", "initComponents"} => Range(todo) \cap up = {}

(* A component goes down only after every component initialized after it  *)
(* went down or failed to, and a built-in only after all components did:   *)
(* whatever came up on top of a unit is stopped first (stop's reverse loop).*)
StopsComponentsInReverse ==
  [][ \A j \in DOMAIN initializedComponentOrder :
        LET later == initializedComponentOrder[j]
            below == Builtins \cup {initializedComponentOrder[i] : i \in 1..(j - 1)}
        IN (up \ up') \cap below # {} => later \notin up \/ later \in failed ]_vars

(* "Start starts all components" (framework.go, comment of Start): what is *)
(* started has every configured subsystem and enabled component up.        *)
StartedIsComplete ==
  started /\ op = "idle" =>
    (Configured \ {"metrics"}) \cup (Range(componentOrder) \cap Enabled) \subseteq up
=============================================================================
