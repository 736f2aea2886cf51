-------------------------------- MODULE Logger --------------------------------
(***************************************************************************)
(* The loggers of package logger and the process-wide default one          *)
(* (logger/logger.go, logger/global.go).                                   *)
(*                                                                         *)
(* Logger and all copies With... makes of it share one RWMutex and one     *)
(* writerState.  An asynchronous logger has a bounded queue that a worker  *)
(* writes out.  log and Flush send to the queue while they hold the lock   *)
(* for reading; Close closes the queue while it holds it for writing, and  *)
(* a Lock that waits keeps later RLocks out.  An entry is <<g, n>>, the    *)
(* n-th that goroutine g logs; what it says and how it is laid out is left *)
(* out.                                                                    *)
(***************************************************************************)
EXTENDS Naturals, Sequences, SequencesExt, FiniteSets

CONSTANTS
  Goroutines, Loggers, None,
  BufferSize,
  MaxEntries,   \* bounds on the entries each goroutine logs
  MaxClosers    \* bound on the calls of Init and Close

ASSUME LoggerAssumption ==
  /\ BufferSize \in Nat \ {0} /\ MaxEntries \in [Goroutines -> Nat] /\ MaxClosers \in Nat
  /\ None \notin Loggers
  /\ \A g \in Goroutines : g \notin Goroutines \X Nat   \* a marker is not an entry

VARIABLES
  default,     \* defaultLogger
  mode,        \* of each logger: "none" (not created), "sync" or "async"
  closed,      \* writerState.closed; the queue is closed with it
  queue,       \* entries, and goroutines for the flush markers they wait on
  output,      \* the file: "open" or "closed"
  waiting,     \* who waits for, or holds, each lock for writing
  accepted,    \* history: the entries log let through, by logger
  written,     \* what each file has, in order
  before,      \* history: what was in the queue when a goroutine's Flush began
  pc, lg,      \* what each goroutine does, with which logger
  logged, closers

logVars == <<mode, closed, queue, output, waiting, accepted, written>>
vars == <<default, logVars, before, pc, lg, logged, closers>>

Init ==
  /\ default = None
  /\ mode = [l \in Loggers |-> "none"]
  /\ closed = [l \in Loggers |-> FALSE] /\ queue = [l \in Loggers |-> << >>]
  /\ output = [l \in Loggers |-> "open"] /\ waiting = [l \in Loggers |-> {}]
  /\ accepted = [l \in Loggers |-> {}] /\ written = [l \in Loggers |-> << >>]
  /\ before = [g \in Goroutines |-> {}]
  /\ pc = [g \in Goroutines |-> "idle"] /\ lg = [g \in Goroutines |-> None]
  /\ logged = [g \in Goroutines |-> 0] /\ closers = 0

Goto(g, place) == pc' = [pc EXCEPT ![g] = place]
Use(g, l, place) == Goto(g, place) /\ lg' = [lg EXCEPT ![g] = l]
Return(g) == Use(g, None, "idle") /\ before' = [before EXCEPT ![g] = {}]

(* Who holds a lock for reading: those who are about to send.              *)
Readers(l) == {g \in Goroutines : lg[g] = l /\ pc[g] \in {"sending", "marking"}}

-----------------------------------------------------------------------------
(* NewLogger; opening the file may fail, and then nothing has changed.     *)
Create(l, m) == mode[l] = "none" /\ mode' = [mode EXCEPT ![l] = m]

(* Init replaces the default logger and closes the old one.                *)
Replace(g) ==
  /\ pc[g] = "idle" /\ closers < MaxClosers
  /\ \E l \in Loggers, m \in {"sync", "async"} : Create(l, m) /\ default' = l
  /\ IF default = None THEN UNCHANGED <<pc, lg>> ELSE Use(g, default, "close")
  /\ closers' = closers + 1
  /\ UNCHANGED <<closed, queue, output, waiting, accepted, written, before, logged>>

(* Close, and CloseIfDefault of the logger that is the default, take it    *)
(* away before they close it; CloseIfDefault of another leaves it alone,   *)
(* and its owner may then close it.                                        *)
CloseDefault(g) ==
  /\ pc[g] = "idle" /\ closers < MaxClosers /\ default # None
  /\ default' = None
  /\ Use(g, default, "close")
  /\ closers' = closers + 1
  /\ UNCHANGED <<logVars, before, logged>>

CloseOwn(g) ==
  /\ pc[g] = "idle" /\ closers < MaxClosers
  /\ \E l \in Loggers : mode[l] # "none" /\ l # default /\ Use(g, l, "close")
  /\ closers' = closers + 1
  /\ UNCHANGED <<default, logVars, before, logged>>

SetDefault ==
  /\ \E l \in Loggers : mode[l] # "none" /\ default' = l
  /\ UNCHANGED <<logVars, before, pc, lg, logged, closers>>

-----------------------------------------------------------------------------
(* GetDefault: without a default logger one is created, unless another     *)
(* goroutine was faster.                                                   *)
GetDefault(g) ==
  /\ pc[g] = "idle" /\ logged[g] < MaxEntries[g]
  /\ IF default = None THEN Goto(g, "create") /\ UNCHANGED lg ELSE Use(g, default, "log")
  /\ UNCHANGED <<default, logVars, before, logged, closers>>

CreateDefault(g) ==
  /\ pc[g] = "create"
  /\ IF default # None THEN Use(g, default, "log") /\ UNCHANGED <<default, mode>>
     ELSE \E l \in Loggers : Create(l, "sync") /\ default' = l /\ Use(g, l, "log")
  /\ UNCHANGED <<closed, queue, output, waiting, accepted, written, before,
                 logged, closers>>

-----------------------------------------------------------------------------
(* RLock: not while somebody waits to write.                               *)
MayEnter(l) == waiting[l] = {}

(* log: a closed logger drops the entry; so does one whose level, which    *)
(* SetLevel changes at any time, is higher, and that needs no lock.        *)
Disabled(g) ==
  /\ pc[g] = "log"
  /\ Return(g)
  /\ logged' = [logged EXCEPT ![g] = @ + 1]
  /\ UNCHANGED <<default, logVars, closers>>

Drop(g) ==
  /\ pc[g] = "log" /\ MayEnter(lg[g]) /\ closed[lg[g]]
  /\ Return(g)
  /\ logged' = [logged EXCEPT ![g] = @ + 1]
  /\ UNCHANGED <<default, logVars, closers>>

Log(g) ==
  /\ pc[g] = "log" /\ MayEnter(lg[g]) /\ ~closed[lg[g]]
  /\ Goto(g, "sending")
  /\ logged' = [logged EXCEPT ![g] = @ + 1]
  /\ accepted' = [accepted EXCEPT ![lg[g]] = @ \cup {<<g, logged[g] + 1>>}]
  /\ UNCHANGED <<default, mode, closed, queue, output, waiting, written, before, lg, closers>>

(* write: into the queue, which may be full, or at once; then RUnlock.     *)
(* Mutant: at once also when the queue is full.                            *)
DirectWhenFull(l) == mode[l] = "sync" \/ Len(queue[l]) = BufferSize
Direct(l) == mode[l] = "sync"

Write(g) ==
  /\ pc[g] = "sending"
  /\ LET l == lg[g]
         entry == <<g, logged[g]>>
     IN IF Direct(l)
        THEN written' = [written EXCEPT ![l] = Append(@, entry)] /\ UNCHANGED queue
        ELSE /\ Len(queue[l]) < BufferSize
             /\ queue' = [queue EXCEPT ![l] = Append(@, entry)]
             /\ UNCHANGED written
  /\ Goto(g, "logged")
  /\ UNCHANGED <<default, mode, closed, output, waiting, accepted, before, lg,
                 logged, closers>>

(* After an entry a program goes on, or flushes, as Fatal always does.     *)
GoOn(g) ==
  /\ pc[g] \in {"logged", "flushed"}
  /\ Return(g)
  /\ UNCHANGED <<default, logVars, logged, closers>>

(* Flush: nothing to do for a closed or synchronous logger.  It queues a   *)
(* marker and waits until the worker has come to it.                       *)
Flush(g) ==
  /\ pc[g] = "logged" /\ MayEnter(lg[g])
  /\ before' = [before EXCEPT ![g] = Range(queue[lg[g]])]
  /\ Goto(g, IF closed[lg[g]] \/ mode[lg[g]] = "sync" THEN "flushed" ELSE "marking")
  /\ UNCHANGED <<default, logVars, lg, logged, closers>>

Mark(g) ==
  /\ pc[g] = "marking" /\ Len(queue[lg[g]]) < BufferSize
  /\ queue' = [queue EXCEPT ![lg[g]] = Append(@, g)]
  /\ Goto(g, "awaiting")
  /\ UNCHANGED <<default, mode, closed, output, waiting, accepted, written,
                 before, lg, logged, closers>>

-----------------------------------------------------------------------------
(* runWriter.  Mutant: it stops when the logger is closed.                 *)
WorkerRunsWhileOpen(l) == queue[l] # << >> /\ ~closed[l]
WorkerRuns(l) == queue[l] # << >>

Worker(l) ==
  /\ WorkerRuns(l)
  /\ queue' = [queue EXCEPT ![l] = Tail(@)]
  /\ IF Head(queue[l]) \in Goroutines
     THEN Goto(Head(queue[l]), "flushed") /\ UNCHANGED written
     ELSE written' = [written EXCEPT ![l] = Append(@, Head(queue[l]))] /\ UNCHANGED pc
  /\ UNCHANGED <<default, mode, closed, output, waiting, accepted, before, lg,
                 logged, closers>>

(* Close of a logger: Lock keeps new readers out and waits for the old.    *)
CloseLock(g) ==
  /\ pc[g] = "close"
  /\ waiting' = [waiting EXCEPT ![lg[g]] = @ \cup {g}]
  /\ Goto(g, "locking")
  /\ UNCHANGED <<default, mode, closed, queue, output, accepted, written,
                 before, lg, logged, closers>>

(* Only the first goes on, to wait for the worker outside the lock.        *)
(* Mutant: the lock is not waited for.                                     *)
MayLockAtOnce(l) == TRUE
MayLock(l) == Readers(l) = {}

CloseMark(g) ==
  /\ pc[g] = "locking" /\ MayLock(lg[g])
  /\ waiting' = [waiting EXCEPT ![lg[g]] = @ \ {g}]
  /\ closed' = [closed EXCEPT ![lg[g]] = TRUE]
  /\ IF closed[lg[g]] THEN Return(g) ELSE Goto(g, "draining") /\ UNCHANGED <<lg, before>>
  /\ UNCHANGED <<default, mode, queue, output, accepted, written, logged, closers>>

(* worker.Wait.                                                            *)
Drained(l) == queue[l] = << >>

CloseOutput(g) ==
  /\ pc[g] = "draining" /\ Drained(lg[g])
  /\ output' = [output EXCEPT ![lg[g]] = "closed"]
  /\ Return(g)
  /\ UNCHANGED <<default, mode, closed, queue, waiting, accepted, written, logged, closers>>

CloseStep(g) == CloseLock(g) \/ CloseMark(g) \/ CloseOutput(g)

Next ==
  \/ \E g \in Goroutines :
       \/ Replace(g) \/ CloseDefault(g) \/ CloseOwn(g) \/ CloseStep(g)
       \/ GetDefault(g) \/ CreateDefault(g) \/ Log(g) \/ Drop(g) \/ Disabled(g) \/ Write(g) \/ GoOn(g)
       \/ Flush(g) \/ Mark(g)
  \/ \E l \in Loggers : Worker(l)
  \/ SetDefault

Spec == Init /\ [][Next]_vars

(* Goroutines that can go on do.  Weak fairness is enough for locks and    *)
(* channels here because calls that hold others up are bounded.            *)
Fairness ==
  /\ \A g \in Goroutines :
       /\ WF_vars(CloseStep(g)) /\ WF_vars(GoOn(g)) /\ WF_vars(CreateDefault(g))
       /\ WF_vars(Log(g) \/ Drop(g) \/ Write(g) \/ Mark(g))
  /\ \A l \in Loggers : WF_vars(Worker(l))

FairSpec == Spec /\ Fairness

-----------------------------------------------------------------------------
(* Nobody sends to a closed queue, which would panic, and the file is not  *)
(* closed before it has every entry the logger let through.                *)
OpenWhileUsed ==
  \A l \in Loggers :
    /\ Readers(l) # {} => ~closed[l]
    /\ output[l] = "closed" => accepted[l] \subseteq Range(written[l])

(* Each file has the entries of a goroutine in the order they were logged. *)
WrittenInOrder ==
  \A l \in Loggers : \A i, j \in DOMAIN written[l] :
    (i < j /\ written[l][i][1] = written[l][j][1]) => written[l][i][2] < written[l][j][2]

(* The loggers implement the book they stand for: through queues that fill *)
(* up, flushes, replacements of the default and closes, each entry is      *)
(* written once and in its goroutine's order, files only grow, and a file  *)
(* is closed when nothing is missing.  (logger/logger.go:198-529.)         *)
Book == INSTANCE LogBook WITH
  Books <- Loggers,
  pending <- [l \in Loggers |-> accepted[l] \ Range(written[l])],
  phase <- [l \in Loggers |-> IF output[l] = "closed" THEN "over"
                              ELSE IF closed[l] THEN "ending" ELSE "open"]

ImplementsBook == Book!Spec

(* Neither a full queue nor a Close in between loses an entry once the     *)
(* logger has let it through, and nobody waits for ever: log, Flush and    *)
(* Close return.  (logger/logger.go:198-529.)                              *)
CallsReturn ==
  \A g \in Goroutines : (pc[g] \notin {"idle", "create"}) ~> (pc[g] = "idle")

EveryCallIsServed == Book!Delivers /\ CallsReturn

(* "Flush waits until all previously queued asynchronous logs are written" *)
(* (logger.go:479), on which Fatal relies before it exits.                 *)
FlushWaits ==
  \A g \in Goroutines :
    pc[g] = "flushed" => before[g] \ Goroutines \subseteq Range(written[lg[g]])
=============================================================================
