----------------------------- MODULE LoggerProofs -----------------------------
(***************************************************************************)
(* Proofs about Logger, for any goroutines and loggers, any size of the    *)
(* queues and any number of entries, flushes and closes: who uses a logger *)
(* finds it open, files are in order, and the loggers implement LogBook.   *)
(***************************************************************************)
EXTENDS Logger, TLAPS

Entries == Goroutines \X Nat
Places == {"idle", "create", "log", "sending", "logged", "marking", "awaiting", "flushed",
           "close", "locking", "draining"}

LoggerTypeOK ==
  /\ default \in Loggers \cup {None}
  /\ mode \in [Loggers -> {"none", "sync", "async"}]
  /\ closed \in [Loggers -> BOOLEAN]
  /\ queue \in [Loggers -> Seq(Entries \cup Goroutines)]
  /\ output \in [Loggers -> {"open", "closed"}]
  /\ accepted \in [Loggers -> SUBSET Entries]
  /\ written \in [Loggers -> Seq(Entries)]
  /\ pc \in [Goroutines -> Places]
  /\ lg \in [Goroutines -> Loggers \cup {None}]
  /\ logged \in [Goroutines -> Nat]

(* Whoever is busy uses a logger that was made; only an asynchronous one   *)
(* has a queue and is flushed by a marker.                                 *)
LoggersExist ==
  /\ default # None => mode[default] # "none"
  /\ \A g \in Goroutines :
       /\ pc[g] \notin {"idle", "create"} => lg[g] \in Loggers /\ mode[lg[g]] # "none"
       /\ pc[g] = "marking" => mode[lg[g]] = "async"
  /\ \A l \in Loggers : mode[l] # "async" => queue[l] = << >>

(* A marker in a queue is the only one of a goroutine that waits for it    *)
(* with this logger.                                                       *)
MarkersAwaited ==
  \A l \in Loggers : \A i \in 1..Len(queue[l]) : queue[l][i] \in Goroutines =>
    /\ pc[queue[l][i]] = "awaiting" /\ lg[queue[l][i]] = l
    /\ \A j \in 1..Len(queue[l]) : queue[l][j] = queue[l][i] => j = i

(* What the lock and the flag keep apart.                                  *)
Guarded ==
  /\ \A g \in Goroutines :
       /\ pc[g] \in {"sending", "marking"} => ~closed[lg[g]]
       /\ pc[g] = "draining" => closed[lg[g]]
  /\ \A l \in Loggers :
       output[l] = "closed" => closed[l] /\ accepted[l] \subseteq Range(written[l])

(* An entry that was let through is written, queued or about to be sent.   *)
Accounted ==
  \A l \in Loggers : \A e \in accepted[l] :
    \/ e \in Range(written[l]) \/ e \in Range(queue[l])
    \/ \E g \in Goroutines : pc[g] = "sending" /\ lg[g] = l /\ e = <<g, logged[g]>>

(* The entries of a goroutine get into the file and the queue in order,    *)
(* and those that are there are older than the one it is about to send.    *)
Sent(e) ==
  e[2] <= logged[e[1]] /\ (pc[e[1]] = "sending" => e[2] < logged[e[1]])
Older(e, f) == e[1] = f[1] => e[2] < f[2]

Ordered(w, q) ==
  /\ \A i, j \in 1..Len(w) : i < j => Older(w[i], w[j])
  /\ \A i, j \in 1..Len(q) :
       i < j /\ q[i] \in Entries /\ q[j] \in Entries => Older(q[i], q[j])
  /\ \A i \in 1..Len(w), j \in 1..Len(q) : q[j] \in Entries => Older(w[i], q[j])

InOrder ==
  \A l \in Loggers :
    /\ \A e \in (Range(written[l]) \cup Range(queue[l])) \cap Entries : Sent(e)
    /\ Ordered(written[l], queue[l])

LoggerInv ==
  LoggerTypeOK /\ LoggersExist /\ MarkersAwaited /\ Guarded /\ Accounted /\ InOrder

-----------------------------------------------------------------------------
LEMMA RangeOf ==
  ASSUME NEW S, NEW s \in Seq(S) PROVE Range(s) = {s[i] : i \in 1..Len(s)}
BY DEF Range

LEMMA Appended ==
  ASSUME NEW S, NEW s \in Seq(S), NEW u \in S
  PROVE  /\ Append(s, u) \in Seq(S) /\ Len(Append(s, u)) = Len(s) + 1 /\ Len(s) \in Nat
         /\ \A i \in 1..Len(s) : Append(s, u)[i] = s[i]
         /\ Append(s, u)[Len(s) + 1] = u
         /\ \A i \in 1..(Len(s) + 1) : i \in 1..Len(s) \/ i = Len(s) + 1
         /\ Range(Append(s, u)) = Range(s) \cup {u}
<1> DEFINE t == Append(s, u)
<1>1. /\ t \in Seq(S) /\ Len(t) = Len(s) + 1 /\ Len(s) \in Nat /\ t[Len(s) + 1] = u
      /\ \A i \in 1..Len(s) : t[i] = s[i]
  OBVIOUS
<1> HIDE DEF t
<1>2. /\ \A i \in 1..(Len(s) + 1) : i \in 1..Len(s) \/ i = Len(s) + 1
      /\ Len(s) + 1 \in 1..(Len(s) + 1) /\ 1..Len(s) \subseteq 1..(Len(s) + 1)
  BY <1>1
<1>3. Range(s) = {s[i] : i \in 1..Len(s)} /\ Range(t) = {t[i] : i \in 1..Len(t)}
  BY <1>1, RangeOf
<1>4. Range(t) = Range(s) \cup {u}
  BY <1>1, <1>2, <1>3
<1> QED BY <1>1, <1>2, <1>4 DEF t

LEMMA Taken ==
  ASSUME NEW S, NEW s \in Seq(S), s # << >>
  PROVE  /\ Tail(s) \in Seq(S) /\ Len(Tail(s)) = Len(s) - 1 /\ Len(s) \in Nat
         /\ \A i \in 1..Len(Tail(s)) : i + 1 \in 1..Len(s) /\ Tail(s)[i] = s[i + 1]
         /\ 1 \in 1..Len(s) /\ Head(s) = s[1] /\ Head(s) \in S
         /\ Range(s) = Range(Tail(s)) \cup {Head(s)}
<1> DEFINE t == Tail(s)
<1>1. /\ t \in Seq(S) /\ Len(t) = Len(s) - 1 /\ Len(s) \in Nat /\ Len(s) >= 1
      /\ \A i \in 1..(Len(s) - 1) : t[i] = s[i + 1]
      /\ Head(s) = s[1] /\ Head(s) \in S
  OBVIOUS
<1> HIDE DEF t
<1>2. /\ 1 \in 1..Len(s) /\ \A i \in 1..(Len(s) - 1) : i + 1 \in 1..Len(s)
      /\ \A i \in 1..Len(s) : i = 1 \/ (i - 1 \in 1..(Len(s) - 1) /\ (i - 1) + 1 = i)
  BY <1>1
<1>3. Range(s) = {s[i] : i \in 1..Len(s)} /\ Range(t) = {t[i] : i \in 1..Len(t)}
  BY <1>1, RangeOf
<1>4. \A u \in Range(s) : u \in Range(t) \cup {Head(s)}
  <2> SUFFICES ASSUME NEW i \in 1..Len(s) PROVE s[i] \in Range(t) \cup {Head(s)}
    BY <1>3
  <2>1. CASE i = 1
    BY <1>1, <2>1
  <2>2. CASE i # 1
    <3>1. i - 1 \in 1..Len(t) /\ t[i - 1] = s[i]
      BY <1>1, <1>2, <2>2
    <3> QED BY <1>3, <3>1
  <2> QED BY <2>1, <2>2
<1>5. \A u \in Range(t) \cup {Head(s)} : u \in Range(s)
  BY <1>1, <1>2, <1>3
<1> QED BY <1>1, <1>2, <1>4, <1>5 DEF t

(* What sending to the queue, writing at once and taking from the queue do *)
(* to the order.                                                           *)
LEMMA OrderedDirect ==
  ASSUME NEW w \in Seq(Entries), NEW x \in Entries, Ordered(w, << >>),
         \A e \in Range(w) : Older(e, x)
  PROVE  Ordered(Append(w, x), << >>)
<1> DEFINE v == Append(w, x)
<1>1. /\ Len(v) = Len(w) + 1 /\ Len(w) \in Nat
      /\ \A i \in 1..Len(w) : v[i] = w[i] /\ Older(w[i], x)
      /\ v[Len(w) + 1] = x /\ \A i \in 1..Len(v) : i \in 1..Len(w) \/ i = Len(w) + 1
  BY Appended, RangeOf
<1>2. \A i, j \in 1..Len(w) : i < j => Older(w[i], w[j])
  BY DEF Ordered
<1> HIDE DEF v
<1>3. ASSUME NEW i \in 1..Len(v), NEW j \in 1..Len(v), i < j PROVE Older(v[i], v[j])
  <2>1. i \in 1..Len(w)
    BY <1>1, <1>3
  <2> QED BY <1>1, <1>2, <1>3, <2>1
<1>4. \A j \in 1..Len(<< >>) : FALSE
  OBVIOUS
<1> QED BY <1>3, <1>4 DEF Ordered, v

LEMMA OrderedQueued ==
  ASSUME NEW w \in Seq(Entries), NEW q \in Seq(Entries \cup Goroutines),
         NEW x \in Entries \cup Goroutines, Ordered(w, q),
         x \in Entries => \A e \in (Range(w) \cup Range(q)) \cap Entries : Older(e, x)
  PROVE  Ordered(w, Append(q, x))
<1> DEFINE p == Append(q, x)
<1>1. /\ Len(p) = Len(q) + 1 /\ Len(q) \in Nat
      /\ \A i \in 1..Len(q) : p[i] = q[i]
      /\ p[Len(q) + 1] = x /\ \A i \in 1..Len(p) : i \in 1..Len(q) \/ i = Len(q) + 1
  BY Appended
<1>2. /\ \A i \in 1..Len(q) : q[i] \in Range(q)
      /\ \A i \in 1..Len(w) : w[i] \in Range(w) /\ w[i] \in Entries
  BY RangeOf
<1>3. /\ \A i, j \in 1..Len(w) : i < j => Older(w[i], w[j])
      /\ \A i, j \in 1..Len(q) :
           i < j /\ q[i] \in Entries /\ q[j] \in Entries => Older(q[i], q[j])
      /\ \A i \in 1..Len(w), j \in 1..Len(q) : q[j] \in Entries => Older(w[i], q[j])
  BY DEF Ordered
<1> HIDE DEF p
<1>4. ASSUME NEW i \in 1..Len(p), NEW j \in 1..Len(p), i < j, p[i] \in Entries, p[j] \in Entries
      PROVE  Older(p[i], p[j])
  <2>1. i \in 1..Len(q)
    BY <1>1, <1>4
  <2>2. CASE j \in 1..Len(q)
    BY <1>1, <1>3, <1>4, <2>1, <2>2
  <2>3. CASE j = Len(q) + 1
    BY <1>1, <1>2, <1>4, <2>1, <2>3
  <2> QED BY <1>1, <2>2, <2>3
<1>5. ASSUME NEW i \in 1..Len(w), NEW j \in 1..Len(p), p[j] \in Entries
      PROVE  Older(w[i], p[j])
  <2>1. CASE j \in 1..Len(q)
    BY <1>1, <1>3, <1>5, <2>1
  <2>2. CASE j = Len(q) + 1
    BY <1>1, <1>2, <1>5, <2>2
  <2> QED BY <1>1, <2>1, <2>2
<1> QED BY <1>3, <1>4, <1>5 DEF Ordered, p

LEMMA OrderedTaken ==
  ASSUME NEW w \in Seq(Entries), NEW q \in Seq(Entries \cup Goroutines), q # << >>,
         Ordered(w, q)
  PROVE  /\ Ordered(w, Tail(q))
         /\ Head(q) \in Entries => Ordered(Append(w, Head(q)), Tail(q))
<1> DEFINE p == Tail(q)
           x == Head(q)
           v == Append(w, x)
<1>1. /\ Len(q) \in Nat /\ Len(p) = Len(q) - 1 /\ 1 \in 1..Len(q) /\ x = q[1]
      /\ \A i \in 1..Len(p) : i + 1 \in 1..Len(q) /\ p[i] = q[i + 1]
  BY Taken
<1>2. /\ \A i, j \in 1..Len(w) : i < j => Older(w[i], w[j])
      /\ \A i, j \in 1..Len(q) :
           i < j /\ q[i] \in Entries /\ q[j] \in Entries => Older(q[i], q[j])
      /\ \A i \in 1..Len(w), j \in 1..Len(q) : q[j] \in Entries => Older(w[i], q[j])
  BY DEF Ordered
<1>3. x \in Entries =>
        /\ Len(v) = Len(w) + 1 /\ Len(w) \in Nat
        /\ \A i \in 1..Len(w) : v[i] = w[i]
        /\ v[Len(w) + 1] = x /\ \A i \in 1..Len(v) : i \in 1..Len(w) \/ i = Len(w) + 1
  BY Appended
<1> HIDE DEF p, x, v
<1>4. ASSUME NEW i \in 1..Len(p), NEW j \in 1..Len(p), i < j, p[i] \in Entries, p[j] \in Entries
      PROVE  Older(p[i], p[j])
  <2>1. i + 1 \in 1..Len(q) /\ j + 1 \in 1..Len(q) /\ i + 1 < j + 1
    BY <1>1, <1>4
  <2> QED BY <1>1, <1>2, <1>4, <2>1
<1>5. ASSUME NEW i \in 1..Len(w), NEW j \in 1..Len(p), p[j] \in Entries
      PROVE  Older(w[i], p[j])
  BY <1>1, <1>2, <1>5
<1>6. Ordered(w, p)
  BY <1>2, <1>4, <1>5 DEF Ordered
<1>7. ASSUME x \in Entries PROVE Ordered(v, p)
  <2>1. ASSUME NEW i \in 1..Len(v), NEW j \in 1..Len(v), i < j PROVE Older(v[i], v[j])
    <3>1. i \in 1..Len(w)
      BY <1>3, <1>7, <2>1
    <3>2. CASE j \in 1..Len(w)
      BY <1>2, <1>3, <1>7, <2>1, <3>1, <3>2
    <3>3. CASE j = Len(w) + 1
      BY <1>1, <1>2, <1>3, <1>7, <3>1, <3>3
    <3> QED BY <1>3, <1>7, <3>2, <3>3
  <2>2. ASSUME NEW i \in 1..Len(v), NEW j \in 1..Len(p), p[j] \in Entries PROVE Older(v[i], p[j])
    <3>1. CASE i \in 1..Len(w)
      BY <1>3, <1>5, <1>7, <2>2, <3>1
    <3>2. CASE i = Len(w) + 1
      <4>1. j + 1 \in 1..Len(q) /\ 1 < j + 1
        BY <1>1
      <4> QED BY <1>1, <1>2, <1>3, <1>7, <2>2, <3>2, <4>1
    <3> QED BY <1>3, <1>7, <3>1, <3>2
  <2> QED BY <1>4, <2>1, <2>2 DEF Ordered
<1> QED BY <1>6, <1>7 DEF p, x, v

LEMMA InitLogger == Init => LoggerInv
<1> SUFFICES ASSUME Init PROVE LoggerInv
  OBVIOUS
<1> USE LoggerAssumption DEF Init
<1>1. LoggerTypeOK
  BY DEF LoggerTypeOK, Places
<1>2. LoggersExist /\ MarkersAwaited /\ Guarded /\ Accounted
  BY DEF LoggersExist, MarkersAwaited, Guarded, Accounted
<1>3. InOrder
  BY DEF InOrder, Ordered, Range
<1> QED BY <1>1, <1>2, <1>3 DEF LoggerInv

(* A step that sends nothing, closes nothing and writes nothing.           *)
LEMMA QuietStep ==
  ASSUME LoggerInv, UNCHANGED <<closed, queue, output, accepted, written>>,
         default' \in Loggers \cup {None}, default' # None => mode'[default'] # "none",
         mode' \in [Loggers -> {"none", "sync", "async"}],
         \A l \in Loggers : mode'[l] = mode[l] \/ (mode[l] = "none" /\ mode'[l] # "none"),
         pc' \in [Goroutines -> Places], lg' \in [Goroutines -> Loggers \cup {None}],
         logged' \in [Goroutines -> Nat],
         \A g \in Goroutines :
           \/ pc'[g] = pc[g] /\ lg'[g] = lg[g] /\ logged'[g] = logged[g]
           \/ /\ pc[g] \notin {"sending", "awaiting"} /\ pc'[g] \notin {"sending", "awaiting"}
              /\ logged'[g] >= logged[g]
              /\ pc'[g] \notin {"idle", "create"} => lg'[g] \in Loggers /\ mode'[lg'[g]] # "none"
              /\ pc'[g] = "marking" => mode'[lg'[g]] = "async" /\ ~closed[lg'[g]]
              /\ pc'[g] = "draining" => closed[lg'[g]]
  PROVE  LoggerInv'
<1> USE DEF LoggerInv
<1>1. LoggerTypeOK'
  BY DEF LoggerTypeOK
<1>2. LoggersExist'
  BY DEF LoggersExist, LoggerTypeOK
<1>3. MarkersAwaited'
  BY DEF MarkersAwaited
<1>4. Guarded'
  BY DEF Guarded
<1>5. Accounted'
  BY DEF Accounted
<1>6. InOrder'
  <2>1. ASSUME NEW e \in Entries, Sent(e) PROVE Sent(e)'
    <3>1. e[1] \in Goroutines /\ e[2] \in Nat /\ logged[e[1]] \in Nat /\ logged'[e[1]] \in Nat
      BY DEF Entries, LoggerTypeOK
    <3>2. logged'[e[1]] >= logged[e[1]]
          /\ (pc'[e[1]] = "sending" => pc[e[1]] = "sending" /\ logged'[e[1]] = logged[e[1]])
      BY <3>1
    <3> QED BY <2>1, <3>1, <3>2 DEF Sent
  <2> HIDE DEF LoggerInv
  <2>2. InOrder
    BY DEF LoggerInv
  <2> QED BY <2>1, <2>2 DEF InOrder
<1> QED BY <1>1, <1>2, <1>3, <1>4, <1>5, <1>6
-----------------------------------------------------------------------------
(* The steps of a goroutine that send, close and write nothing.            *)
LEMMA ReplaceInv == ASSUME LoggerInv, NEW g \in Goroutines, Replace(g) PROVE LoggerInv'
<1> USE LoggerAssumption DEF Replace, Goto, Create, Use, logVars
<1>1. LoggerTypeOK /\ LoggersExist /\ Guarded
  BY DEF LoggerInv
<1>2. /\ UNCHANGED <<closed, queue, output, accepted, written>>
      /\ default' \in Loggers \cup {None} /\ (default' # None => mode'[default'] # "none")
      /\ mode' \in [Loggers -> {"none", "sync", "async"}]
      /\ \A l \in Loggers : mode'[l] = mode[l] \/ (mode[l] = "none" /\ mode'[l] # "none")
  BY <1>1 DEF LoggerTypeOK, LoggersExist
<1>3. /\ pc' \in [Goroutines -> Places] /\ lg' \in [Goroutines -> Loggers \cup {None}]
      /\ logged' \in [Goroutines -> Nat]
  <2>1. /\ pc \in [Goroutines -> Places] /\ lg \in [Goroutines -> Loggers \cup {None}]
        /\ logged \in [Goroutines -> Nat]
    BY <1>1 DEF LoggerTypeOK
  <2>2. default # None => default \in Loggers
    BY <1>1 DEF LoggerTypeOK
  <2>3. CASE default = None
    BY <2>1, <2>3
  <2>4. CASE default # None
    BY <2>1, <2>2, <2>4 DEF Places
  <2> QED BY <2>3, <2>4
<1>4. \A h \in Goroutines \ {g} : pc'[h] = pc[h] /\ lg'[h] = lg[h] /\ logged'[h] = logged[h]
  BY <1>1 DEF LoggerTypeOK
<1>5. \/ pc'[g] = pc[g] /\ lg'[g] = lg[g] /\ logged'[g] = logged[g]
      \/ /\ pc[g] \notin {"sending", "awaiting"} /\ pc'[g] \notin {"sending", "awaiting"}
         /\ logged'[g] >= logged[g]
         /\ pc'[g] \notin {"idle", "create"} => lg'[g] \in Loggers /\ mode'[lg'[g]] # "none"
         /\ pc'[g] = "marking" => mode'[lg'[g]] = "async" /\ ~closed[lg'[g]]
         /\ pc'[g] = "draining" => closed[lg'[g]]
  BY <1>1 DEF LoggerTypeOK, LoggersExist, Guarded
<1> HIDE DEF Replace
<1> QED BY <1>2, <1>3, <1>4, <1>5, QuietStep

LEMMA CloseDefaultInv == ASSUME LoggerInv, NEW g \in Goroutines, CloseDefault(g) PROVE LoggerInv'
<1> USE LoggerAssumption DEF CloseDefault, Goto, Use, logVars
<1>1. LoggerTypeOK /\ LoggersExist /\ Guarded
  BY DEF LoggerInv
<1>2. /\ UNCHANGED <<closed, queue, output, accepted, written>>
      /\ default' \in Loggers \cup {None} /\ (default' # None => mode'[default'] # "none")
      /\ mode' \in [Loggers -> {"none", "sync", "async"}]
      /\ \A l \in Loggers : mode'[l] = mode[l] \/ (mode[l] = "none" /\ mode'[l] # "none")
  BY <1>1 DEF LoggerTypeOK, LoggersExist
<1>3. /\ pc' \in [Goroutines -> Places] /\ lg' \in [Goroutines -> Loggers \cup {None}]
      /\ logged' \in [Goroutines -> Nat]
  BY <1>1 DEF LoggerTypeOK, LoggersExist, Places
<1>4. \A h \in Goroutines \ {g} : pc'[h] = pc[h] /\ lg'[h] = lg[h] /\ logged'[h] = logged[h]
  BY <1>1 DEF LoggerTypeOK
<1>5. \/ pc'[g] = pc[g] /\ lg'[g] = lg[g] /\ logged'[g] = logged[g]
      \/ /\ pc[g] \notin {"sending", "awaiting"} /\ pc'[g] \notin {"sending", "awaiting"}
         /\ logged'[g] >= logged[g]
         /\ pc'[g] \notin {"idle", "create"} => lg'[g] \in Loggers /\ mode'[lg'[g]] # "none"
         /\ pc'[g] = "marking" => mode'[lg'[g]] = "async" /\ ~closed[lg'[g]]
         /\ pc'[g] = "draining" => closed[lg'[g]]
  BY <1>1 DEF LoggerTypeOK, LoggersExist, Guarded
<1> HIDE DEF CloseDefault
<1> QED BY <1>2, <1>3, <1>4, <1>5, QuietStep

LEMMA CloseOwnInv == ASSUME LoggerInv, NEW g \in Goroutines, CloseOwn(g) PROVE LoggerInv'
<1> USE LoggerAssumption DEF CloseOwn, Goto, Use, logVars
<1>1. LoggerTypeOK /\ LoggersExist /\ Guarded
  BY DEF LoggerInv
<1>2. /\ UNCHANGED <<closed, queue, output, accepted, written>>
      /\ default' \in Loggers \cup {None} /\ (default' # None => mode'[default'] # "none")
      /\ mode' \in [Loggers -> {"none", "sync", "async"}]
      /\ \A l \in Loggers : mode'[l] = mode[l] \/ (mode[l] = "none" /\ mode'[l] # "none")
  BY <1>1 DEF LoggerTypeOK, LoggersExist
<1>3. /\ pc' \in [Goroutines -> Places] /\ lg' \in [Goroutines -> Loggers \cup {None}]
      /\ logged' \in [Goroutines -> Nat]
  BY <1>1 DEF LoggerTypeOK, LoggersExist, Places
<1>4. \A h \in Goroutines \ {g} : pc'[h] = pc[h] /\ lg'[h] = lg[h] /\ logged'[h] = logged[h]
  BY <1>1 DEF LoggerTypeOK
<1>5. \/ pc'[g] = pc[g] /\ lg'[g] = lg[g] /\ logged'[g] = logged[g]
      \/ /\ pc[g] \notin {"sending", "awaiting"} /\ pc'[g] \notin {"sending", "awaiting"}
         /\ logged'[g] >= logged[g]
         /\ pc'[g] \notin {"idle", "create"} => lg'[g] \in Loggers /\ mode'[lg'[g]] # "none"
         /\ pc'[g] = "marking" => mode'[lg'[g]] = "async" /\ ~closed[lg'[g]]
         /\ pc'[g] = "draining" => closed[lg'[g]]
  BY <1>1 DEF LoggerTypeOK, LoggersExist, Guarded
<1> HIDE DEF CloseOwn
<1> QED BY <1>2, <1>3, <1>4, <1>5, QuietStep

LEMMA GetDefaultInv == ASSUME LoggerInv, NEW g \in Goroutines, GetDefault(g) PROVE LoggerInv'
<1> USE LoggerAssumption DEF GetDefault, Goto, Use, logVars
<1>1. LoggerTypeOK /\ LoggersExist /\ Guarded
  BY DEF LoggerInv
<1>2. /\ UNCHANGED <<closed, queue, output, accepted, written>>
      /\ default' \in Loggers \cup {None} /\ (default' # None => mode'[default'] # "none")
      /\ mode' \in [Loggers -> {"none", "sync", "async"}]
      /\ \A l \in Loggers : mode'[l] = mode[l] \/ (mode[l] = "none" /\ mode'[l] # "none")
  BY <1>1 DEF LoggerTypeOK, LoggersExist
<1>3. /\ pc' \in [Goroutines -> Places] /\ lg' \in [Goroutines -> Loggers \cup {None}]
      /\ logged' \in [Goroutines -> Nat]
  BY <1>1, ZenonT(40) DEF LoggerTypeOK, LoggersExist, Places
<1>4. \A h \in Goroutines \ {g} : pc'[h] = pc[h] /\ lg'[h] = lg[h] /\ logged'[h] = logged[h]
  BY <1>1 DEF LoggerTypeOK
<1>5. \/ pc'[g] = pc[g] /\ lg'[g] = lg[g] /\ logged'[g] = logged[g]
      \/ /\ pc[g] \notin {"sending", "awaiting"} /\ pc'[g] \notin {"sending", "awaiting"}
         /\ logged'[g] >= logged[g]
         /\ pc'[g] \notin {"idle", "create"} => lg'[g] \in Loggers /\ mode'[lg'[g]] # "none"
         /\ pc'[g] = "marking" => mode'[lg'[g]] = "async" /\ ~closed[lg'[g]]
         /\ pc'[g] = "draining" => closed[lg'[g]]
  BY <1>1 DEF LoggerTypeOK, LoggersExist, Guarded
<1> HIDE DEF GetDefault
<1> QED BY <1>2, <1>3, <1>4, <1>5, QuietStep

LEMMA CreateDefaultInv == ASSUME LoggerInv, NEW g \in Goroutines, CreateDefault(g) PROVE LoggerInv'
<1> USE LoggerAssumption DEF CreateDefault, Goto, Create, Use, logVars
<1>1. LoggerTypeOK /\ LoggersExist /\ Guarded
  BY DEF LoggerInv
<1>2. /\ UNCHANGED <<closed, queue, output, accepted, written>>
      /\ default' \in Loggers \cup {None} /\ (default' # None => mode'[default'] # "none")
      /\ mode' \in [Loggers -> {"none", "sync", "async"}]
      /\ \A l \in Loggers : mode'[l] = mode[l] \/ (mode[l] = "none" /\ mode'[l] # "none")
  BY <1>1 DEF LoggerTypeOK, LoggersExist
<1>3. /\ pc' \in [Goroutines -> Places] /\ lg' \in [Goroutines -> Loggers \cup {None}]
      /\ logged' \in [Goroutines -> Nat]
  <2>1. /\ pc \in [Goroutines -> Places] /\ lg \in [Goroutines -> Loggers \cup {None}]
        /\ logged \in [Goroutines -> Nat]
    BY <1>1 DEF LoggerTypeOK
  <2>2. default # None => default \in Loggers
    BY <1>1 DEF LoggerTypeOK
  <2>3. CASE default # None
    BY <2>1, <2>2, <2>3 DEF Places
  <2>4. CASE default = None
    <3>1. PICK l \in Loggers : pc' = [pc EXCEPT ![g] = "log"] /\ lg' = [lg EXCEPT ![g] = l]
      BY <2>4
    <3> QED BY <2>1, <3>1 DEF Places
  <2> QED BY <2>3, <2>4
<1>4. \A h \in Goroutines \ {g} : pc'[h] = pc[h] /\ lg'[h] = lg[h] /\ logged'[h] = logged[h]
  BY <1>1 DEF LoggerTypeOK
<1>5. \/ pc'[g] = pc[g] /\ lg'[g] = lg[g] /\ logged'[g] = logged[g]
      \/ /\ pc[g] \notin {"sending", "awaiting"} /\ pc'[g] \notin {"sending", "awaiting"}
         /\ logged'[g] >= logged[g]
         /\ pc'[g] \notin {"idle", "create"} => lg'[g] \in Loggers /\ mode'[lg'[g]] # "none"
         /\ pc'[g] = "marking" => mode'[lg'[g]] = "async" /\ ~closed[lg'[g]]
         /\ pc'[g] = "draining" => closed[lg'[g]]
  BY <1>1 DEF LoggerTypeOK, LoggersExist, Guarded
<1> HIDE DEF CreateDefault
<1> QED BY <1>2, <1>3, <1>4, <1>5, QuietStep

LEMMA DisabledInv == ASSUME LoggerInv, NEW g \in Goroutines, Disabled(g) PROVE LoggerInv'
<1> USE LoggerAssumption DEF Disabled, Goto, Return, Use, logVars
<1>1. LoggerTypeOK /\ LoggersExist /\ Guarded
  BY DEF LoggerInv
<1>2. /\ UNCHANGED <<closed, queue, output, accepted, written>>
      /\ default' \in Loggers \cup {None} /\ (default' # None => mode'[default'] # "none")
      /\ mode' \in [Loggers -> {"none", "sync", "async"}]
      /\ \A l \in Loggers : mode'[l] = mode[l] \/ (mode[l] = "none" /\ mode'[l] # "none")
  BY <1>1 DEF LoggerTypeOK, LoggersExist
<1>3. /\ pc' \in [Goroutines -> Places] /\ lg' \in [Goroutines -> Loggers \cup {None}]
      /\ logged' \in [Goroutines -> Nat]
  BY <1>1 DEF LoggerTypeOK, LoggersExist, Places
<1>4. \A h \in Goroutines \ {g} : pc'[h] = pc[h] /\ lg'[h] = lg[h] /\ logged'[h] = logged[h]
  BY <1>1 DEF LoggerTypeOK
<1>5. \/ pc'[g] = pc[g] /\ lg'[g] = lg[g] /\ logged'[g] = logged[g]
      \/ /\ pc[g] \notin {"sending", "awaiting"} /\ pc'[g] \notin {"sending", "awaiting"}
         /\ logged'[g] >= logged[g]
         /\ pc'[g] \notin {"idle", "create"} => lg'[g] \in Loggers /\ mode'[lg'[g]] # "none"
         /\ pc'[g] = "marking" => mode'[lg'[g]] = "async" /\ ~closed[lg'[g]]
         /\ pc'[g] = "draining" => closed[lg'[g]]
  BY <1>1 DEF LoggerTypeOK, LoggersExist, Guarded
<1> HIDE DEF Disabled
<1> QED BY <1>2, <1>3, <1>4, <1>5, QuietStep

LEMMA DropInv == ASSUME LoggerInv, NEW g \in Goroutines, Drop(g) PROVE LoggerInv'
<1> USE LoggerAssumption DEF Drop, Goto, Return, Use, logVars
<1>1. LoggerTypeOK /\ LoggersExist /\ Guarded
  BY DEF LoggerInv
<1>2. /\ UNCHANGED <<closed, queue, output, accepted, written>>
      /\ default' \in Loggers \cup {None} /\ (default' # None => mode'[default'] # "none")
      /\ mode' \in [Loggers -> {"none", "sync", "async"}]
      /\ \A l \in Loggers : mode'[l] = mode[l] \/ (mode[l] = "none" /\ mode'[l] # "none")
  BY <1>1 DEF LoggerTypeOK, LoggersExist
<1>3. /\ pc' \in [Goroutines -> Places] /\ lg' \in [Goroutines -> Loggers \cup {None}]
      /\ logged' \in [Goroutines -> Nat]
  BY <1>1 DEF LoggerTypeOK, LoggersExist, Places
<1>4. \A h \in Goroutines \ {g} : pc'[h] = pc[h] /\ lg'[h] = lg[h] /\ logged'[h] = logged[h]
  BY <1>1 DEF LoggerTypeOK
<1>5. \/ pc'[g] = pc[g] /\ lg'[g] = lg[g] /\ logged'[g] = logged[g]
      \/ /\ pc[g] \notin {"sending", "awaiting"} /\ pc'[g] \notin {"sending", "awaiting"}
         /\ logged'[g] >= logged[g]
         /\ pc'[g] \notin {"idle", "create"} => lg'[g] \in Loggers /\ mode'[lg'[g]] # "none"
         /\ pc'[g] = "marking" => mode'[lg'[g]] = "async" /\ ~closed[lg'[g]]
         /\ pc'[g] = "draining" => closed[lg'[g]]
  BY <1>1 DEF LoggerTypeOK, LoggersExist, Guarded
<1> HIDE DEF Drop
<1> QED BY <1>2, <1>3, <1>4, <1>5, QuietStep

LEMMA GoOnInv == ASSUME LoggerInv, NEW g \in Goroutines, GoOn(g) PROVE LoggerInv'
<1> USE LoggerAssumption DEF GoOn, Goto, Return, Use, logVars
<1>1. LoggerTypeOK /\ LoggersExist /\ Guarded
  BY DEF LoggerInv
<1>2. /\ UNCHANGED <<closed, queue, output, accepted, written>>
      /\ default' \in Loggers \cup {None} /\ (default' # None => mode'[default'] # "none")
      /\ mode' \in [Loggers -> {"none", "sync", "async"}]
      /\ \A l \in Loggers : mode'[l] = mode[l] \/ (mode[l] = "none" /\ mode'[l] # "none")
  BY <1>1 DEF LoggerTypeOK, LoggersExist
<1>3. /\ pc' \in [Goroutines -> Places] /\ lg' \in [Goroutines -> Loggers \cup {None}]
      /\ logged' \in [Goroutines -> Nat]
  BY <1>1 DEF LoggerTypeOK, LoggersExist, Places
<1>4. \A h \in Goroutines \ {g} : pc'[h] = pc[h] /\ lg'[h] = lg[h] /\ logged'[h] = logged[h]
  BY <1>1 DEF LoggerTypeOK
<1>5. \/ pc'[g] = pc[g] /\ lg'[g] = lg[g] /\ logged'[g] = logged[g]
      \/ /\ pc[g] \notin {"sending", "awaiting"} /\ pc'[g] \notin {"sending", "awaiting"}
         /\ logged'[g] >= logged[g]
         /\ pc'[g] \notin {"idle", "create"} => lg'[g] \in Loggers /\ mode'[lg'[g]] # "none"
         /\ pc'[g] = "marking" => mode'[lg'[g]] = "async" /\ ~closed[lg'[g]]
         /\ pc'[g] = "draining" => closed[lg'[g]]
  BY <1>1 DEF LoggerTypeOK, LoggersExist, Guarded
<1> HIDE DEF GoOn
<1> QED BY <1>2, <1>3, <1>4, <1>5, QuietStep

LEMMA FlushInv == ASSUME LoggerInv, NEW g \in Goroutines, Flush(g) PROVE LoggerInv'
<1> USE LoggerAssumption DEF Flush, Goto, logVars
<1>1. LoggerTypeOK /\ LoggersExist /\ Guarded
  BY DEF LoggerInv
<1>2. /\ UNCHANGED <<closed, queue, output, accepted, written>>
      /\ default' \in Loggers \cup {None} /\ (default' # None => mode'[default'] # "none")
      /\ mode' \in [Loggers -> {"none", "sync", "async"}]
      /\ \A l \in Loggers : mode'[l] = mode[l] \/ (mode[l] = "none" /\ mode'[l] # "none")
  BY <1>1 DEF LoggerTypeOK, LoggersExist
<1>3. /\ pc' \in [Goroutines -> Places] /\ lg' \in [Goroutines -> Loggers \cup {None}]
      /\ logged' \in [Goroutines -> Nat]
  BY <1>1 DEF LoggerTypeOK, LoggersExist, Places
<1>4. \A h \in Goroutines \ {g} : pc'[h] = pc[h] /\ lg'[h] = lg[h] /\ logged'[h] = logged[h]
  BY <1>1 DEF LoggerTypeOK
<1>5. \/ pc'[g] = pc[g] /\ lg'[g] = lg[g] /\ logged'[g] = logged[g]
      \/ /\ pc[g] \notin {"sending", "awaiting"} /\ pc'[g] \notin {"sending", "awaiting"}
         /\ logged'[g] >= logged[g]
         /\ pc'[g] \notin {"idle", "create"} => lg'[g] \in Loggers /\ mode'[lg'[g]] # "none"
         /\ pc'[g] = "marking" => mode'[lg'[g]] = "async" /\ ~closed[lg'[g]]
         /\ pc'[g] = "draining" => closed[lg'[g]]
  <2>1. /\ logged[g] \in Nat /\ lg[g] \in Loggers /\ pc[g] \in Places
        /\ mode[lg[g]] \in {"sync", "async"}
    BY <1>1 DEF LoggerTypeOK, LoggersExist
  <2>2. pc \in [Goroutines -> Places]
    BY <1>1 DEF LoggerTypeOK
  <2>3. logged[g] >= logged[g]
    BY <2>1
  <2> QED BY <2>1, <2>2, <2>3, <1>1 DEF LoggersExist
<1> HIDE DEF Flush
<1> QED BY <1>2, <1>3, <1>4, <1>5, QuietStep

LEMMA CloseLockInv == ASSUME LoggerInv, NEW g \in Goroutines, CloseLock(g) PROVE LoggerInv'
<1> USE LoggerAssumption DEF CloseLock, Goto, logVars
<1>1. LoggerTypeOK /\ LoggersExist /\ Guarded
  BY DEF LoggerInv
<1>2. /\ UNCHANGED <<closed, queue, output, accepted, written>>
      /\ default' \in Loggers \cup {None} /\ (default' # None => mode'[default'] # "none")
      /\ mode' \in [Loggers -> {"none", "sync", "async"}]
      /\ \A l \in Loggers : mode'[l] = mode[l] \/ (mode[l] = "none" /\ mode'[l] # "none")
  BY <1>1 DEF LoggerTypeOK, LoggersExist
<1>3. /\ pc' \in [Goroutines -> Places] /\ lg' \in [Goroutines -> Loggers \cup {None}]
      /\ logged' \in [Goroutines -> Nat]
  BY <1>1 DEF LoggerTypeOK, LoggersExist, Places
<1>4. \A h \in Goroutines \ {g} : pc'[h] = pc[h] /\ lg'[h] = lg[h] /\ logged'[h] = logged[h]
  BY <1>1 DEF LoggerTypeOK
<1>5. \/ pc'[g] = pc[g] /\ lg'[g] = lg[g] /\ logged'[g] = logged[g]
      \/ /\ pc[g] \notin {"sending", "awaiting"} /\ pc'[g] \notin {"sending", "awaiting"}
         /\ logged'[g] >= logged[g]
         /\ pc'[g] \notin {"idle", "create"} => lg'[g] \in Loggers /\ mode'[lg'[g]] # "none"
         /\ pc'[g] = "marking" => mode'[lg'[g]] = "async" /\ ~closed[lg'[g]]
         /\ pc'[g] = "draining" => closed[lg'[g]]
  <2>1. /\ logged[g] \in Nat /\ lg[g] \in Loggers /\ pc[g] \in Places
        /\ mode[lg[g]] \in {"sync", "async"}
    BY <1>1 DEF LoggerTypeOK, LoggersExist
  <2>2. pc \in [Goroutines -> Places]
    BY <1>1 DEF LoggerTypeOK
  <2>3. logged[g] >= logged[g]
    BY <2>1
  <2> QED BY <2>1, <2>2, <2>3, <1>1 DEF LoggersExist
<1> HIDE DEF CloseLock
<1> QED BY <1>2, <1>3, <1>4, <1>5, QuietStep

LEMMA SetDefaultInv == ASSUME LoggerInv, SetDefault PROVE LoggerInv'
BY QuietStep DEF LoggerInv, LoggerTypeOK, LoggersExist, Guarded, SetDefault, logVars

-----------------------------------------------------------------------------
(* What is sent stays sent when only places and counters move on.          *)
LEMMA SentStays ==
  ASSUME LoggerTypeOK, NEW e \in Entries, Sent(e),
         logged'[e[1]] \in Nat, logged'[e[1]] >= logged[e[1]],
         pc'[e[1]] = "sending" => logged'[e[1]] > logged[e[1]] \/ pc[e[1]] = "sending"
  PROVE  Sent(e)'
<1>1. e[1] \in Goroutines /\ e[2] \in Nat /\ logged[e[1]] \in Nat
  BY DEF Entries, LoggerTypeOK
<1> QED BY <1>1 DEF Sent

LEMMA LogInv == ASSUME LoggerInv, NEW g \in Goroutines, Log(g) PROVE LoggerInv'
<1> USE LoggerAssumption DEF LoggerInv, Log, Goto
<1>0. /\ LoggerTypeOK /\ pc[g] = "log" /\ lg[g] \in Loggers /\ logged[g] \in Nat /\ ~closed[lg[g]]
      /\ mode[lg[g]] # "none"
  BY DEF LoggersExist, LoggerTypeOK
<1>1. /\ UNCHANGED <<default, mode, closed, queue, output, written, lg>>
      /\ pc' = [pc EXCEPT ![g] = "sending"] /\ logged' = [logged EXCEPT ![g] = logged[g] + 1]
      /\ accepted' = [accepted EXCEPT ![lg[g]] = accepted[lg[g]] \cup {<<g, logged[g] + 1>>}]
  OBVIOUS
<1>2. LoggerTypeOK'
  <2>1. <<g, logged[g] + 1>> \in Entries
    BY <1>0 DEF Entries
  <2>2. accepted' \in [Loggers -> SUBSET Entries]
    <3>1. accepted \in [Loggers -> SUBSET Entries] /\ accepted[lg[g]] \subseteq Entries
      BY <1>0 DEF LoggerTypeOK
    <3> QED BY <1>0, <1>1, <2>1, <3>1
  <2> QED BY <1>0, <1>1, <2>2 DEF LoggerTypeOK, Places
<1>3. LoggersExist'
  BY <1>0, <1>1 DEF LoggersExist, LoggerTypeOK
<1>4. MarkersAwaited'
  BY <1>0, <1>1 DEF MarkersAwaited, LoggerTypeOK
<1>5. Guarded'
  <2>1. \A l \in Loggers : closed[l] => accepted'[l] = accepted[l]
    BY <1>0, <1>1 DEF LoggerTypeOK
  <2> QED BY <1>0, <1>1, <2>1 DEF Guarded, LoggerTypeOK
<1>6. Accounted'
  <2> SUFFICES ASSUME NEW l \in Loggers, NEW e \in accepted'[l]
      PROVE  \/ e \in Range(written[l]) \/ e \in Range(queue[l])
             \/ \E h \in Goroutines : pc'[h] = "sending" /\ lg'[h] = l /\ e = <<h, logged'[h]>>
    BY <1>1 DEF Accounted
  <2>1. CASE e \in accepted[l]
    <3>1. CASE \E h \in Goroutines : pc[h] = "sending" /\ lg[h] = l /\ e = <<h, logged[h]>>
      <4>1. PICK h \in Goroutines : pc[h] = "sending" /\ lg[h] = l /\ e = <<h, logged[h]>>
        BY <3>1
      <4>2. h # g /\ pc'[h] = "sending" /\ lg'[h] = l /\ logged'[h] = logged[h]
        BY <4>1, <1>0, <1>1 DEF LoggerTypeOK
      <4> QED BY <4>1, <4>2
    <3> QED BY <2>1, <3>1 DEF Accounted
  <2>2. CASE e \notin accepted[l]
    <3>1. l = lg[g] /\ e = <<g, logged[g] + 1>>
      BY <2>2, <1>0, <1>1 DEF LoggerTypeOK
    <3>2. pc'[g] = "sending" /\ lg'[g] = l /\ logged'[g] = logged[g] + 1
      BY <3>1, <1>0, <1>1 DEF LoggerTypeOK
    <3> QED BY <3>1, <3>2
  <2> QED BY <2>1, <2>2
<1>7. InOrder'
  <2>1. ASSUME NEW e \in Entries, Sent(e) PROVE Sent(e)'
    <3>1. e[1] \in Goroutines /\ logged[e[1]] \in Nat
      BY <1>0 DEF Entries, LoggerTypeOK
    <3>2. logged'[e[1]] \in Nat /\ logged'[e[1]] >= logged[e[1]]
          /\ (pc'[e[1]] = "sending" => logged'[e[1]] > logged[e[1]] \/ pc[e[1]] = "sending")
      BY <3>1, <1>0, <1>1 DEF LoggerTypeOK
    <3> QED BY <2>1, <3>2, <1>0, SentStays
  <2>2. InOrder
    OBVIOUS
  <2> HIDE DEF LoggerInv, Log
  <2> QED BY <1>1, <2>1, <2>2 DEF InOrder
<1> QED BY <1>2, <1>3, <1>4, <1>5, <1>6, <1>7

(* The entry a goroutine is about to send is younger than those it sent.   *)
LEMMA EntryIsNext ==
  ASSUME LoggerInv, NEW g \in Goroutines, pc[g] = "sending"
  PROVE  /\ <<g, logged[g]>> \in Entries
         /\ \A e \in Entries : Sent(e) => Older(e, <<g, logged[g]>>)
<1>1. logged[g] \in Nat
  BY DEF LoggerInv, LoggerTypeOK
<1> QED BY <1>1 DEF Entries, Sent, Older

LEMMA WriteInv == ASSUME LoggerInv, NEW g \in Goroutines, Write(g) PROVE LoggerInv'
<1> USE LoggerAssumption
<1> DEFINE l == lg[g]
           entry == <<g, logged[g]>>
<1>0. /\ LoggerTypeOK /\ pc[g] = "sending" /\ l \in Loggers /\ logged[g] \in Nat /\ ~closed[l]
      /\ mode[l] \in {"sync", "async"}
  <2>1. LoggerTypeOK /\ LoggersExist /\ Guarded /\ pc[g] = "sending"
    BY DEF LoggerInv, Write
  <2>2. l \in Loggers /\ mode[l] # "none" /\ ~closed[l]
    BY <2>1 DEF LoggersExist, Guarded
  <2> QED BY <2>1, <2>2 DEF LoggerTypeOK
<1>1. /\ UNCHANGED <<default, mode, closed, output, accepted, lg, logged>>
      /\ pc' = [pc EXCEPT ![g] = "logged"]
  BY DEF Write, Goto
<1>2. /\ entry \in Entries
      /\ \A e \in Entries : Sent(e) => Older(e, entry)
  BY <1>0, EntryIsNext
<1>3. \/ /\ mode[l] = "sync" /\ queue' = queue /\ queue[l] = << >>
         /\ written' = [written EXCEPT ![l] = Append(written[l], entry)]
      \/ /\ mode[l] = "async" /\ written' = written
         /\ queue' = [queue EXCEPT ![l] = Append(queue[l], entry)]
  BY <1>0 DEF LoggerInv, Write, Direct, LoggersExist
<1>4. /\ queue[l] \in Seq(Entries \cup Goroutines) /\ written[l] \in Seq(Entries)
      /\ entry \in Entries \cup Goroutines /\ entry \notin Goroutines
  <2>1. entry \in Goroutines \X Nat
    BY <1>0
  <2> QED BY <1>0, <1>2, <2>1 DEF LoggerTypeOK
<1>5. \A h \in Goroutines : h # g => pc'[h] = pc[h]
  BY <1>0, <1>1 DEF LoggerTypeOK
<1>6. pc'[g] = "logged"
  BY <1>0, <1>1 DEF LoggerTypeOK
<1>7. \A k \in Loggers : k # l => written'[k] = written[k] /\ queue'[k] = queue[k]
  BY <1>0, <1>3 DEF LoggerTypeOK
<1>8. ASSUME NEW e \in Entries, Sent(e) PROVE Sent(e)'
  <2>1. e[1] \in Goroutines /\ logged[e[1]] \in Nat
    BY <1>0 DEF Entries, LoggerTypeOK
  <2>2. logged'[e[1]] \in Nat /\ logged'[e[1]] >= logged[e[1]]
        /\ (pc'[e[1]] = "sending" => pc[e[1]] = "sending")
    BY <2>1, <1>0, <1>1, <1>5, <1>6
  <2> QED BY <1>8, <2>2, <1>0, SentStays
<1>9. \A e : e = entry => Sent(e)'
  BY <1>0, <1>1, <1>6 DEF Sent
<1>10. /\ Ordered(written[l], queue[l])
       /\ \A e \in (Range(written[l]) \cup Range(queue[l])) \cap Entries : Older(e, entry)
  BY <1>0, <1>2 DEF LoggerInv, InOrder
<1> HIDE DEF l, entry
<1>11. LoggerTypeOK'
  <2>1. Append(written[l], entry) \in Seq(Entries)
        /\ Append(queue[l], entry) \in Seq(Entries \cup Goroutines)
    BY <1>2, <1>4, Appended
  <2>2. written' \in [Loggers -> Seq(Entries)] /\ queue' \in [Loggers -> Seq(Entries \cup Goroutines)]
    <3>1. written \in [Loggers -> Seq(Entries)] /\ queue \in [Loggers -> Seq(Entries \cup Goroutines)]
      BY <1>0 DEF LoggerTypeOK
    <3>2. \A S : \A f \in [Loggers -> S], s \in S : [f EXCEPT ![l] = s] \in [Loggers -> S]
      OBVIOUS
    <3>3. [written EXCEPT ![l] = Append(written[l], entry)] \in [Loggers -> Seq(Entries)]
      BY <2>1, <3>1, <3>2
    <3>4. [queue EXCEPT ![l] = Append(queue[l], entry)] \in [Loggers -> Seq(Entries \cup Goroutines)]
      BY <2>1, <3>1, <3>2
    <3> QED BY <1>3, <3>1, <3>3, <3>4
  <2> QED BY <1>0, <1>1, <2>2 DEF LoggerTypeOK, Places
<1>12. LoggersExist'
  <2>1. LoggersExist
    BY DEF LoggerInv
  <2> QED BY <2>1, <1>0, <1>1, <1>3, <1>5, <1>6, <1>7 DEF LoggersExist, l
<1>13. MarkersAwaited'
  <2>1. MarkersAwaited
    BY DEF LoggerInv
  <2>2. \A k \in Loggers : \A i \in 1..Len(queue[k]) : queue[k][i] \in Goroutines => queue[k][i] # g
    BY <2>1, <1>0 DEF MarkersAwaited
  <2>3. ASSUME NEW k \in Loggers, queue'[k] = queue[k],
               NEW i \in 1..Len(queue'[k]), queue'[k][i] \in Goroutines
        PROVE  /\ pc'[queue'[k][i]] = "awaiting" /\ lg'[queue'[k][i]] = k
               /\ \A j \in 1..Len(queue'[k]) : queue'[k][j] = queue'[k][i] => j = i
    BY <2>1, <2>2, <2>3, <1>1, <1>5 DEF MarkersAwaited
  <2>4. ASSUME queue'[l] = Append(queue[l], entry),
               NEW i \in 1..Len(queue'[l]), queue'[l][i] \in Goroutines
        PROVE  /\ pc'[queue'[l][i]] = "awaiting" /\ lg'[queue'[l][i]] = l
               /\ \A j \in 1..Len(queue'[l]) : queue'[l][j] = queue'[l][i] => j = i
    <3>1. i \in 1..Len(queue[l]) /\ queue'[l][i] = queue[l][i]
      BY <2>4, <1>4, Appended
    <3>2. pc'[queue'[l][i]] = "awaiting" /\ lg'[queue'[l][i]] = l
      BY <3>1, <2>1, <2>2, <2>4, <1>0, <1>1, <1>5 DEF MarkersAwaited
    <3>3. ASSUME NEW j \in 1..Len(queue'[l]), queue'[l][j] = queue'[l][i] PROVE j = i
      <4>1. j \in 1..Len(queue[l]) /\ queue'[l][j] = queue[l][j]
        BY <2>4, <3>3, <1>4, Appended
      <4> QED BY <3>1, <3>3, <4>1, <2>1, <2>4, <1>0 DEF MarkersAwaited
    <3> QED BY <3>2, <3>3
  <2>5. queue'[l] = queue[l] \/ queue'[l] = Append(queue[l], entry)
    BY <1>0, <1>3 DEF LoggerTypeOK
  <2> QED BY <2>3, <2>4, <2>5, <1>7, <1>0 DEF MarkersAwaited
<1>14. Guarded'
  <2>1. Guarded
    BY DEF LoggerInv
  <2>2. \A k \in Loggers : closed[k] => written'[k] = written[k]
    BY <1>0, <1>7
  <2> QED BY <2>1, <2>2, <1>0, <1>1, <1>5, <1>6 DEF Guarded
<1>15. /\ Range(written[l]) \subseteq Range(written'[l]) /\ Range(queue[l]) \subseteq Range(queue'[l])
       /\ entry \in Range(written'[l]) \cup Range(queue'[l])
       /\ Range(written'[l]) \cup Range(queue'[l]) = Range(written[l]) \cup Range(queue[l]) \cup {entry}
       /\ Ordered(written'[l], queue'[l])
  <2>1. CASE written'[l] = Append(written[l], entry) /\ queue'[l] = << >> /\ queue[l] = << >>
    <3>1. Range(written'[l]) = Range(written[l]) \cup {entry}
      BY <2>1, <1>2, <1>4, Appended
    <3>2. Ordered(written'[l], << >>)
      <4>1. \A e \in Range(written[l]) : e \in Entries
        BY <1>4 DEF Range
      <4> QED BY <2>1, <1>2, <1>4, <1>10, <4>1, OrderedDirect
    <3> QED BY <3>1, <3>2, <2>1
  <2>2. CASE queue'[l] = Append(queue[l], entry) /\ written' = written
    <3>1. Range(queue'[l]) = Range(queue[l]) \cup {entry}
      BY <2>2, <1>4, Appended
    <3>2. Ordered(written[l], queue'[l])
      BY <2>2, <1>4, <1>10, OrderedQueued, SMTT(30)
    <3> QED BY <3>1, <3>2, <2>2
  <2> QED BY <2>1, <2>2, <1>0, <1>3 DEF LoggerTypeOK
<1>16. Accounted'
  <2> SUFFICES ASSUME NEW k \in Loggers, NEW e \in accepted[k]
      PROVE  \/ e \in Range(written'[k]) \/ e \in Range(queue'[k])
             \/ \E h \in Goroutines : pc'[h] = "sending" /\ lg'[h] = k /\ e = <<h, logged'[h]>>
    BY <1>1 DEF Accounted
  <2>1. Range(written[k]) \subseteq Range(written'[k]) /\ Range(queue[k]) \subseteq Range(queue'[k])
    BY <1>7, <1>15
  <2>2. CASE \E h \in Goroutines : pc[h] = "sending" /\ lg[h] = k /\ e = <<h, logged[h]>>
    <3>1. PICK h \in Goroutines : pc[h] = "sending" /\ lg[h] = k /\ e = <<h, logged[h]>>
      BY <2>2
    <3>2. CASE h = g
      <4>1. k = l /\ e = entry
        BY <3>1, <3>2 DEF l, entry
      <4> QED BY <4>1, <1>15
    <3>3. CASE h # g
      BY <3>1, <3>3, <1>1, <1>5
    <3> QED BY <3>2, <3>3
  <2> QED BY <2>1, <2>2 DEF LoggerInv, Accounted
<1>17. InOrder'
  <2>1. InOrder
    BY DEF LoggerInv
  <2>2. \A k \in Loggers : k # l =>
          /\ \A e \in (Range(written'[k]) \cup Range(queue'[k])) \cap Entries : Sent(e)'
          /\ Ordered(written'[k], queue'[k])
    BY <2>1, <1>7, <1>8 DEF InOrder
  <2>3. \A e \in (Range(written'[l]) \cup Range(queue'[l])) \cap Entries : Sent(e)'
    BY <2>1, <1>0, <1>8, <1>9, <1>15 DEF InOrder
  <2> QED BY <2>2, <2>3, <1>15 DEF InOrder
<1> QED BY <1>11, <1>12, <1>13, <1>14, <1>16, <1>17 DEF LoggerInv

LEMMA PutIn ==
  ASSUME NEW D, NEW S, NEW f \in [D -> S], NEW d \in D, NEW s \in S
  PROVE  [f EXCEPT ![d] = s] \in [D -> S]
OBVIOUS

LEMMA MarkInv == ASSUME LoggerInv, NEW g \in Goroutines, Mark(g) PROVE LoggerInv'
<1> USE LoggerAssumption
<1> DEFINE l == lg[g]
           All == Entries \cup Goroutines
<1>0. /\ LoggerTypeOK /\ LoggersExist /\ MarkersAwaited /\ Guarded /\ Accounted /\ InOrder
      /\ pc[g] = "marking"
  BY DEF LoggerInv, Mark
<1>1. l \in Loggers /\ mode[l] = "async" /\ ~closed[l] /\ queue[l] \in Seq(All) /\ g \in All
      /\ g \notin Entries /\ written[l] \in Seq(Entries)
  BY <1>0, ZenonT(40) DEF LoggersExist, Guarded, LoggerTypeOK, Entries
<1>2. /\ UNCHANGED <<default, mode, closed, output, accepted, written, lg, logged>>
      /\ pc' = [pc EXCEPT ![g] = "awaiting"]
      /\ queue' = [queue EXCEPT ![l] = Append(queue[l], g)]
  BY DEF Mark, Goto
<1> HIDE DEF l, All
<1>3. /\ queue'[l] = Append(queue[l], g)
      /\ \A k \in Loggers : k # l => queue'[k] = queue[k]
      /\ pc'[g] = "awaiting" /\ \A h \in Goroutines : h # g => pc'[h] = pc[h]
  BY <1>0, <1>1, <1>2 DEF LoggerTypeOK
<1>4. LoggerTypeOK'
  <2>1. queue \in [Loggers -> Seq(All)] /\ Append(queue[l], g) \in Seq(All)
    BY <1>0, <1>1, Appended DEF LoggerTypeOK, All
  <2>2. queue' \in [Loggers -> Seq(All)]
    BY <1>1, <1>2, <2>1, PutIn
  <2> QED BY <1>0, <1>2, <2>2 DEF LoggerTypeOK, Places, All
<1>5. LoggersExist'
  BY <1>0, <1>1, <1>2, <1>3 DEF LoggersExist
<1>6. MarkersAwaited'
  <2>1. \A k \in Loggers : \A i \in 1..Len(queue[k]) : queue[k][i] \in Goroutines => queue[k][i] # g
    BY <1>0 DEF MarkersAwaited
  <2>2. ASSUME NEW k \in Loggers, k # l, NEW i \in 1..Len(queue'[k]), queue'[k][i] \in Goroutines
        PROVE  /\ pc'[queue'[k][i]] = "awaiting" /\ lg'[queue'[k][i]] = k
               /\ \A j \in 1..Len(queue'[k]) : queue'[k][j] = queue'[k][i] => j = i
    BY <1>0, <2>1, <2>2, <1>2, <1>3 DEF MarkersAwaited
  <2>3. ASSUME NEW i \in 1..Len(queue'[l]), queue'[l][i] \in Goroutines
        PROVE  /\ pc'[queue'[l][i]] = "awaiting" /\ lg'[queue'[l][i]] = l
               /\ \A j \in 1..Len(queue'[l]) : queue'[l][j] = queue'[l][i] => j = i
    <3> DEFINE q == queue[l]
               p == queue'[l]
    <3>1. /\ Len(p) = Len(q) + 1 /\ Len(q) \in Nat
          /\ \A m \in 1..Len(q) : p[m] = q[m] /\ q[m] # g
          /\ p[Len(q) + 1] = g /\ \A m \in 1..Len(p) : m \in 1..Len(q) \/ m = Len(q) + 1
      <4>1. \A m \in 1..Len(q) : q[m] # g
        BY <2>1, <1>1
      <4> QED BY <4>1, <1>1, <1>3, Appended
    <3>2. \A m \in 1..Len(q) : q[m] \in Goroutines =>
            /\ pc[q[m]] = "awaiting" /\ lg[q[m]] = l /\ \A j \in 1..Len(q) : q[j] = q[m] => j = m
      BY <1>0, <1>1 DEF MarkersAwaited
    <3>3. i \in 1..Len(p) /\ p[i] \in Goroutines
      BY <2>3
    <3> HIDE DEF p, q
    <3>4. pc'[p[i]] = "awaiting" /\ lg'[p[i]] = l
      BY <3>1, <3>2, <3>3, <1>2, <1>3 DEF l
    <3>5. ASSUME NEW j \in 1..Len(p), p[j] = p[i] PROVE j = i
      BY <3>1, <3>2, <3>3, <3>5
    <3> QED BY <3>4, <3>5 DEF p
  <2> QED BY <2>2, <2>3 DEF MarkersAwaited
<1>7. Guarded'
  BY <1>0, <1>2, <1>3 DEF Guarded
<1>8. \A k \in Loggers : Range(queue'[k]) \subseteq Range(queue[k]) \cup {g}
                         /\ Range(queue[k]) \subseteq Range(queue'[k])
  <2>1. Range(queue'[l]) = Range(queue[l]) \cup {g}
    BY <1>1, <1>3, Appended
  <2> QED BY <2>1, <1>3
<1>9. Accounted'
  <2>1. \A h \in Goroutines : pc[h] = "sending" => pc'[h] = "sending"
    BY <1>0, <1>3
  <2> QED BY <1>0, <1>2, <1>8, <2>1, SMTT(30) DEF Accounted
<1>10. InOrder'
  <2>1. ASSUME NEW e \in Entries, Sent(e) PROVE Sent(e)'
    <3>1. e[1] \in Goroutines /\ logged[e[1]] \in Nat
      BY <1>0 DEF Entries, LoggerTypeOK
    <3>2. logged'[e[1]] \in Nat /\ logged'[e[1]] >= logged[e[1]]
          /\ (pc'[e[1]] = "sending" => pc[e[1]] = "sending")
      BY <3>1, <1>0, <1>2, <1>3
    <3> QED BY <2>1, <3>2, <1>0, SentStays
  <2>2. Ordered(written[l], queue'[l])
    <3>1. Ordered(written[l], queue[l])
      BY <1>0, <1>1 DEF InOrder
    <3>2. Ordered(written[l], Append(queue[l], g))
      BY <3>1, <1>1, OrderedQueued DEF All
    <3> QED BY <3>2, <1>3
  <2>3. \A k \in Loggers : \A e \in (Range(written[k]) \cup Range(queue'[k])) \cap Entries : Sent(e)'
    BY <1>0, <1>1, <1>8, <2>1 DEF InOrder
  <2> QED BY <1>0, <1>2, <1>3, <2>2, <2>3 DEF InOrder
<1> QED BY <1>4, <1>5, <1>6, <1>7, <1>9, <1>10 DEF LoggerInv

LEMMA WorkerInv == ASSUME LoggerInv, NEW l \in Loggers, Worker(l) PROVE LoggerInv'
<1> USE LoggerAssumption
<1> DEFINE q == queue[l]
           p == queue'[l]
           head == Head(q)
           All == Entries \cup Goroutines
<1>0. /\ LoggerTypeOK /\ LoggersExist /\ MarkersAwaited /\ Guarded /\ Accounted /\ InOrder
  BY DEF LoggerInv
<1>1. /\ UNCHANGED <<default, mode, closed, output, accepted, lg, logged>>
      /\ q # << >> /\ queue' = [queue EXCEPT ![l] = Tail(q)]
      /\ \/ /\ head \in Goroutines /\ pc' = [pc EXCEPT ![head] = "flushed"] /\ written' = written
         \/ /\ head \notin Goroutines /\ pc' = pc
            /\ written' = [written EXCEPT ![l] = Append(written[l], head)]
  BY DEF Worker, WorkerRuns, Goto
<1>2. q \in Seq(All) /\ written[l] \in Seq(Entries) /\ p = Tail(q)
      /\ \A k \in Loggers : k # l => queue'[k] = queue[k]
  BY <1>0, <1>1 DEF LoggerTypeOK
<1>3. /\ p \in Seq(All) /\ Len(p) = Len(q) - 1 /\ Len(q) \in Nat
      /\ \A i \in 1..Len(p) : i + 1 \in 1..Len(q) /\ p[i] = q[i + 1]
      /\ 1 \in 1..Len(q) /\ head = q[1] /\ head \in All /\ Range(q) = Range(p) \cup {head}
  <2>1. q \in Seq(All) /\ q # << >> /\ p = Tail(q)
    BY <1>1, <1>2
  <2> HIDE DEF q, p, All
  <2> QED BY <2>1, Taken
<1>4. head \in Goroutines \/ head \in Entries
  BY <1>3
<1>5. mode[l] = "async"
  BY <1>0, <1>1 DEF LoggersExist
<1>6. /\ Ordered(written[l], q) /\ Ordered(written[l], p)
      /\ head \in Entries => Ordered(Append(written[l], head), p)
  <2>1. Ordered(written[l], q)
    BY <1>0 DEF InOrder
  <2> QED BY <2>1, <1>1, <1>2, OrderedTaken
<1> HIDE DEF q, p, head, All
<1>7. /\ queue' \in [Loggers -> Seq(All)]
      /\ head \in Entries => [written EXCEPT ![l] = Append(written[l], head)] \in [Loggers -> Seq(Entries)]
  <2>1. /\ queue \in [Loggers -> Seq(All)] /\ written \in [Loggers -> Seq(Entries)]
    BY <1>0 DEF LoggerTypeOK, All
  <2>2. queue' \in [Loggers -> Seq(All)]
    BY <2>1, <1>1, <1>2, <1>3, PutIn
  <2>3. ASSUME head \in Entries
        PROVE  [written EXCEPT ![l] = Append(written[l], head)] \in [Loggers -> Seq(Entries)]
    <3>1. Append(written[l], head) \in Seq(Entries)
      BY <1>2, <2>3, Appended
    <3> QED BY <2>1, <3>1, PutIn
  <2> QED BY <2>2, <2>3
<1>8. CASE head \in Goroutines
  <2>1. /\ head \notin Entries /\ pc' = [pc EXCEPT ![head] = "flushed"] /\ written' = written
    BY <1>1, <1>8 DEF Entries
  <2>2. /\ pc[head] = "awaiting" /\ lg[head] = l /\ \A j \in 1..Len(q) : q[j] = head => j = 1
    BY <1>0, <1>3, <1>8 DEF MarkersAwaited, q
  <2>3. pc'[head] = "flushed" /\ \A h \in Goroutines : h # head => pc'[h] = pc[h]
    BY <2>1, <1>0, <1>8 DEF LoggerTypeOK
  <2>4. LoggerTypeOK'
    BY <1>0, <1>1, <1>7, <1>8, <2>1 DEF LoggerTypeOK, Places, All
  <2>5. LoggersExist'
    <3>1. \A k \in Loggers : mode'[k] # "async" => queue'[k] = << >>
      BY <1>0, <1>1, <1>2, <1>5 DEF LoggersExist
    <3>2. \A g \in Goroutines : pc'[g] \notin {"idle", "create"} => pc[g] \notin {"idle", "create"}
      BY <2>2, <2>3
    <3>3. \A g \in Goroutines : pc'[g] = "marking" => pc[g] = "marking"
      BY <2>2, <2>3
    <3> QED BY <1>0, <1>1, <3>1, <3>2, <3>3 DEF LoggersExist
  <2>6. MarkersAwaited'
    <3> SUFFICES ASSUME NEW k \in Loggers, NEW i \in 1..Len(queue'[k]), queue'[k][i] \in Goroutines
        PROVE  /\ pc'[queue'[k][i]] = "awaiting" /\ lg'[queue'[k][i]] = k
               /\ \A j \in 1..Len(queue'[k]) : queue'[k][j] = queue'[k][i] => j = i
      BY DEF MarkersAwaited
    <3>1. CASE k = l
      <4>1. i \in 1..Len(p) /\ p[i] \in Goroutines
        BY <3>1 DEF p
      <4>2. i + 1 \in 1..Len(q) /\ p[i] = q[i + 1] /\ i + 1 # 1
        BY <1>3, <4>1
      <4>3. p[i] # head /\ pc[p[i]] = "awaiting" /\ lg[p[i]] = l
            /\ \A j \in 1..Len(q) : q[j] = p[i] => j = i + 1
        BY <1>0, <2>2, <4>1, <4>2 DEF MarkersAwaited, q
      <4>4. \A j \in 1..Len(p) : p[j] = p[i] => j = i
        BY <1>3, <4>3
      <4> QED BY <1>1, <2>3, <3>1, <4>1, <4>3, <4>4 DEF p
    <3>2. CASE k # l
      <4>1. queue'[k] = queue[k] /\ pc[queue[k][i]] = "awaiting" /\ lg[queue[k][i]] = k
            /\ \A j \in 1..Len(queue[k]) : queue[k][j] = queue[k][i] => j = i
        BY <1>0, <1>2, <3>2 DEF MarkersAwaited
      <4>2. queue[k][i] # head
        BY <2>2, <3>2, <4>1
      <4> QED BY <1>1, <2>3, <4>1, <4>2
    <3> QED BY <3>1, <3>2
  <2>7. Guarded'
    BY <1>0, <1>1, <2>1, <2>3, <2>2 DEF Guarded
  <2>8. \A k \in Loggers : Range(queue'[k]) \subseteq Range(queue[k])
                           /\ Range(queue[k]) \subseteq Range(queue'[k]) \cup {head}
    BY <1>2, <1>3 DEF p, q
  <2>9. Accounted'
    <3>1. \A k \in Loggers : \A e \in accepted[k] : e \in Entries
      BY <1>0 DEF LoggerTypeOK
    <3>2. \A h \in Goroutines : pc[h] = "sending" => pc'[h] = "sending"
      BY <2>2, <2>3
    <3> SUFFICES ASSUME NEW k \in Loggers, NEW e \in accepted[k]
        PROVE  \/ e \in Range(written[k]) \/ e \in Range(queue'[k])
               \/ \E h \in Goroutines : pc'[h] = "sending" /\ lg[h] = k /\ e = <<h, logged[h]>>
      BY <1>1, <2>1 DEF Accounted
    <3>3. \/ e \in Range(written[k]) \/ e \in Range(queue[k])
          \/ \E h \in Goroutines : pc[h] = "sending" /\ lg[h] = k /\ e = <<h, logged[h]>>
      BY <1>0 DEF Accounted
    <3>4. e # head
      BY <2>1, <3>1
    <3> QED BY <2>8, <3>2, <3>3, <3>4
  <2>10. InOrder'
    <3>1. ASSUME NEW e \in Entries, Sent(e) PROVE Sent(e)'
      <4>1. e[1] \in Goroutines /\ logged[e[1]] \in Nat
        BY <1>0 DEF Entries, LoggerTypeOK
      <4>2. logged'[e[1]] \in Nat /\ logged'[e[1]] >= logged[e[1]]
            /\ (pc'[e[1]] = "sending" => pc[e[1]] = "sending")
        BY <4>1, <1>1, <2>2, <2>3
      <4> QED BY <3>1, <4>2, <1>0, SentStays
    <3>2. \A k \in Loggers : \A e \in (Range(written'[k]) \cup Range(queue'[k])) \cap Entries : Sent(e)'
      BY <1>0, <2>1, <2>8, <3>1 DEF InOrder
    <3>3. Ordered(written'[l], queue'[l])
      BY <1>6, <2>1 DEF p
    <3> QED BY <1>0, <1>2, <2>1, <3>2, <3>3 DEF InOrder
  <2> QED BY <2>4, <2>5, <2>6, <2>7, <2>9, <2>10 DEF LoggerInv
<1>9. CASE head \in Entries /\ head \notin Goroutines
  <2>1. pc' = pc /\ written' = [written EXCEPT ![l] = Append(written[l], head)]
    BY <1>1, <1>9
  <2>2. written'[l] = Append(written[l], head) /\ \A k \in Loggers : k # l => written'[k] = written[k]
    BY <2>1, <1>0 DEF LoggerTypeOK
  <2>3. \A k \in Loggers :
          /\ Range(written'[k]) \cup Range(queue'[k]) = Range(written[k]) \cup Range(queue[k])
          /\ Range(written[k]) \subseteq Range(written'[k])
    <3>1. Range(written'[l]) = Range(written[l]) \cup {head}
      BY <1>2, <1>9, <2>2, Appended
    <3> QED BY <3>1, <1>2, <1>3, <2>2 DEF p, q
  <2>4. LoggerTypeOK'
    BY <1>0, <1>1, <1>7, <1>9, <2>1 DEF LoggerTypeOK, All
  <2>5. LoggersExist'
    BY <1>0, <1>1, <1>2, <1>5, <2>1 DEF LoggersExist
  <2>6. MarkersAwaited'
    <3> SUFFICES ASSUME NEW k \in Loggers, NEW i \in 1..Len(queue'[k]), queue'[k][i] \in Goroutines
        PROVE  /\ pc[queue'[k][i]] = "awaiting" /\ lg[queue'[k][i]] = k
               /\ \A j \in 1..Len(queue'[k]) : queue'[k][j] = queue'[k][i] => j = i
      BY <2>1, <1>1 DEF MarkersAwaited
    <3>1. CASE k = l
      <4>1. i \in 1..Len(p) /\ p[i] \in Goroutines
        BY <3>1 DEF p
      <4>2. i + 1 \in 1..Len(q) /\ p[i] = q[i + 1]
        BY <1>3, <4>1
      <4>3. pc[p[i]] = "awaiting" /\ lg[p[i]] = l /\ \A j \in 1..Len(q) : q[j] = p[i] => j = i + 1
        BY <1>0, <4>1, <4>2 DEF MarkersAwaited, q
      <4>4. \A j \in 1..Len(p) : p[j] = p[i] => j = i
        BY <1>3, <4>3
      <4> QED BY <3>1, <4>3, <4>4 DEF p
    <3>2. CASE k # l
      BY <1>0, <1>2, <3>2 DEF MarkersAwaited
    <3> QED BY <3>1, <3>2
  <2>7. Guarded'
    BY <1>0, <1>1, <2>1, <2>3 DEF Guarded
  <2>8. Accounted'
    BY <1>0, <1>1, <2>1, <2>3, SMTT(30) DEF Accounted
  <2>9. InOrder'
    <3>1. \A e : Sent(e)' <=> Sent(e)
      BY <1>1, <2>1 DEF Sent
    <3>2. Ordered(written'[l], queue'[l])
      BY <1>6, <1>9, <2>2 DEF p
    <3> QED BY <1>0, <1>2, <2>2, <2>3, <3>1, <3>2 DEF InOrder
  <2> QED BY <2>4, <2>5, <2>6, <2>7, <2>8, <2>9 DEF LoggerInv
<1> QED BY <1>4, <1>8, <1>9

LEMMA CloseMarkInv == ASSUME LoggerInv, NEW g \in Goroutines, CloseMark(g) PROVE LoggerInv'
<1> USE LoggerAssumption
<1> DEFINE l == lg[g]
<1>0. /\ LoggerTypeOK /\ LoggersExist /\ MarkersAwaited /\ Guarded /\ Accounted /\ InOrder
      /\ pc[g] = "locking" /\ Readers(l) = {}
  BY DEF LoggerInv, CloseMark, MayLock
<1>1. /\ UNCHANGED <<default, mode, queue, output, accepted, written, logged>>
      /\ closed' = [closed EXCEPT ![l] = TRUE]
      /\ \/ pc' = [pc EXCEPT ![g] = "idle"] /\ lg' = [lg EXCEPT ![g] = None]
         \/ pc' = [pc EXCEPT ![g] = "draining"] /\ lg' = lg
  BY DEF CloseMark, Return, Use, Goto
<1>2. /\ l \in Loggers /\ mode[l] # "none" /\ closed'[l]
      /\ \A k \in Loggers : closed[k] => closed'[k]
      /\ \A k \in Loggers : k # l => closed'[k] = closed[k]
  BY <1>0, <1>1 DEF LoggersExist, LoggerTypeOK
<1>3. /\ \A h \in Goroutines : h # g => pc'[h] = pc[h] /\ lg'[h] = lg[h]
      /\ \/ pc'[g] = "idle"
         \/ pc'[g] = "draining" /\ lg'[g] = l
  BY <1>0, <1>1 DEF LoggerTypeOK
<1> HIDE DEF l
<1>4. LoggerTypeOK'
  <2>1. closed' \in [Loggers -> BOOLEAN]
    BY <1>0, <1>1, <1>2, PutIn DEF LoggerTypeOK
  <2>2. pc' \in [Goroutines -> Places] /\ lg' \in [Goroutines -> Loggers \cup {None}]
    <3>1. pc \in [Goroutines -> Places] /\ lg \in [Goroutines -> Loggers \cup {None}]
      BY <1>0 DEF LoggerTypeOK
    <3>2. "idle" \in Places /\ "draining" \in Places /\ None \in Loggers \cup {None}
      BY DEF Places
    <3>3. /\ [pc EXCEPT ![g] = "idle"] \in [Goroutines -> Places]
          /\ [pc EXCEPT ![g] = "draining"] \in [Goroutines -> Places]
          /\ [lg EXCEPT ![g] = None] \in [Goroutines -> Loggers \cup {None}]
      BY <3>1, <3>2
    <3> QED BY <1>1, <3>1, <3>3
  <2> QED BY <1>0, <1>1, <2>1, <2>2 DEF LoggerTypeOK
<1>5. LoggersExist'
  BY <1>0, <1>1, <1>2, <1>3 DEF LoggersExist
<1>6. MarkersAwaited'
  BY <1>0, <1>1, <1>3 DEF MarkersAwaited
<1>7. Guarded'
  <2>1. \A h \in Goroutines : pc[h] \in {"sending", "marking"} => lg[h] # l
    BY <1>0 DEF Readers
  <2>2. \A h \in Goroutines : pc[h] \notin {"idle", "create"} => lg[h] \in Loggers
    BY <1>0 DEF LoggersExist
  <2> QED BY <1>0, <1>1, <1>2, <1>3, <2>1, <2>2 DEF Guarded
<1>8. Accounted'
  <2>1. \A h \in Goroutines : pc[h] = "sending" => pc'[h] = "sending" /\ lg'[h] = lg[h]
    BY <1>0, <1>3
  <2> QED BY <1>0, <1>1, <2>1 DEF Accounted
<1>9. InOrder'
  <2>1. ASSUME NEW e \in Entries, Sent(e) PROVE Sent(e)'
    BY <2>1, <1>0, <1>1, <1>3 DEF Sent, Entries
  <2> QED BY <1>0, <1>1, <2>1 DEF InOrder
<1> QED BY <1>4, <1>5, <1>6, <1>7, <1>8, <1>9 DEF LoggerInv

(* Close shuts the file only after every entry let through is written.     *)
LEMMA CloseOutputInv == ASSUME LoggerInv, NEW g \in Goroutines, CloseOutput(g) PROVE LoggerInv'
<1> USE LoggerAssumption
<1> DEFINE l == lg[g]
<1>0. /\ LoggerTypeOK /\ LoggersExist /\ MarkersAwaited /\ Guarded /\ Accounted /\ InOrder
      /\ pc[g] = "draining" /\ queue[l] = << >>
  BY DEF LoggerInv, CloseOutput, Drained
<1>1. /\ UNCHANGED <<default, mode, closed, queue, accepted, written, logged>>
      /\ output' = [output EXCEPT ![l] = "closed"]
      /\ pc' = [pc EXCEPT ![g] = "idle"] /\ lg' = [lg EXCEPT ![g] = None]
  BY DEF CloseOutput, Return, Use, Goto
<1>2. /\ l \in Loggers /\ closed[l]
      /\ \A k \in Loggers : k # l => output'[k] = output[k]
  BY <1>0, <1>1 DEF LoggersExist, LoggerTypeOK, Guarded
<1>3. /\ \A h \in Goroutines : h # g => pc'[h] = pc[h] /\ lg'[h] = lg[h]
      /\ pc'[g] = "idle"
  BY <1>0, <1>1 DEF LoggerTypeOK
<1> HIDE DEF l
<1>4. LoggerTypeOK'
  <2>1. output' \in [Loggers -> {"open", "closed"}]
    BY <1>0, <1>1, <1>2, PutIn DEF LoggerTypeOK
  <2>2. pc' \in [Goroutines -> Places] /\ lg' \in [Goroutines -> Loggers \cup {None}]
    BY <1>0, <1>1, PutIn DEF LoggerTypeOK, Places
  <2> QED BY <1>0, <1>1, <2>1, <2>2 DEF LoggerTypeOK
<1>5. LoggersExist'
  BY <1>0, <1>1, <1>3 DEF LoggersExist
<1>6. MarkersAwaited'
  BY <1>0, <1>1, <1>3 DEF MarkersAwaited
<1>7. Guarded'
  <2>1. \A h \in Goroutines : pc[h] = "sending" => lg[h] # l
    BY <1>0, <1>2 DEF Guarded
  <2>2. Range(queue[l]) = {}
    BY <1>0 DEF Range
  <2>3. accepted[l] \subseteq Range(written[l])
    BY <1>0, <1>2, <2>1, <2>2 DEF Accounted
  <2> QED BY <1>0, <1>1, <1>2, <1>3, <2>3 DEF Guarded
<1>8. Accounted'
  <2>1. \A h \in Goroutines : pc[h] = "sending" => pc'[h] = "sending" /\ lg'[h] = lg[h]
    BY <1>0, <1>3
  <2> QED BY <1>0, <1>1, <2>1 DEF Accounted
<1>9. InOrder'
  <2>1. ASSUME NEW e \in Entries, Sent(e) PROVE Sent(e)'
    BY <2>1, <1>0, <1>1, <1>3 DEF Sent, Entries
  <2> QED BY <1>0, <1>1, <2>1 DEF InOrder
<1> QED BY <1>4, <1>5, <1>6, <1>7, <1>8, <1>9 DEF LoggerInv

LEMMA LoggerStep == ASSUME LoggerInv, [Next]_vars PROVE LoggerInv'
<1>1. CASE UNCHANGED vars
  <2>1. LoggerTypeOK' /\ LoggersExist' /\ MarkersAwaited' /\ Guarded' /\ Accounted'
    BY <1>1 DEF vars, logVars, LoggerInv, LoggerTypeOK, LoggersExist, MarkersAwaited, Guarded, Accounted
  <2>2. InOrder'
    <3>1. \A e : Sent(e)' <=> Sent(e)
      BY <1>1 DEF vars, Sent
    <3> QED BY <1>1, <3>1 DEF vars, logVars, LoggerInv, InOrder
  <2> QED BY <2>1, <2>2 DEF LoggerInv
<1>2. ASSUME NEW g \in Goroutines,
             Replace(g) \/ CloseDefault(g) \/ CloseOwn(g) \/ CloseStep(g) \/ GetDefault(g)
               \/ CreateDefault(g) \/ Disabled(g) \/ Drop(g) \/ GoOn(g) \/ Flush(g)
      PROVE  LoggerInv'
  BY <1>2, ReplaceInv, CloseDefaultInv, CloseOwnInv, GetDefaultInv, CreateDefaultInv, DisabledInv,
     DropInv, GoOnInv, FlushInv, CloseLockInv, CloseMarkInv, CloseOutputInv DEF CloseStep
<1>3. ASSUME NEW g \in Goroutines, Log(g) \/ Write(g) \/ Mark(g) PROVE LoggerInv'
  BY <1>3, LogInv, WriteInv, MarkInv
<1>4. ASSUME NEW l \in Loggers, Worker(l) PROVE LoggerInv'
  BY <1>4, WorkerInv
<1>5. CASE SetDefault
  BY <1>5, SetDefaultInv
<1> QED BY <1>1, <1>2, <1>3, <1>4, <1>5 DEF Next

-----------------------------------------------------------------------------
(* LoggerInv is inductive.                                                 *)
THEOREM LoggerAlways == Spec => []LoggerInv
<1>1. Init => LoggerInv
  BY InitLogger
<1>2. LoggerInv /\ [Next]_vars => LoggerInv'
  BY LoggerStep
<1> QED BY <1>1, <1>2, PTL DEF Spec

(* Whatever is logged, flushed and closed at the same time, no goroutine   *)
(* sends to the queue of a closed logger, which would panic, and Close     *)
(* shuts the file only after the worker has written every entry that log   *)
(* let through.                                                            *)
THEOREM NothingIsSentToAClosedLogger == Spec => []OpenWhileUsed
<1>1. LoggerInv => OpenWhileUsed
  BY DEF LoggerInv, Guarded, OpenWhileUsed, Readers
<1> QED BY <1>1, LoggerAlways, PTL

(* A file has the entries of each goroutine in the order it logged them,   *)
(* although they pass through a queue that others fill as well.            *)
THEOREM LogsAreInOrder == Spec => []WrittenInOrder
<1>1. ASSUME LoggerInv PROVE WrittenInOrder
  <2> SUFFICES ASSUME NEW l \in Loggers, NEW i \in DOMAIN written[l], NEW j \in DOMAIN written[l],
                      i < j, written[l][i][1] = written[l][j][1]
      PROVE  written[l][i][2] < written[l][j][2]
    BY DEF WrittenInOrder
  <2>1. DOMAIN written[l] = 1..Len(written[l])
    BY <1>1 DEF LoggerInv, LoggerTypeOK
  <2>2. Older(written[l][i], written[l][j])
    BY <1>1, <2>1 DEF LoggerInv, InOrder, Ordered
  <2> QED BY <2>2 DEF Older
<1> QED BY <1>1, LoggerAlways, PTL

-----------------------------------------------------------------------------
(* The refinement.  Nothing gets into a queue that was not let through.    *)
Admitted ==
  /\ \A l \in Loggers : \A i \in 1..Len(queue[l]) : queue[l][i] \in Entries => queue[l][i] \in accepted[l]
  /\ \A g \in Goroutines : pc[g] = "sending" => <<g, logged[g]>> \in accepted[lg[g]]

LEMMA AdmittedStep == ASSUME LoggerInv, Admitted, [Next]_vars PROVE Admitted'
<1> USE LoggerAssumption
<1>0. LoggerTypeOK /\ LoggersExist /\ MarkersAwaited
  BY DEF LoggerInv
<1>1. ASSUME UNCHANGED <<queue, accepted, logged>>,
             \A g \in Goroutines : pc'[g] = "sending" => pc[g] = "sending" /\ lg'[g] = lg[g]
      PROVE  Admitted'
  BY <1>1 DEF Admitted
<1>2. CASE UNCHANGED vars
  BY <1>1, <1>2 DEF vars, logVars
<1>3. ASSUME NEW g \in Goroutines, UNCHANGED <<queue, accepted>>,
             \A h \in Goroutines : pc'[h] = "sending" => h # g /\ pc[h] = "sending",
             \A h \in Goroutines : h # g => lg'[h] = lg[h] /\ logged'[h] = logged[h]
      PROVE  Admitted'
  BY <1>3 DEF Admitted
<1>4. ASSUME NEW g \in Goroutines,
             Replace(g) \/ CloseDefault(g) \/ CloseOwn(g) \/ GetDefault(g) \/ CreateDefault(g)
      PROVE  Admitted'
  <2>1. /\ UNCHANGED <<queue, accepted, logged>> /\ pc[g] # "sending"
        /\ \/ UNCHANGED <<pc, lg>>
           \/ \E l, p : pc' = [pc EXCEPT ![g] = p] /\ p # "sending" /\ (lg' = lg \/ lg' = [lg EXCEPT ![g] = l])
    BY <1>4 DEF Replace, CloseDefault, CloseOwn, GetDefault, CreateDefault, Use, Goto, logVars
  <2>2. \A h \in Goroutines : pc'[h] = "sending" => pc[h] = "sending" /\ lg'[h] = lg[h]
    BY <1>0, <2>1 DEF LoggerTypeOK
  <2> QED BY <1>1, <2>1, <2>2
<1>5. ASSUME NEW g \in Goroutines,
             Disabled(g) \/ Drop(g) \/ GoOn(g) \/ Flush(g) \/ CloseStep(g)
      PROVE  Admitted'
  <2>1. /\ UNCHANGED <<queue, accepted>>
        /\ \E l, p : pc' = [pc EXCEPT ![g] = p] /\ p # "sending" /\ (lg' = lg \/ lg' = [lg EXCEPT ![g] = l])
        /\ logged' = logged \/ logged' = [logged EXCEPT ![g] = logged[g] + 1]
    BY <1>5 DEF Disabled, Drop, GoOn, Flush, CloseStep, CloseLock, CloseMark, CloseOutput, Return, Use, Goto, logVars
  <2>2. \A h \in Goroutines : pc'[h] = "sending" => h # g /\ pc[h] = "sending"
    BY <1>0, <2>1 DEF LoggerTypeOK
  <2>3. \A h \in Goroutines : h # g => lg'[h] = lg[h] /\ logged'[h] = logged[h]
    BY <1>0, <2>1 DEF LoggerTypeOK
  <2> QED BY <1>3, <2>1, <2>2, <2>3
<1>6. ASSUME NEW g \in Goroutines, Log(g) PROVE Admitted'
  <2>1. /\ UNCHANGED <<queue, lg>> /\ lg[g] \in Loggers
        /\ pc' = [pc EXCEPT ![g] = "sending"] /\ logged' = [logged EXCEPT ![g] = logged[g] + 1]
        /\ accepted' = [accepted EXCEPT ![lg[g]] = accepted[lg[g]] \cup {<<g, logged[g] + 1>>}]
    BY <1>0, <1>6 DEF Log, Goto, LoggersExist
  <2>2. \A l \in Loggers : accepted[l] \subseteq accepted'[l]
    BY <1>0, <2>1 DEF LoggerTypeOK
  <2>3. ASSUME NEW h \in Goroutines, pc'[h] = "sending" PROVE <<h, logged'[h]>> \in accepted'[lg'[h]]
    <3>1. CASE h = g
      BY <1>0, <2>1, <3>1 DEF LoggerTypeOK
    <3>2. CASE h # g
      <4>1. pc[h] = "sending" /\ logged'[h] = logged[h] /\ lg'[h] = lg[h] /\ lg[h] \in Loggers
        BY <1>0, <2>1, <2>3, <3>2 DEF LoggerTypeOK, LoggersExist
      <4>2. <<h, logged[h]>> \in accepted[lg[h]]
        BY <4>1 DEF Admitted
      <4> QED BY <2>2, <4>1, <4>2
    <3> QED BY <3>1, <3>2
  <2> QED BY <2>1, <2>2, <2>3 DEF Admitted
<1>7. ASSUME NEW g \in Goroutines, Write(g) \/ Mark(g) PROVE Admitted'
  <2> DEFINE l == lg[g]
             x == IF pc[g] = "sending" THEN <<g, logged[g]>> ELSE g
  <2>1. /\ UNCHANGED <<accepted, logged, lg>> /\ l \in Loggers
        /\ pc[g] \in {"sending", "marking"} /\ pc' = [pc EXCEPT ![g] = IF pc[g] = "sending" THEN "logged" ELSE "awaiting"]
        /\ queue' = queue \/ queue' = [queue EXCEPT ![l] = Append(queue[l], x)]
    BY <1>0, <1>7 DEF Write, Mark, Goto, LoggersExist
  <2>2. \A h \in Goroutines : pc'[h] = "sending" => pc[h] = "sending"
    BY <1>0, <2>1 DEF LoggerTypeOK
  <2>3. x \in Entries => x \in accepted[l]
    <3>1. g \notin Entries
      BY DEF LoggerAssumption, Entries
    <3> QED BY <2>1, <3>1 DEF Admitted
  <2>4. x \in Entries \cup Goroutines
    <3>1. logged[g] \in Nat
      BY <1>0 DEF LoggerTypeOK
    <3> QED BY <3>1 DEF Entries
  <2> HIDE DEF x
  <2>5. ASSUME NEW k \in Loggers, NEW i \in 1..Len(queue'[k]), queue'[k][i] \in Entries
        PROVE  queue'[k][i] \in accepted[k]
    <3>1. CASE k # l \/ queue' = queue
      <4>1. queue'[k] = queue[k]
        BY <1>0, <2>1, <3>1 DEF LoggerTypeOK
      <4> QED BY <2>5, <4>1 DEF Admitted
    <3>2. CASE k = l /\ queue' # queue
      <4>1. queue'[l] = Append(queue[l], x) /\ queue[l] \in Seq(Entries \cup Goroutines)
        BY <1>0, <2>1, <3>2 DEF LoggerTypeOK
      <4>2. /\ Len(queue'[l]) = Len(queue[l]) + 1 /\ \A j \in 1..Len(queue[l]) : queue'[l][j] = queue[l][j]
            /\ queue'[l][Len(queue[l]) + 1] = x
            /\ \A j \in 1..(Len(queue[l]) + 1) : j \in 1..Len(queue[l]) \/ j = Len(queue[l]) + 1
        BY <2>4, <4>1, Appended
      <4>3. CASE i = Len(queue[l]) + 1
        BY <2>3, <2>5, <3>2, <4>2, <4>3
      <4>4. CASE i \in 1..Len(queue[l])
        BY <2>1, <2>5, <3>2, <4>2, <4>4 DEF Admitted
      <4> QED BY <2>5, <3>2, <4>2, <4>3, <4>4
    <3> QED BY <3>1, <3>2
  <2> QED BY <2>1, <2>2, <2>5 DEF Admitted
<1>8. ASSUME NEW l \in Loggers, Worker(l) PROVE Admitted'
  <2>1. /\ UNCHANGED <<accepted, logged, lg>> /\ queue' = [queue EXCEPT ![l] = Tail(queue[l])]
        /\ queue[l] # << >> /\ queue[l] \in Seq(Entries \cup Goroutines)
        /\ pc' = pc \/ pc' = [pc EXCEPT ![Head(queue[l])] = "flushed"]
    BY <1>0, <1>8 DEF Worker, WorkerRuns, Goto, LoggerTypeOK
  <2>2. \A h \in Goroutines : pc'[h] = "sending" => pc[h] = "sending"
    BY <1>0, <2>1 DEF LoggerTypeOK
  <2>3. \A i \in 1..Len(Tail(queue[l])) : i + 1 \in 1..Len(queue[l]) /\ Tail(queue[l])[i] = queue[l][i + 1]
    BY <2>1, Taken
  <2>4. queue'[l] = Tail(queue[l]) /\ \A k \in Loggers : k # l => queue'[k] = queue[k]
    BY <1>0, <2>1 DEF LoggerTypeOK
  <2>5. ASSUME NEW k \in Loggers, NEW i \in 1..Len(queue'[k]), queue'[k][i] \in Entries
        PROVE  queue'[k][i] \in accepted[k]
    <3>1. CASE k = l
      <4>1. i \in 1..Len(Tail(queue[l])) /\ queue'[k][i] = Tail(queue[l])[i]
        BY <2>4, <2>5, <3>1
      <4>2. i + 1 \in 1..Len(queue[l]) /\ queue[l][i + 1] = queue'[k][i]
        BY <2>3, <4>1
      <4> QED BY <2>5, <3>1, <4>2 DEF Admitted
    <3>2. CASE k # l
      BY <2>4, <2>5, <3>2 DEF Admitted
    <3> QED BY <3>1, <3>2
  <2> QED BY <2>1, <2>2, <2>5 DEF Admitted
<1>9. CASE SetDefault
  BY <1>1, <1>9 DEF SetDefault, logVars
<1> QED BY <1>2, <1>4, <1>5, <1>6, <1>7, <1>8, <1>9 DEF Next

LEMMA AdmittedAlways == Spec => []Admitted
<1>1. Init => Admitted
  <2> SUFFICES ASSUME Init PROVE Admitted
    OBVIOUS
  <2>1. \A l \in Loggers : Len(queue[l]) = 0
    BY DEF Init
  <2>2. \A g \in Goroutines : pc[g] # "sending"
    BY DEF Init
  <2> QED BY <2>1, <2>2 DEF Admitted
<1>2. LoggerInv /\ Admitted /\ [Next]_vars => Admitted'
  BY AdmittedStep
<1> QED BY <1>1, <1>2, LoggerAlways, PTL DEF Spec

(* What Book is instantiated with.                                         *)
Left == [l \in Loggers |-> accepted[l] \ Range(written[l])]
Phase == [l \in Loggers |-> IF output[l] = "closed" THEN "over"
                            ELSE IF closed[l] THEN "ending" ELSE "open"]

LEMMA BookStutters ==
  ASSUME UNCHANGED <<accepted, written, Phase>> PROVE [Book!Next]_(Book!vars)
BY DEF Book!vars, Phase

LEMMA BookMoves ==
  ASSUME NEW b \in Loggers, Book!Write(b) \/ Book!End(b) \/ Book!Shut(b)
  PROVE  [Book!Next]_(Book!vars)
BY DEF Book!Next

LEMMA BookTakes ==
  ASSUME NEW b \in Loggers, NEW e \in Left'[b], Book!Accept(b, e) PROVE [Book!Next]_(Book!vars)
<1>1. Left'[b] = accepted'[b] \ Range(written'[b])
  BY DEF Left
<1> QED BY <1>1 DEF Book!Next

(* log: what is let through is younger than all that was.                  *)
LEMMA LogSimulates ==
  ASSUME LoggerInv, NEW g \in Goroutines, Log(g) PROVE [Book!Next]_(Book!vars)
<1> SUFFICES ASSUME NEW l \in Loggers, l = lg[g], NEW e, e = <<g, logged[g] + 1>>
             PROVE  [Book!Next]_(Book!vars)
  BY DEF LoggerInv, LoggersExist, Log
<1>0. /\ LoggerTypeOK /\ pc[g] = "log" /\ logged[g] \in Nat /\ ~closed[l]
      /\ output[l] # "closed"
  BY DEF LoggerInv, Log, LoggersExist, LoggerTypeOK, Guarded
<1>1. /\ UNCHANGED <<closed, queue, output, written>>
      /\ accepted' = [accepted EXCEPT ![l] = accepted[l] \cup {e}]
  BY DEF Log
<1>2. \A f \in Entries : Sent(f) => Older(f, e) /\ f # e
  BY <1>0 DEF Entries, Sent, Older
<1>3. \A f \in Range(written[l]) : Older(f, e) /\ f # e
  <2>1. Range(written[l]) \subseteq Entries
    <3>1. written[l] \in Seq(Entries)
      BY <1>0 DEF LoggerTypeOK
    <3>2. Range(written[l]) = {written[l][i] : i \in 1..Len(written[l])}
      BY <3>1, RangeOf
    <3> QED BY <3>1, <3>2
  <2> QED BY <1>0, <1>2, <2>1 DEF LoggerInv, InOrder
<1>4. \A f \in Left[l] : Older(f, e)
  <2> SUFFICES ASSUME NEW f \in accepted[l], f \notin Range(written[l]) PROVE Older(f, e)
    BY <1>0 DEF Left
  <2>1. CASE f \in Range(queue[l])
    <3>1. f \in Entries
      BY <1>0 DEF LoggerTypeOK
    <3> QED BY <1>0, <1>2, <2>1, <3>1 DEF LoggerInv, InOrder
  <2>2. CASE \E h \in Goroutines : pc[h] = "sending" /\ f = <<h, logged[h]>>
    <3>1. PICK h \in Goroutines : pc[h] = "sending" /\ f = <<h, logged[h]>>
      BY <2>2
    <3>2. h # g
      BY <1>0, <3>1
    <3> QED BY <3>1, <3>2 DEF Older
  <2> QED BY <1>0, <2>1, <2>2 DEF LoggerInv, Accounted
<1>5. Left' = [Left EXCEPT ![l] = Left[l] \cup {e}]
  <2>1. accepted'[l] = accepted[l] \cup {e} /\ \A k \in Loggers : k # l => accepted'[k] = accepted[k]
    BY <1>0, <1>1 DEF LoggerTypeOK
  <2>2. (accepted[l] \cup {e}) \ Range(written[l]) = (accepted[l] \ Range(written[l])) \cup {e}
    BY <1>3
  <2> QED BY <1>0, <1>1, <2>1, <2>2 DEF Left
<1>6. Phase' = Phase /\ Phase[l] = "open"
  BY <1>0, <1>1 DEF Phase
<1>7. Book!Accept(l, e)
  <2>1. \A i \in 1..Len(written[l]) : Book!Older(written[l][i], e)
    <3>1. \A i \in 1..Len(written[l]) : written[l][i] \in Range(written[l])
      BY <1>0, RangeOf DEF LoggerTypeOK
    <3> QED BY <1>3, <3>1 DEF Older, Book!Older
  <2>2. \A f \in Left[l] : Book!Older(f, e)
    BY <1>4 DEF Older, Book!Older
  <2> QED BY <1>1, <1>5, <1>6, <2>1, <2>2 DEF Book!Accept, Left, Phase
<1>8. e \in Left'[l]
  BY <1>0, <1>5 DEF Left
<1> QED BY <1>0, <1>7, <1>8, BookTakes

(* An entry gets into the file: the oldest that is left of its goroutine.  *)
LEMMA WritingSimulates ==
  ASSUME LoggerInv, NEW l \in Loggers, NEW e \in accepted[l], e \notin Range(written[l]),
         \A f \in accepted[l] : f \notin Range(written[l]) /\ f # e => Older(e, f),
         UNCHANGED <<accepted, closed, output>>,
         written' = [written EXCEPT ![l] = Append(written[l], e)]
  PROVE  [Book!Next]_(Book!vars)
<1>1. written \in [Loggers -> Seq(Entries)] /\ e \in Entries /\ written[l] \in Seq(Entries)
  BY DEF LoggerInv, LoggerTypeOK
<1>2. /\ Range(written'[l]) = Range(written[l]) \cup {e}
      /\ \A k \in Loggers : k # l => written'[k] = written[k]
  BY <1>1, Appended
<1>3. Left' = [Left EXCEPT ![l] = Left[l] \ {e}]
  BY <1>2 DEF Left
<1>4. Phase' = Phase
  BY DEF Phase
<1>5. e \in Left[l] /\ \A f \in Left[l] \ {e} : Book!Older(e, f)
  BY DEF Left, Older, Book!Older
<1>6. Book!Write(l)
  BY <1>3, <1>4, <1>5 DEF Book!Write, Left, Phase
<1> QED BY <1>6, BookMoves

LEMMA WriteSimulates ==
  ASSUME LoggerInv, Admitted, NEW g \in Goroutines, Write(g) PROVE [Book!Next]_(Book!vars)
<1> SUFFICES ASSUME NEW l \in Loggers, l = lg[g], NEW e, e = <<g, logged[g]>>
             PROVE  [Book!Next]_(Book!vars)
  BY DEF LoggerInv, LoggersExist, Write
<1>1. /\ LoggerTypeOK /\ LoggersExist /\ pc[g] = "sending" /\ logged[g] \in Nat
      /\ UNCHANGED <<accepted, closed, output>>
  BY DEF LoggerInv, LoggersExist, LoggerTypeOK, Write
<1>2. CASE written' = written
  BY <1>1, <1>2, BookStutters DEF Phase
<1>3. CASE written' # written
  <2>1. mode[l] = "sync" /\ written' = [written EXCEPT ![l] = Append(written[l], e)]
    BY <1>3 DEF Write, Direct
  <2>2. Range(queue[l]) = {}
    BY <1>1, <2>1 DEF LoggersExist, Range
  <2>3. e \in accepted[l]
    BY <1>1 DEF Admitted
  <2>4. e \notin Range(written[l])
    <3>1. ~Sent(e) /\ e \in Entries
      BY <1>1 DEF Sent, Entries
    <3> QED BY <1>1, <3>1 DEF LoggerInv, InOrder
  <2>5. ASSUME NEW f \in accepted[l], f \notin Range(written[l]), f # e PROVE Older(e, f)
    <3>1. PICK h \in Goroutines : pc[h] = "sending" /\ f = <<h, logged[h]>>
      BY <1>1, <2>2, <2>5 DEF LoggerInv, Accounted
    <3>2. h # g
      BY <2>5, <3>1
    <3> QED BY <3>1, <3>2 DEF Older
  <2> QED BY <1>1, <2>1, <2>3, <2>4, <2>5, WritingSimulates
<1> QED BY <1>2, <1>3

LEMMA WorkerSimulates ==
  ASSUME LoggerInv, Admitted, NEW l \in Loggers, Worker(l) PROVE [Book!Next]_(Book!vars)
<1> SUFFICES ASSUME NEW e, e = Head(queue[l]) PROVE [Book!Next]_(Book!vars)
  OBVIOUS
<1>1. /\ LoggerTypeOK /\ queue[l] # << >> /\ queue[l] \in Seq(Entries \cup Goroutines)
      /\ written[l] \in Seq(Entries)
      /\ UNCHANGED <<accepted, closed, output>>
  BY DEF LoggerInv, LoggerTypeOK, Worker, WorkerRuns
<1>2. CASE e \in Goroutines
  <2>1. written' = written
    BY <1>2 DEF Worker
  <2> QED BY <1>1, <2>1, BookStutters DEF Phase
<1>3. CASE e \notin Goroutines
  <2>1. written' = [written EXCEPT ![l] = Append(written[l], e)]
    BY <1>3 DEF Worker
  <2>2. 1 \in 1..Len(queue[l]) /\ e = queue[l][1] /\ e \in Entries
    BY <1>1, <1>3, Taken
  <2>3. e \in accepted[l]
    BY <2>2 DEF Admitted
  <2>4. Ordered(written[l], queue[l])
    BY DEF LoggerInv, InOrder
  <2>5. e[1] \in Goroutines /\ e[2] \in Nat
    BY <2>2 DEF Entries
  <2>6. e \notin Range(written[l])
    <3>1. \A i \in 1..Len(written[l]) : written[l][i] # e
      BY <2>2, <2>4, <2>5 DEF Ordered, Older
    <3> QED BY <1>1, <3>1, RangeOf
  <2>7. ASSUME NEW f \in accepted[l], f \notin Range(written[l]), f # e PROVE Older(e, f)
    <3>1. CASE f \in Range(queue[l])
      <4>1. f \in Entries
        BY <1>1 DEF LoggerTypeOK
      <4>2. PICK j \in 1..Len(queue[l]) : f = queue[l][j]
        BY <1>1, <3>1, RangeOf
      <4>3. 1 < j /\ j \in 1..Len(queue[l])
        BY <2>2, <2>7, <4>2
      <4> QED BY <2>2, <2>4, <4>1, <4>2, <4>3 DEF Ordered
    <3>2. CASE \E h \in Goroutines : pc[h] = "sending" /\ f = <<h, logged[h]>>
      <4>1. PICK h \in Goroutines : pc[h] = "sending" /\ f = <<h, logged[h]>>
        BY <3>2
      <4>2. Sent(e)
        <5>1. e \in Range(queue[l])
          BY <1>1, <2>2, RangeOf
        <5> QED BY <2>2, <5>1 DEF LoggerInv, InOrder
      <4> QED BY <4>1, <4>2 DEF Older, Sent
    <3> QED BY <2>7, <3>1, <3>2 DEF LoggerInv, Accounted
  <2> QED BY <1>1, <2>1, <2>3, <2>6, <2>7, WritingSimulates
<1> QED BY <1>2, <1>3

(* Close marks the logger, and shuts its file when nothing is left.        *)
LEMMA CloseMarkSimulates ==
  ASSUME LoggerInv, NEW g \in Goroutines, CloseMark(g) PROVE [Book!Next]_(Book!vars)
<1> SUFFICES ASSUME NEW l \in Loggers, l = lg[g] PROVE [Book!Next]_(Book!vars)
  BY DEF LoggerInv, LoggersExist, CloseMark
<1>1. /\ LoggerTypeOK /\ closed' = [closed EXCEPT ![l] = TRUE]
      /\ UNCHANGED <<accepted, written, output>>
      /\ \A k \in Loggers : output[k] = "closed" => closed[k]
  BY DEF LoggerInv, LoggersExist, LoggerTypeOK, Guarded, CloseMark
<1>2. closed'[l] = TRUE /\ \A k \in Loggers : k # l => closed'[k] = closed[k]
  BY <1>1 DEF LoggerTypeOK
<1>3. CASE closed[l]
  <2>1. \A k \in Loggers : closed'[k] <=> closed[k]
    BY <1>2, <1>3
  <2>2. Phase' = Phase
    BY <1>1, <2>1 DEF Phase
  <2> QED BY <1>1, <2>2, BookStutters
<1>4. CASE ~closed[l]
  <2>1. output[l] # "closed"
    BY <1>1, <1>4
  <2>2. Phase[l] = "open" /\ Phase' = [Phase EXCEPT ![l] = "ending"]
    BY <1>1, <1>2, <1>4, <2>1 DEF Phase
  <2>3. Left' = Left
    BY <1>1 DEF Left
  <2>4. Book!End(l)
    BY <1>1, <2>2, <2>3 DEF Book!End, Left, Phase
  <2> QED BY <1>1, <2>4, BookMoves
<1> QED BY <1>3, <1>4

LEMMA CloseOutputSimulates ==
  ASSUME LoggerInv, NEW g \in Goroutines, CloseOutput(g) PROVE [Book!Next]_(Book!vars)
<1> SUFFICES ASSUME NEW l \in Loggers, l = lg[g] PROVE [Book!Next]_(Book!vars)
  BY DEF LoggerInv, LoggersExist, CloseOutput
<1>1. /\ LoggerTypeOK /\ closed[l] /\ queue[l] = << >>
      /\ output' = [output EXCEPT ![l] = "closed"]
      /\ UNCHANGED <<accepted, written, closed>>
  BY DEF LoggerInv, LoggersExist, LoggerTypeOK, Guarded, CloseOutput, Drained
<1>2. accepted[l] \subseteq Range(written[l])
  <2>1. \A h \in Goroutines : pc[h] = "sending" => lg[h] # l
    BY <1>1 DEF LoggerInv, Guarded
  <2>2. Range(queue[l]) = {}
    BY <1>1 DEF Range
  <2> QED BY <1>1, <2>1, <2>2 DEF LoggerInv, Accounted
<1>3. output'[l] = "closed" /\ \A k \in Loggers : k # l => output'[k] = output[k]
  BY <1>1 DEF LoggerTypeOK
<1>4. CASE output[l] = "closed"
  <2>1. Phase' = Phase
    BY <1>1, <1>3, <1>4 DEF Phase
  <2> QED BY <1>1, <2>1, BookStutters
<1>5. CASE output[l] # "closed"
  <2>1. Phase[l] = "ending" /\ Phase' = [Phase EXCEPT ![l] = "over"]
    BY <1>1, <1>3, <1>5 DEF Phase
  <2>2. Left' = Left /\ Left[l] = {}
    BY <1>1, <1>2 DEF Left
  <2>3. Book!Shut(l)
    BY <1>1, <2>1, <2>2 DEF Book!Shut, Left, Phase
  <2> QED BY <1>1, <2>3, BookMoves
<1> QED BY <1>4, <1>5

LEMMA LoggerSimulates ==
  ASSUME LoggerInv, Admitted, [Next]_vars PROVE [Book!Next]_(Book!vars)
<1>1. CASE UNCHANGED <<accepted, written, output, closed>>
  BY <1>1, BookStutters DEF Phase
<1>2. ASSUME NEW g \in Goroutines, Log(g) \/ Write(g) \/ CloseMark(g) \/ CloseOutput(g)
      PROVE  [Book!Next]_(Book!vars)
  BY <1>2, LogSimulates, WriteSimulates, CloseMarkSimulates, CloseOutputSimulates
<1>3. ASSUME NEW l \in Loggers, Worker(l) PROVE [Book!Next]_(Book!vars)
  BY <1>3, WorkerSimulates
<1>4. ASSUME NEW g \in Goroutines,
             Replace(g) \/ CloseDefault(g) \/ CloseOwn(g) \/ CloseLock(g) \/ GetDefault(g)
               \/ CreateDefault(g) \/ Disabled(g) \/ Drop(g) \/ GoOn(g) \/ Flush(g) \/ Mark(g)
      PROVE  UNCHANGED <<accepted, written, output, closed>>
  BY <1>4 DEF Replace, CloseDefault, CloseOwn, CloseLock, GetDefault, CreateDefault, Disabled, Drop,
     GoOn, Flush, Mark, logVars
<1>5. SetDefault \/ UNCHANGED vars => UNCHANGED <<accepted, written, output, closed>>
  BY DEF SetDefault, vars, logVars
<1> QED BY <1>1, <1>2, <1>3, <1>4, <1>5 DEF Next, CloseStep

(* Through queues, locks, flushes, replacements and closes, the loggers    *)
(* are the book that LogBook describes: each entry let through is written  *)
(* once and after its predecessors, files only grow, and a file is shut    *)
(* when it has everything.  (logger/logger.go:198-529.)                    *)
THEOREM LoggersKeepTheBook == Spec => ImplementsBook
<1>1. Init => Book!Init
  <2> SUFFICES ASSUME Init PROVE Book!Init
    OBVIOUS
  <2>1. Left = [l \in Loggers |-> {}] /\ Phase = [l \in Loggers |-> "open"]
    BY DEF Init, Left, Phase
  <2>2. written = [l \in Loggers |-> << >>]
    BY DEF Init
  <2> QED BY <2>1, <2>2 DEF Book!Init, Left, Phase
<1>2. LoggerInv /\ Admitted /\ [Next]_vars => [Book!Next]_(Book!vars)
  BY LoggerSimulates
<1> QED BY <1>1, <1>2, LoggerAlways, AdmittedAlways, PTL DEF Spec, ImplementsBook, Book!Spec
=============================================================================
