----------------------------- MODULE RateLimiters -----------------------------
(***************************************************************************)
(* The token bucket and the sliding window of resilience/ratelimit.go, and *)
(* the callers of their AllowN and WaitN.  `kind' says which of the two a  *)
(* behaviour is about.  Time is a clock of ticks; the bucket gains Rate    *)
(* tokens a tick, and tokens are whole at every tick.  Between two ticks   *)
(* any number of callers come by, in any order: the mutex of the limiter   *)
(* makes AllowN atomic.                                                    *)
(***************************************************************************)
EXTENDS Naturals, Sequences, FiniteSets

CONSTANTS
  Callers,     \* goroutines that ask for tokens
  Capacity,    \* maxTokens, maxReqs
  Rate,        \* refillRate per tick
  Window,      \* windowSize in ticks
  Amounts,     \* numbers of tokens a caller may ask for
  MaxTime      \* bound: ticks in a behaviour

LimiterAssumption == Capacity \in Nat /\ Rate \in Nat /\ Window \in Nat

VARIABLES
  kind,        \* "bucket" or "window"
  now,         \* time.Now
  tokens,      \* TokenBucketLimiter.tokens
  lastRefill,
  timestamps,  \* SlidingWindowLimiter.timestamps
  waiting,     \* per caller: the tokens its WaitN waits for, 0 for none
  granted      \* history: the time of every token that was handed out

limiter == <<tokens, lastRefill, timestamps>>
vars == <<kind, now, limiter, waiting, granted>>

Init ==
  /\ kind \in {"bucket", "window"}
  /\ now = 0
  /\ tokens = Capacity /\ lastRefill = 0
  /\ timestamps = <<>>
  /\ waiting = [p \in Callers |-> 0]
  /\ granted = <<>>

(* refill and cleanup.                                                     *)
Refilled ==
  LET t == tokens + (now - lastRefill) * Rate IN IF t > Capacity THEN Capacity ELSE t

(* cleanup drops timestamps up to the first that is in the window, which   *)
(* reaches back from now.  Mutant: it drops those of a tick too many.      *)
InWindowTooFew(t) == t + Window > now + 1
InWindow(t) == t + Window > now

FirstKept ==
  CHOOSE i \in 1..(Len(timestamps) + 1) :
    /\ i <= Len(timestamps) => InWindow(timestamps[i])
    /\ \A j \in 1..(i - 1) : ~InWindow(timestamps[j])
Kept == SubSeq(timestamps, FirstKept, Len(timestamps))

(* AllowN(n): what it does to the limiter, and whether it says yes.        *)
BucketAllows(n) ==
  /\ kind = "bucket"
  /\ n \in 1..Capacity /\ Refilled >= n
  /\ tokens' = Refilled - n
  /\ lastRefill' = now
  /\ UNCHANGED timestamps
WindowAllows(n) ==
  /\ kind = "window"
  /\ n \in 1..Capacity /\ Len(Kept) + n <= Capacity
  /\ timestamps' = Kept \o [i \in 1..n |-> now]
  /\ UNCHANGED <<tokens, lastRefill>>
Allows(n) ==
  /\ BucketAllows(n) \/ WindowAllows(n)
  /\ granted' = granted \o [i \in 1..n |-> now]

(* A refusal has refilled or cleaned up all the same, unless the amount is *)
(* one that can never be had.                                              *)
Refuses(n) ==
  /\ UNCHANGED granted
  /\ \/ n \notin 1..Capacity /\ UNCHANGED limiter
     \/ /\ n \in 1..Capacity /\ kind = "bucket" /\ Refilled < n
        /\ tokens' = Refilled /\ lastRefill' = now
        /\ UNCHANGED timestamps
     \/ /\ n \in 1..Capacity /\ kind = "window" /\ Len(Kept) + n > Capacity
        /\ timestamps' = Kept
        /\ UNCHANGED <<tokens, lastRefill>>

(* AllowN, also by the middleware's Check when it does not block.          *)
AllowN(p, n) ==
  /\ waiting[p] = 0
  /\ Allows(n) \/ Refuses(n)
  /\ UNCHANGED <<kind, now, waiting>>

(* WaitN: an amount beyond the capacity is refused at once; otherwise a    *)
(* ticker asks AllowN until it agrees or the context ends.                 *)
BeginWaitN(p, n) ==
  /\ waiting[p] = 0 /\ n \in 1..Capacity
  /\ waiting' = [waiting EXCEPT ![p] = n]
  /\ UNCHANGED <<kind, now, limiter, granted>>
Poll(p) ==
  /\ waiting[p] # 0
  /\ \/ Allows(waiting[p]) /\ waiting' = [waiting EXCEPT ![p] = 0]
     \/ Refuses(waiting[p]) /\ UNCHANGED waiting
  /\ UNCHANGED <<kind, now>>
ContextEnds(p) ==
  /\ waiting[p] # 0
  /\ waiting' = [waiting EXCEPT ![p] = 0]
  /\ UNCHANGED <<kind, now, limiter, granted>>

Tick ==
  /\ now < MaxTime
  /\ now' = now + 1
  /\ UNCHANGED <<kind, limiter, waiting, granted>>

Next ==
  \/ Tick
  \/ \E p \in Callers : Poll(p) \/ ContextEnds(p)
  \/ \E p \in Callers, n \in Amounts : AllowN(p, n) \/ BeginWaitN(p, n)

Spec == Init /\ [][Next]_vars

----------------------------------------------------------------------------
Between(s, t) == Cardinality({i \in DOMAIN granted : granted[i] \in s..t})

(* The limit a limiter exists for, against a reference that knows only the *)
(* times at which tokens were handed out: in any span of time a bucket     *)
(* hands out no more than its capacity and what flowed in meanwhile, and   *)
(* in any span of the window's length a window no more than its capacity,  *)
(* also where spans straddle several refills and clean-ups.                *)
(* (resilience/ratelimit.go:55-88 and 144-181.)                            *)
LimitHolds ==
  \A s, t \in 0..now :
     s <= t => CASE kind = "bucket" -> Between(s, t) <= Capacity + (t - s) * Rate
                 [] kind = "window" -> t < s + Window => Between(s, t) <= Capacity
=============================================================================
