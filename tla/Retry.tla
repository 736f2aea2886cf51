-------------------------------- MODULE Retry --------------------------------
(***************************************************************************)
(* The retry loop and the backoff of resilience/retry.go.  Durations have  *)
(* a largest value, beyond which they overflow; the multiplier is two, as  *)
(* in DefaultRetryConfig, and jitter adds anything up to the delay itself  *)
(* (a Jitter of 1).                                                        *)
(***************************************************************************)
EXTENDS Integers, Sequences

CONSTANTS
  MaxAttempts,
  InitialDelays,  \* configured initial delays
  MaxDelays,      \* configured maximal delays
  Largest         \* the largest time.Duration

RetryAssumption ==
  /\ MaxAttempts \in Nat \ {0} /\ Largest \in Nat \ {0}
  /\ InitialDelays \subseteq 1..Largest /\ MaxDelays \subseteq 1..Largest

VARIABLES
  initial,     \* config.InitialDelay
  max,         \* config.MaxDelay
  jitter,      \* whether config.Jitter is above zero
  attempt,     \* calls of the function so far
  outcomes,    \* history: what they returned: "ok", "retry", "final"
  delay,       \* the loop's delay
  waits,       \* history: the delays waited for
  cancelled,   \* whether the context has ended
  result       \* "running", or what DoWithResult has returned

config == <<initial, max, jitter>>
vars == <<config, attempt, outcomes, delay, waits, cancelled, result>>

Multiplier == 2
Power[n \in Nat] == IF n = 0 THEN 1 ELSE Multiplier * Power[n - 1]

(* A sum or product of durations that is too large wraps around; a float   *)
(* that is becomes the smallest one (on amd64).                            *)
Wrapped(x) == ((x + Largest + 1) % (2 * (Largest + 1))) - Largest - 1
FromFloat(x) == IF x \in -Largest - 1..Largest THEN x ELSE -Largest - 1

(* NewRetryer and the beginning of DoWithResult: the first delay is taken  *)
(* as configured.                                                          *)
Init ==
  /\ initial \in InitialDelays /\ max \in MaxDelays /\ jitter \in BOOLEAN
  /\ attempt = 0 /\ outcomes = <<>>
  /\ delay = initial
  /\ waits = <<>> /\ cancelled = FALSE /\ result = "running"

Ready == result = "running" /\ Len(waits) = attempt

(* One call of the function, and what the loop makes of its outcome.       *)
Stops(outcome) == outcome # "retry" \/ attempt + 1 = MaxAttempts

Attempt(outcome) ==
  /\ Ready
  /\ attempt' = attempt + 1
  /\ outcomes' = Append(outcomes, outcome)
  /\ result' = IF ~Stops(outcome) THEN "running"
               ELSE IF outcome = "ok" THEN "nil" ELSE "error"
  /\ UNCHANGED <<config, delay, waits, cancelled>>

(* calculateDelay, the wait, and the delay of the next one.                *)
Jittered(d) == IF jitter THEN {Wrapped(w) : w \in (d..(2 * d)) \cup ((2 * d)..d)} ELSE {d}
GrownUncapped(d) == FromFloat(d * Multiplier)
Grown(d) == IF FromFloat(d * Multiplier) > max THEN max ELSE FromFloat(d * Multiplier)

Wait ==
  /\ result = "running" /\ Len(waits) < attempt
  /\ \E w \in Jittered(delay) : waits' = Append(waits, w)
  /\ delay' = Grown(delay)
  /\ UNCHANGED <<config, attempt, outcomes, cancelled, result>>

(* The context ends during the wait.                                       *)
CancelledWait ==
  /\ result = "running" /\ Len(waits) < attempt /\ cancelled
  /\ result' = "cancelled"
  /\ UNCHANGED <<config, attempt, outcomes, delay, waits, cancelled>>

Cancel ==
  /\ ~cancelled /\ cancelled' = TRUE
  /\ UNCHANGED <<config, attempt, outcomes, delay, waits, result>>

Next ==
  \/ \E o \in {"ok", "retry", "final"} : Attempt(o)
  \/ Wait \/ CancelledWait \/ Cancel

Spec == Init /\ [][Next]_vars

----------------------------------------------------------------------------
(* Backoff: a delay computed from the number of the attempt alone.         *)
Backoff(policy, start, cap, n) ==
  LET d == CASE policy = "constant"    -> start
             [] policy = "linear"      -> Wrapped(start * n)
             [] policy = "exponential" -> FromFloat(start * Power[n - 1])
  IN IF cap > 0 /\ d > cap THEN cap ELSE d

(* The loop's delays overflow only if twice the cap or twice the first     *)
(* delay does, those of Backoff when the uncapped one does.                *)
LoopFits == 2 * max <= Largest /\ 2 * initial <= Largest
BackoffFits(n) == initial * Power[n] <= Largest

(* The two ways to compute a delay agree: from the second wait on, the     *)
(* loop waits for what the exponential Backoff says of that attempt, apart *)
(* from the jitter, and when Backoff overflows the loop does not: it waits *)
(* for some time, and at most twice the cap.  As long as the growth fits,  *)
(* every policy stays within the cap and never goes back.  And the loop    *)
(* ends as it should: it goes on only after errors worth a retry, at most  *)
(* MaxAttempts times, and returns nil exactly after a success.             *)
(* (resilience/retry.go:85-153 and 193-214.)                               *)
LoopFollowsBackoff ==
  /\ Len(waits) <= attempt /\ attempt <= MaxAttempts
  /\ LoopFits => \A i \in 2..Len(waits) :
        /\ 0 < waits[i] /\ waits[i] <= 2 * max
        /\ BackoffFits(i - 1) => LET d == Backoff("exponential", initial, max, i)
                                IN d <= waits[i] /\ waits[i] <= 2 * d
  /\ \A policy \in {"constant", "linear", "exponential"}, n \in 1..MaxAttempts :
        BackoffFits(n) =>
          /\ Backoff(policy, initial, max, n) <= max
          /\ Backoff(policy, initial, max, n) <= Backoff(policy, initial, max, n + 1)
  /\ \A i \in 1..Len(outcomes) - 1 : outcomes[i] = "retry"
  /\ result = "nil" <=> outcomes # <<>> /\ outcomes[Len(outcomes)] = "ok"
=============================================================================
