-------------------------------- MODULE LogBook --------------------------------
(***************************************************************************)
(* What loggers promise, whatever queues and locks are behind them: an     *)
(* entry that is let through is written once, after those its goroutine    *)
(* logged before it; what is in a file stays there; and a file is shut     *)
(* only after nothing more is let through and everything that was is in    *)
(* it.                                                                     *)
(***************************************************************************)
EXTENDS Naturals, Sequences

CONSTANT Books

VARIABLES
  pending,  \* the entries <<g, n>> that were let through and not yet written
  written,  \* the files
  phase     \* of each: "open", "ending" or "over"

vars == <<pending, written, phase>>

Init ==
  /\ pending = [b \in Books |-> {}]
  /\ written = [b \in Books |-> << >>]
  /\ phase = [b \in Books |-> "open"]

Older(e, f) == e[1] = f[1] => e[2] < f[2]

(* An entry e, the youngest of its goroutine, is let through.              *)
Accept(b, e) ==
  /\ phase[b] = "open"
  /\ \A f \in pending[b] : Older(f, e)
  /\ \A i \in 1 .. Len(written[b]) : Older(written[b][i], e)
  /\ pending' = [pending EXCEPT ![b] = @ \cup {e}]
  /\ UNCHANGED <<written, phase>>

(* The oldest that is left of a goroutine is written.                      *)
Write(b) ==
  \E e \in pending[b] :
    /\ \A f \in pending[b] \ {e} : Older(e, f)
    /\ pending' = [pending EXCEPT ![b] = @ \ {e}]
    /\ written' = [written EXCEPT ![b] = Append(@, e)]
    /\ UNCHANGED phase

End(b) ==
  /\ phase[b] = "open"
  /\ phase' = [phase EXCEPT ![b] = "ending"]
  /\ UNCHANGED <<pending, written>>

Shut(b) ==
  /\ phase[b] = "ending" /\ pending[b] = {}
  /\ phase' = [phase EXCEPT ![b] = "over"]
  /\ UNCHANGED <<pending, written>>

(* An entry that is accepted is one that is pending afterwards.            *)
Next ==
  \E b \in Books :
    \/ \E e \in pending'[b] : Accept(b, e)
    \/ Write(b) \/ End(b) \/ Shut(b)

Spec == Init /\ [][Next]_vars

(* Whatever was let through gets into the file.                            *)
Delivers == \A b \in Books : (pending[b] # {}) ~> (pending[b] = {})
=============================================================================
