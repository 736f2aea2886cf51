------------------------------- MODULE Balancer -------------------------------
(***************************************************************************)
(* The weighted round-robin picker of grpc/balancer.go: which of the ready *)
(* addresses the next call goes to.  gRPC builds a new picker whenever the *)
(* set of ready addresses changes; callers of Pick take its mutex.         *)
(***************************************************************************)
EXTENDS Integers, FiniteSets

CONSTANTS
  Addresses,   \* numbered from 1 in the order of their strings
  Configured,  \* weights the registry may carry, also senseless ones
  maxServiceWeight

BalancerAssumption ==
  /\ Cardinality(Addresses) \in Nat /\ Addresses = 1..Cardinality(Addresses)
  /\ Configured \subseteq Int /\ maxServiceWeight \in Nat \ {0}

VARIABLES
  configured,  \* the weight attribute of each address
  ready,       \* the addresses of the picker
  current,     \* weightedSubConn.currentWeight
  picks        \* how often each address was picked since the last full round

vars == <<configured, ready, current, picks>>

Zero == [a \in Addresses |-> 0]

(* What the addresses of S have together, summed up in their order.        *)
Total(f, S) ==
  LET upTo[n \in 0..Cardinality(Addresses)] ==
        IF n = 0 THEN 0 ELSE IF n \in S THEN upTo[n - 1] + f[n] ELSE upTo[n - 1]
  IN upTo[Cardinality(Addresses)]

(* weightFromAddress: missing or senseless weights count one, large ones   *)
(* are cut.                                                                *)
weightFromAddress(a) ==
  LET w == configured[a] IN
  IF w <= 0 THEN 1 ELSE IF w > maxServiceWeight THEN maxServiceWeight ELSE w
Weight == [a \in Addresses |-> weightFromAddress(a)]

Init ==
  /\ configured \in [Addresses -> Configured]
  /\ ready = {} /\ current = Zero /\ picks = Zero

(* A new picker: every address starts with nothing.                        *)
Build(S) ==
  /\ S # ready
  /\ ready' = S
  /\ current' = Zero /\ picks' = Zero
  /\ UNCHANGED configured

(* pickNext: every address gains its weight, the first of the heaviest is  *)
(* chosen and pays for all.                                                *)
FirstPositive(gained) ==
  CHOOSE a \in ready : gained[a] > 0 /\ \A b \in ready : gained[b] > 0 => a <= b
HeaviestByWeight(gained) ==
  CHOOSE a \in ready : \A b \in ready : Weight[a] > Weight[b] \/ (Weight[a] = Weight[b] /\ a <= b)
Heaviest(gained) ==
  CHOOSE a \in ready :
     \A b \in ready : gained[a] > gained[b] \/ (gained[a] = gained[b] /\ a <= b)

pickNext ==
  /\ ready # {}
  /\ LET gained == [a \in Addresses |-> IF a \in ready THEN current[a] + Weight[a] ELSE 0]
         chosen == Heaviest(gained)
         full   == Total(picks, ready) + 1 = Total(Weight, ready)
     IN /\ current' = [gained EXCEPT ![chosen] = @ - Total(Weight, ready)]
        /\ picks' = IF full /\ current' = Zero THEN Zero ELSE [picks EXCEPT ![chosen] = @ + 1]
  /\ UNCHANGED <<configured, ready>>

Next == pickNext \/ \E S \in SUBSET Addresses : Build(S)

Spec == Init /\ [][Next]_vars

----------------------------------------------------------------------------
(* What weighted round-robin promises, against a reference that knows only *)
(* the weights: of k picks an address of weight w of a total W is due      *)
(* k * w / W.  None is ever a whole pick ahead of that, whatever the       *)
(* weights configured, and a round of W picks gives every address exactly  *)
(* w of them, after which the next begins like the first.                  *)
(* (grpc/balancer.go:132-149.)                                             *)
Due(a) == Total(picks, ready) * Weight[a]
Had(a) == picks[a] * Total(Weight, ready)
SharesAreFair ==
  /\ ready # {} => Total(picks, ready) < Total(Weight, ready)
  /\ \A a \in ready : Weight[a] \in 1..maxServiceWeight /\ Had(a) - Due(a) < Total(Weight, ready)

(* How far an address may lag grows with their number: two are never more  *)
(* than half a pick behind, three a whole one, and each further address    *)
(* adds half a pick.  (Of four that weigh 4, 1, 30 and 30, in this order,  *)
(* one does wait for a whole pick.)  (grpc/balancer.go:132-149.)           *)
NobodyLags ==
  \A a \in ready : 2 * (Due(a) - Had(a)) <= (Cardinality(ready) - 1) * Total(Weight, ready)
=============================================================================
