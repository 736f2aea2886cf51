----------------------------- MODULE AddressFeed -----------------------------
(***************************************************************************)
(* What a subscriber of a service is promised: from the moment its watch   *)
(* is accepted until it ends, it is shown newer and newer revisions of the *)
(* service's addresses, it may miss some of them, and in the end it has    *)
(* the newest.                                                             *)
(***************************************************************************)
EXTENDS Naturals

CONSTANT MaxRev  \* the last revision published

VARIABLES
  newest,   \* the revision of the addresses in the store
  view,     \* the revision the subscriber was shown last, 0 for none
  phase,    \* "off", "on" or "over"
  calm      \* the store answers every request from now on

vars == <<newest, view, phase, calm>>

Init == newest = 1 /\ view = 0 /\ phase = "off" /\ calm = FALSE

Publish == newest < MaxRev /\ newest' = newest + 1 /\ UNCHANGED <<view, phase, calm>>
Subscribe == phase = "off" /\ phase' = "on" /\ UNCHANGED <<newest, view, calm>>
Deliver ==
  /\ phase = "on"
  /\ view' \in view .. newest
  /\ UNCHANGED <<newest, phase, calm>>
End == phase # "over" /\ phase' = "over" /\ UNCHANGED <<newest, view, calm>>
CalmDown == calm' = TRUE /\ UNCHANGED <<newest, view, phase>>

Next == Publish \/ Subscribe \/ Deliver \/ End \/ CalmDown

Spec == Init /\ [][Next]_vars

(* The promise of the end: in a calm store the newest revision, and no     *)
(* other, is what a subscription that goes on shows.                       *)
Converges ==
  \A r \in 1 .. MaxRev :
    (phase = "on" /\ calm /\ newest = r) ~> (view = r \/ newest # r \/ phase = "over")
=============================================================================
