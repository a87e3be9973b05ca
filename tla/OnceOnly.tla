------------------------------ MODULE OnceOnly ------------------------------
(***************************************************************************)
(* What the notification journal promises: a notification is offered once, *)
(* and an offer ends in one send or in none, never in a second send.       *)
(***************************************************************************)
EXTENDS Naturals

CONSTANT Keys    \* event_key of every notification

VARIABLES
    phase,       \* "none", "offered" or "closed"
    sends        \* how many times the notification reached the recipient

Init ==
    /\ phase = [k \in Keys |-> "none"]
    /\ sends = [k \in Keys |-> 0]

Offer(k) ==
    /\ phase[k] = "none"
    /\ phase' = [phase EXCEPT ![k] = "offered"]
    /\ UNCHANGED sends

Deliver(k) ==
    /\ phase[k] = "offered"
    /\ phase' = [phase EXCEPT ![k] = "closed"]
    /\ sends' = [sends EXCEPT ![k] = @ + 1]

\* Offers are given up: cancelled, out of date, or in doubt.
GiveUp(K) ==
    /\ \A k \in K : phase[k] = "offered"
    /\ phase' = [k \in Keys |-> IF k \in K THEN "closed" ELSE phase[k]]
    /\ UNCHANGED sends

Next ==
    \/ \E k \in Keys : Offer(k) \/ Deliver(k)
    \/ \E K \in SUBSET Keys : GiveUp(K)

Spec == Init /\ [][Next]_<<phase, sends>>
=============================================================================
