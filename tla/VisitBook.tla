----------------------------- MODULE VisitBook -----------------------------
(***************************************************************************)
(* What the visit desk promises: a customer asks for a visit, or for       *)
(* another time for one that stands, and the request is settled once.  A   *)
(* booking is one step: it settles an open request, at a time at which the *)
(* bot has booked nobody else, and gives up the visit that was moved.  The *)
(* web application books, and sets the status of any visit, as it likes; a *)
(* visit that it has put back into the diary is reopened.                  *)
(*                                                                         *)
(* Offers, forms, expiry and the interval in which the calendar has been   *)
(* read and the booking is yet to be committed are not seen from here.     *)
(***************************************************************************)
EXTENDS Naturals, Sequences

CONSTANTS Customers, Hours

VARIABLES requests, visits

Init == requests = <<>> /\ visits = <<>>

\* A customer's visit that is still to take place.
Standing(v, c) ==
    v \in 1..Len(visits) /\ visits[v].customer = c /\ visits[v].status = "scheduled"

Ask(c, moved) ==
    /\ moved # 0 => Standing(moved, c)
    /\ requests' = Append(requests,
                     [customer |-> c, original |-> moved, outcome |-> "pending"])
    /\ UNCHANGED visits

Visit(c, hour, by) ==
    [customer |-> c, at |-> hour, status |-> "scheduled", by |-> by, reopened |-> FALSE]

Marked(v, status, reopened) ==
    [visits EXCEPT ![v] = [@ EXCEPT !.status = status, !.reopened = reopened]]

\* The visits but for the one that was moved.
Without(moved) == IF moved = 0 THEN visits ELSE Marked(moved, "cancelled", FALSE)

Book(r, hour) ==
    LET c == requests[r].customer
        moved == requests[r].original
    IN
    /\ requests[r].outcome = "pending"
    /\ moved # 0 => Standing(moved, c)
    /\ \A v \in 1..Len(visits) :
         visits[v].by = "bot" /\ visits[v].status = "scheduled" /\ ~visits[v].reopened
             => visits[v].at # hour
    /\ visits' = Append(Without(moved), Visit(c, hour, "bot"))
    /\ requests' = [requests EXCEPT ![r].outcome = "visit_scheduled"]

\* The office settles a request without a visit.
Resolve(r) ==
    /\ requests[r].outcome = "pending"
    /\ requests' = [requests EXCEPT ![r].outcome = "resolved"]
    /\ UNCHANGED visits

\* A visit took place or was called off; the web application may correct which.
Close(v, status) ==
    /\ visits' = Marked(v, status, FALSE)
    /\ UNCHANGED requests

\* The web application books whatever it is told to.
WebBook(c, hour) ==
    /\ visits' = Append(visits, Visit(c, hour, "web"))
    /\ UNCHANGED requests

\* And puts any visit back into the diary.
WebReopen(v) ==
    /\ visits[v].status # "scheduled"
    /\ visits' = Marked(v, "scheduled", TRUE)
    /\ UNCHANGED requests

Next ==
    \/ \E c \in Customers :
         \/ \E moved \in 0..Len(visits) : Ask(c, moved)
         \/ \E hour \in Hours : WebBook(c, hour)
    \/ \E r \in 1..Len(requests) : Resolve(r) \/ \E hour \in Hours : Book(r, hour)
    \/ \E v \in 1..Len(visits) :
         WebReopen(v) \/ \E status \in {"completed", "cancelled"} : Close(v, status)

Spec == Init /\ [][Next]_<<requests, visits>>
=============================================================================
