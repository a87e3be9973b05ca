----------------------------- MODULE VisitDesk -----------------------------
(***************************************************************************)
(* Visits from the customer's request to the kept appointment: the bot's   *)
(* customer panel (customer_panel.py, decision_support.py), the office     *)
(* panel with its one-use confirmations (office_flow.py) and the proposals *)
(* between them (workflow.py).                                             *)
(*                                                                         *)
(* The bot serves one update at a time.  The web application and the clock *)
(* do not wait for it: answer_proposal first checks the proposal and the   *)
(* adviser's calendar, and only then claims and commits.  The web sets     *)
(* the status of any visit to any other, whatever the bot has made of it.  *)
(*                                                                         *)
(* One adviser, in charge of every file; each customer asks for one file.  *)
(* What an offer requires of the file beyond the visits is one value:      *)
(* open; paused, when the customer has paused the search; or unfit, when   *)
(* the property is taken, or customer or property not with this adviser.   *)
(* A visit's field reopened is history: the web has put a visit that was   *)
(* over back into the calendar, where it stays until somebody ends it.     *)
(***************************************************************************)
EXTENDS Integers, Sequences, FiniteSets

CONSTANTS
    VisitCustomers,
    Members,       \* members of the office who have the files in scope
    FormTTL,       \* 30 minutes in the code
    OfferTTL,      \* 48 hours in the code
    MaxTime,       \* bound on the clock and on the times of visits
    MaxRequests, MaxOffers, MaxVisits, MaxWebVisits  \* bounds

ASSUME VisitDeskAssumption ==
    {FormTTL, OfferTTL, MaxTime, MaxRequests, MaxOffers, MaxVisits, MaxWebVisits} \subseteq Nat

VARIABLES
    file,      \* what offers require of a customer's file
    requests,  \* Interaction rows of type saghf_visit, by id
    offers,    \* VisitProposal rows, by id
    visits,    \* Visit rows of the adviser, by id, with the history reopened
    token,     \* the latest OfficeAction of each member; older ones are consumed
    answering, \* answer_proposal between its checks and its commit
    now

deskVars == <<file, requests, offers, visits, token, answering, now>>

Times == 0..MaxTime
Outcomes == {"pending", "visit_scheduled", "resolved"}
OfferStates == {"pending", "accepted", "closed"}  \* closed: superseded or declined
VisitStates == {"scheduled", "completed", "cancelled"}  \* completed: any other too
Kinds == {"visit_offer", "visit_status", "resolve"}
NoToken == [kind |-> "none", target |-> 0, at |-> 0, status |-> "scheduled",
            stage |-> "consumed", expires |-> 0]
NoAnswer == [offer |-> 0, accept |-> FALSE]

DeskTypeOK ==
    /\ file \in [VisitCustomers -> {"open", "paused", "unfit"}]
    /\ requests \in Seq([customer: VisitCustomers, original: 0..MaxVisits, outcome: Outcomes])
    /\ offers \in Seq([request: 1..MaxRequests, at: Times, expires: Times,
                       case: {"current", "former"}, state: OfferStates,
                       visit: 0..MaxVisits])
    /\ visits \in Seq([customer: VisitCustomers, at: Times, status: VisitStates,
                       by: {"bot", "web"}, reopened: BOOLEAN])
    /\ token \in [Members ->
         [kind: Kinds \cup {"none"}, target: Nat, at: Times, status: VisitStates,
          stage: {"input", "confirm", "consumed"}, expires: Nat]]
    /\ answering \in [offer: 0..MaxOffers, accept: BOOLEAN]
    /\ now \in Times

DeskInit ==
    /\ file = [c \in VisitCustomers |-> "open"]
    /\ requests = <<>> /\ offers = <<>> /\ visits = <<>>
    /\ token = [m \in Members |-> NoToken]
    /\ answering = NoAnswer /\ now = 0

\* Mutant: the bot serves updates in several threads.
AlwaysServing == TRUE

\* The bot is not in the middle of answer_proposal.
BotFree == answering = NoAnswer

-----------------------------------------------------------------------------
(***************************************************************************)
(* The customer asks.  An open request for the same thing is returned.     *)
(***************************************************************************)
OpenRequest(c, v) ==
    \E r \in 1..Len(requests) :
        requests[r] = [customer |-> c, original |-> v, outcome |-> "pending"]

AppendRequest(c, v) ==
    /\ ~OpenRequest(c, v) /\ Len(requests) < MaxRequests
    /\ requests' = Append(requests, [customer |-> c, original |-> v, outcome |-> "pending"])
    /\ UNCHANGED <<file, offers, visits, token, answering, now>>

\* request_followup
AskVisit(c) ==
    /\ BotFree /\ file[c] = "open"
    /\ AppendRequest(c, 0)

\* The visit may still be moved.
Movable(v, c) ==
    /\ v \in 1..Len(visits) /\ visits[v].customer = c
    /\ visits[v].status = "scheduled" /\ visits[v].at > now

\* request_reschedule, which asks for the adviser and not for the property: a
\* file that is unfit may be either.
AskReschedule(c, v) ==
    /\ BotFree /\ Movable(v, c)
    /\ AppendRequest(c, v)

\* What request r still requires: an open file, or a visit to move and a file
\* that is fit.
Fit(r) ==
    LET c == requests[r].customer
        v == requests[r].original
    IN
    /\ requests[r].outcome = "pending"
    /\ IF v = 0 THEN file[c] = "open" ELSE Movable(v, c) /\ file[c] # "unfit"

\* A visit that is new, and one whose status is set.
NewVisit(c, at, by) ==
    [customer |-> c, at |-> at, status |-> "scheduled", by |-> by, reopened |-> FALSE]

Ended(v, status) ==
    [visits EXCEPT ![v] = [@ EXCEPT !.status = status, !.reopened = FALSE]]

-----------------------------------------------------------------------------
(***************************************************************************)
(* The office: a form is opened, filled in and confirmed.                  *)
(***************************************************************************)
OpenToken(m, kind, target, status, stage) ==
    /\ BotFree
    /\ token' = [token EXCEPT ![m] = [kind |-> kind, target |-> target, at |-> 0,
                    status |-> status, stage |-> stage, expires |-> now + FormTTL]]
    /\ UNCHANGED <<file, requests, offers, visits, answering, now>>

\* start_action; the new form consumes the member's older one.
StartOffer(m, r) ==
    /\ requests[r].outcome = "pending"
    /\ OpenToken(m, "visit_offer", r, "scheduled", "input")

StartResolve(m, r) ==
    /\ requests[r].outcome = "pending"
    /\ OpenToken(m, "resolve", r, "scheduled", "confirm")

StartStatus(m, v, status) ==
    /\ visits[v].status = "scheduled" /\ status # "scheduled"
    /\ status # "cancelled" => visits[v].at <= now
    /\ OpenToken(m, "visit_status", v, status, "confirm")

\* input_action: the time of the visit, in the future.
InputTime(m, at) ==
    /\ BotFree
    /\ token[m].stage = "input" /\ now < token[m].expires
    /\ at > now
    /\ token' = [token EXCEPT ![m] = [@ EXCEPT !.at = at, !.stage = "confirm"]]
    /\ UNCHANGED <<file, requests, offers, visits, answering, now>>

\* _cancel: a menu button or /cancel.
CancelForm(m) ==
    /\ BotFree
    /\ token[m].stage \in {"input", "confirm"}
    /\ token' = [token EXCEPT ![m] = NoToken]
    /\ UNCHANGED <<file, requests, offers, visits, answering, now>>

\* offer_visit: what may be offered for request r at that time.
Offerable(r, at) == Fit(r) /\ now < at

\* The first pending offer of the request, or 0.
PreviousOffer(r) ==
    LET pending == {k \in 1..Len(offers) : offers[k].request = r /\ offers[k].state = "pending"}
    IN IF pending = {} THEN 0 ELSE CHOOSE k \in pending : \A l \in pending : k <= l

\* Mutant: the former offer stays open beside the new one.
KeptOpen(r) == offers

\* The previous offer of the request gives way.
Superseded(r) ==
    [k \in 1..Len(offers) |-> IF k = PreviousOffer(r)
                              THEN [offers[k] EXCEPT !.state = "closed"] ELSE offers[k]]

NewOffer(r, at) ==
    [request |-> r, at |-> at,
     expires |-> IF at < now + OfferTTL THEN at ELSE now + OfferTTL,
     case |-> "current", state |-> "pending", visit |-> 0]

\* The same time on an offer still open is not offered again.
Offered(r, at) ==
    IF PreviousOffer(r) # 0 /\ offers[PreviousOffer(r)].at = at
                            /\ now < offers[PreviousOffer(r)].expires
    THEN offers
    ELSE Append(Superseded(r), NewOffer(r, at))

\* The visit must still have the status the form was opened on.
SetStatus(v, status) ==
    /\ visits[v].status = "scheduled"
    /\ status # "cancelled" => visits[v].at <= now
    /\ visits' = Ended(v, status)
    /\ UNCHANGED <<requests, offers>>

\* confirm_action: the claim of the token and its effect commit together.
Confirm(m) ==
    /\ BotFree
    /\ token[m].stage = "confirm" /\ now < token[m].expires
    /\ token' = [token EXCEPT ![m] = NoToken]
    /\ \/ /\ token[m].kind = "visit_offer"
          /\ Offerable(token[m].target, token[m].at)
          /\ Len(offers) < MaxOffers
          /\ offers' = Offered(token[m].target, token[m].at)
          /\ UNCHANGED <<requests, visits>>
       \/ /\ token[m].kind = "visit_status"
          /\ SetStatus(token[m].target, token[m].status)
       \/ /\ token[m].kind = "resolve"
          /\ requests[token[m].target].outcome = "pending"
          /\ requests' = [requests EXCEPT ![token[m].target].outcome = "resolved"]
          /\ UNCHANGED <<offers, visits>>
    /\ UNCHANGED <<file, answering, now>>

-----------------------------------------------------------------------------
(***************************************************************************)
(* The customer answers.                                                   *)
(***************************************************************************)
\* Mutant: the case is not asked.
AnyCase(k) == TRUE

\* The offer was made for the customer's present case.
SameCase(k) == offers[k].case = "current"

\* valid_proposal
ValidOffer(k) ==
    /\ offers[k].state = "pending"
    /\ now < offers[k].expires /\ now < offers[k].at
    /\ Fit(offers[k].request)
    /\ SameCase(k)

\* Mutant: nobody looks at the calendar.
AlwaysFree(at) == TRUE

\* The adviser has no visit at that time.
AdviserFree(at) ==
    \A v \in 1..Len(visits) : visits[v].status = "scheduled" => visits[v].at # at

\* answer_proposal, the checks.
AnswerCheck(k, accept) ==
    /\ BotFree
    /\ ValidOffer(k)
    /\ accept => AdviserFree(offers[k].at)
    /\ answering' = [offer |-> k, accept |-> accept]
    /\ UNCHANGED <<file, requests, offers, visits, token, now>>

\* Mutant: the former visit is kept.
OriginalKept(v) == visits

\* The moved visit is given up.
OriginalCancelled(v) == IF v = 0 THEN visits ELSE Ended(v, "cancelled")

\* answer_proposal, the claim and the commit.
AnswerAccept ==
    /\ answering.offer # 0 /\ answering.accept
    /\ Len(visits) < MaxVisits
    /\ LET k == answering.offer
           r == offers[k].request
           original == requests[r].original
       IN
       /\ offers[k].state = "pending"
       /\ original # 0 => visits[original].status = "scheduled" /\ visits[original].at > now
       /\ visits' = Append(OriginalCancelled(original),
                      NewVisit(requests[r].customer, offers[k].at, "bot"))
       /\ offers' = [offers EXCEPT ![k] =
                      [@ EXCEPT !.state = "accepted", !.visit = Len(visits) + 1]]
       /\ requests' = [requests EXCEPT ![r].outcome = "visit_scheduled"]
    /\ answering' = NoAnswer
    /\ UNCHANGED <<file, token, now>>

AnswerDecline ==
    /\ answering.offer # 0 /\ ~answering.accept
    /\ offers[answering.offer].state = "pending"
    /\ offers' = [offers EXCEPT ![answering.offer].state = "closed"]
    /\ answering' = NoAnswer
    /\ UNCHANGED <<file, requests, visits, token, now>>

\* The claim fails, the commit is rolled back, or the bot dies.
AnswerFails ==
    /\ answering.offer # 0
    /\ answering' = NoAnswer
    /\ UNCHANGED <<file, requests, offers, visits, token, now>>

-----------------------------------------------------------------------------
\* The web application books a visit and does not look at the calendar.
WebBooks(c, at) ==
    /\ Len(visits) < MaxVisits /\ at > now
    /\ Cardinality({v \in 1..Len(visits) : visits[v].by = "web"}) < MaxWebVisits
    /\ visits' = Append(visits, NewVisit(c, at, "web"))
    /\ UNCHANGED <<file, requests, offers, token, answering, now>>

\* The web application sets the status of any visit, at any time.
WebEnds(v, status) ==
    /\ status # "scheduled"
    /\ visits' = Ended(v, status)
    /\ UNCHANGED <<file, requests, offers, token, answering, now>>

WebReopens(v) ==
    /\ visits[v].status # "scheduled"
    /\ visits' = [visits EXCEPT ![v] = [@ EXCEPT !.status = "scheduled", !.reopened = TRUE]]
    /\ UNCHANGED <<file, requests, offers, token, answering, now>>

\* The property is sold or changes hands, or is released again.
WebChanges(c) ==
    /\ file' = [file EXCEPT ![c] = IF @ = "unfit" THEN "open" ELSE "unfit"]
    /\ UNCHANGED <<requests, offers, visits, token, answering, now>>

\* The customer pauses or resumes the search.
CustomerPauses(c) ==
    /\ BotFree /\ file[c] # "unfit"
    /\ file' = [file EXCEPT ![c] = IF @ = "open" THEN "paused" ELSE "open"]
    /\ UNCHANGED <<requests, offers, visits, token, answering, now>>

\* The customer confirms another request: a new case, which no pending offer names.
CaseChanges(c) ==
    /\ BotFree
    /\ offers' = [k \in 1..Len(offers) |->
                    IF requests[offers[k].request].customer = c /\ offers[k].state = "pending"
                    THEN [offers[k] EXCEPT !.case = "former"] ELSE offers[k]]
    /\ UNCHANGED <<file, requests, visits, token, answering, now>>

\* A form that has expired is as good as consumed.
DeskTick ==
    /\ now < MaxTime /\ now' = now + 1
    /\ token' = [m \in Members |-> IF now' < token[m].expires THEN token[m] ELSE NoToken]
    /\ UNCHANGED <<file, requests, offers, visits, answering>>

Office(m) ==
    \/ CancelForm(m) \/ Confirm(m)
    \/ \E at \in Times : InputTime(m, at)
    \/ \E r \in 1..Len(requests) : StartOffer(m, r) \/ StartResolve(m, r)
    \/ \E v \in 1..Len(visits) : \E status \in VisitStates : StartStatus(m, v, status)

DeskNext ==
    \/ \E c \in VisitCustomers :
         \/ AskVisit(c) \/ WebChanges(c) \/ CustomerPauses(c) \/ CaseChanges(c)
         \/ \E v \in 1..Len(visits) : AskReschedule(c, v)
         \/ \E at \in Times : WebBooks(c, at)
    \/ \E v \in 1..Len(visits) :
         WebReopens(v) \/ \E status \in VisitStates : WebEnds(v, status)
    \/ \E m \in Members : Office(m)
    \/ \E k \in 1..Len(offers) : \E accept \in BOOLEAN : AnswerCheck(k, accept)
    \/ AnswerAccept \/ AnswerDecline \/ AnswerFails
    \/ DeskTick

DeskSpec == DeskInit /\ [][DeskNext]_deskVars

-----------------------------------------------------------------------------
(***************************************************************************)
(* A request has at most one offer to answer, and leads to at most one     *)
(* visit: the one its only accepted offer named, at the offered time.      *)
(***************************************************************************)
OneAnswerPerRequest ==
    \A k, l \in 1..Len(offers) :
        /\ k # l /\ offers[k].request = offers[l].request =>
             ~(offers[k].state \in {"pending", "accepted"} /\ offers[l].state = "pending")
             /\ ~(offers[k].state = "accepted" /\ offers[l].state = "accepted")
        /\ offers[k].state = "accepted" =>
             /\ requests[offers[k].request].outcome = "visit_scheduled"
             /\ offers[k].visit \in 1..Len(visits)
             /\ visits[offers[k].visit].at = offers[k].at
             /\ visits[offers[k].visit].customer = requests[offers[k].request].customer

\* A visit in the calendar, where the bot or the office left it.
Stands(visit) == visit.status = "scheduled" /\ ~visit.reopened

(***************************************************************************)
(* The bot never books the adviser twice at one time, over any order of    *)
(* offers, answers and moved visits, and beside a web application that     *)
(* books and ends visits at any time: two of its visits share a time only  *)
(* when the web has put one of them back into the calendar.                *)
(***************************************************************************)
BotNeverDoubleBooks ==
    \A v, w \in 1..Len(visits) :
        v # w /\ visits[v].by = "bot" /\ visits[w].by = "bot"
              /\ Stands(visits[v]) /\ Stands(visits[w])
            => visits[v].at # visits[w].at

(***************************************************************************)
(* An offer made for a former case is never accepted, however the answer   *)
(* crosses the change of the case.                                         *)
(***************************************************************************)
AcceptedForThisCase ==
    [][\A k \in 1..Len(offers) :
         offers[k].state = "pending" /\ offers'[k].state = "accepted"
            => offers'[k].case = "current"]_deskVars

(***************************************************************************)
(* A moved visit leaves one appointment: once the new one is booked the    *)
(* former one is not in the calendar, however the answer crosses the       *)
(* office's forms, unless the web has put it back since.                   *)
(***************************************************************************)
MovedVisitIsGivenUp ==
    \A k \in 1..Len(offers) :
        offers[k].state = "accepted" /\ requests[offers[k].request].original # 0 =>
            ~Stands(visits[requests[offers[k].request].original])

-----------------------------------------------------------------------------
(***************************************************************************)
(* Seen from the tables of requests and visits, answer_proposal is one     *)
(* step: what it read before its claim still holds when it commits, beside *)
(* the office's forms and whatever the web application does meanwhile.     *)
(***************************************************************************)
Diary == INSTANCE VisitBook WITH Customers <- VisitCustomers, Hours <- Times

ImplementsVisitBook == Diary!Spec
=============================================================================
