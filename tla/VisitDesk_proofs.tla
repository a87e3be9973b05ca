-------------------------- MODULE VisitDesk_proofs --------------------------
(***************************************************************************)
(* Proofs about VisitDesk, for any customers, members, terms and bounds.   *)
(*                                                                         *)
(* DeskInv adds to the properties that the rows refer to rows there are    *)
(* (References), and that the time answer_proposal found free stays free   *)
(* of the bot's visits until it commits (CalendarHolds): the bot serves no *)
(* other update meanwhile, and the web's visits are not the bot's, unless  *)
(* the web has put one of the bot's back.                                  *)
(***************************************************************************)
EXTENDS VisitDesk, TLAPS

RequestRow == [customer: VisitCustomers, original: 0..MaxVisits, outcome: Outcomes]
OfferRow == [request: 1..MaxRequests, at: Times, expires: Times,
             case: {"current", "former"}, state: OfferStates, visit: 0..MaxVisits]
VisitRow == [customer: VisitCustomers, at: Times, status: VisitStates, by: {"bot", "web"},
             reopened: BOOLEAN]
TokenRow == [kind: Kinds \cup {"none"}, target: Nat, at: Times, status: VisitStates,
             stage: {"input", "confirm", "consumed"}, expires: Nat]

References ==
    /\ Len(requests) <= MaxRequests /\ Len(offers) <= MaxOffers /\ Len(visits) <= MaxVisits
    /\ \A r \in 1..Len(requests) : requests[r].original <= Len(visits)
    /\ \A k \in 1..Len(offers) : offers[k].request <= Len(requests)
    /\ answering.offer <= Len(offers)
    /\ \A m \in Members :
         /\ token[m].kind \in {"visit_offer", "resolve"} => token[m].target \in 1..Len(requests)
         /\ token[m].kind = "visit_status" => token[m].target \in 1..Len(visits)

CalendarHolds ==
    answering.offer # 0 /\ answering.accept =>
        \A v \in 1..Len(visits) :
            visits[v].by = "bot" /\ Stands(visits[v]) => visits[v].at # offers[answering.offer].at

DeskInv ==
    /\ DeskTypeOK /\ References /\ CalendarHolds
    /\ OneAnswerPerRequest /\ BotNeverDoubleBooks /\ MovedVisitIsGivenUp

\* The types of the state, table by table.
LEMMA DeskTypes ==
    DeskTypeOK <=>
        /\ file \in [VisitCustomers -> {"open", "paused", "unfit"}]
        /\ requests \in Seq(RequestRow) /\ offers \in Seq(OfferRow)
        /\ visits \in Seq(VisitRow) /\ token \in [Members -> TokenRow]
        /\ answering \in [offer: 0..MaxOffers, accept: BOOLEAN] /\ now \in Times
  BY DEF DeskTypeOK, RequestRow, OfferRow, VisitRow, TokenRow

\* The bounds are natural numbers.
LEMMA DeskNumbers ==
    /\ FormTTL \in Nat /\ OfferTTL \in Nat /\ MaxTime \in Nat
    /\ MaxRequests \in Nat /\ MaxOffers \in Nat /\ MaxVisits \in Nat
    /\ Times \subseteq Nat /\ 0 \in Times
  BY VisitDeskAssumption DEF Times

\* The consumed form and the free bot are of their types.
LEMMA NoTokenIsRow ==
    NoToken \in TokenRow /\ NoAnswer \in [offer: 0..MaxOffers, accept: BOOLEAN]
  BY DeskNumbers DEF NoToken, TokenRow, VisitStates, NoAnswer

\* Writing a row of a table.
LEMMA SeqUpdate ==
    ASSUME NEW S, NEW q \in Seq(S), NEW i \in 1..Len(q), NEW x \in S
    PROVE  LET u == [q EXCEPT ![i] = x] IN
           /\ u \in Seq(S) /\ Len(u) = Len(q)
           /\ u[i] = x
           /\ \A j \in 1..Len(q) : j # i => u[j] = q[j]
  OBVIOUS

\* Adding a row to a table.
LEMMA SeqAppend ==
    ASSUME NEW S, NEW q \in Seq(S), NEW x \in S
    PROVE  LET u == Append(q, x) IN
           /\ u \in Seq(S) /\ Len(u) = Len(q) + 1
           /\ u[Len(q) + 1] = x
           /\ \A j \in 1..Len(q) : u[j] = q[j]
  OBVIOUS

\* Rewriting every row of a table.
LEMMA SeqRewrite ==
    ASSUME NEW S, NEW n \in Nat, NEW u \in [1..n -> S]
    PROVE  u \in Seq(S) /\ Len(u) = n
  OBVIOUS

\* The fields of an accepted offer.
LEMMA AcceptWrites ==
    ASSUME NEW o \in OfferRow, NEW v \in 0..MaxVisits
    PROVE  LET r == [o EXCEPT !.state = "accepted", !.visit = v] IN
           /\ r \in OfferRow /\ r.state = "accepted" /\ r.visit = v
           /\ r.request = o.request /\ r.at = o.at
<1> DEFINE r == [o EXCEPT !.state = "accepted", !.visit = v]
<1>1. r \in OfferRow
  BY Zenon DEF OfferRow, OfferStates
<1>2. /\ r.state = "accepted" /\ r.visit = v
      /\ r.request = o.request /\ r.at = o.at
  BY Zenon DEF OfferRow
<1> QED
  BY <1>1, <1>2, Zenon

\* A visit that the web books is not the bot's, and one that is added is of its type.
LEMMA NewVisitIsRow ==
    ASSUME NEW c \in VisitCustomers, NEW at \in Times, NEW by \in {"bot", "web"}
    PROVE  LET e == NewVisit(c, at, by) IN
           e \in VisitRow /\ e.at = at /\ e.by = by /\ e.customer = c
  BY Zenon DEF NewVisit, VisitRow, VisitStates

\* The table of visits after the status of one is set.
MarkedIn(u, v, status, back) ==
    u = [visits EXCEPT ![v] = [@ EXCEPT !.status = status, !.reopened = back]]

LEMMA VisitsMarked ==
    ASSUME NEW v \in 1..Len(visits), NEW status \in VisitStates, NEW back \in BOOLEAN,
           visits \in Seq(VisitRow), NEW u, MarkedIn(u, v, status, back)
    PROVE  /\ u \in Seq(VisitRow) /\ Len(u) = Len(visits)
           /\ u[v].status = status /\ u[v].reopened = back
           /\ \A w \in 1..Len(visits) :
                /\ u[w] \in VisitRow
                /\ u[w].at = visits[w].at /\ u[w].by = visits[w].by
                /\ u[w].customer = visits[w].customer
                /\ w # v => u[w] = visits[w]
<1> DEFINE x == [visits[v] EXCEPT !.status = status, !.reopened = back]
<1>0. visits[v] \in VisitRow
  OBVIOUS
<1>1. x \in VisitRow
  BY <1>0, Zenon DEF VisitRow
<1>6. /\ x.status = status /\ x.reopened = back
      /\ x.at = visits[v].at /\ x.by = visits[v].by /\ x.customer = visits[v].customer
  BY <1>0, Zenon DEF VisitRow
<1>2. u = [visits EXCEPT ![v] = x]
  BY Zenon DEF MarkedIn
<1> HIDE DEF x
<1>3. /\ u \in Seq(VisitRow) /\ Len(u) = Len(visits) /\ u[v] = x
      /\ \A w \in 1..Len(visits) : w # v => u[w] = visits[w]
  BY <1>1, <1>2, SeqUpdate
<1>4. \A w \in 1..Len(visits) :
        /\ u[w] \in VisitRow
        /\ u[w].at = visits[w].at /\ u[w].by = visits[w].by
        /\ u[w].customer = visits[w].customer
  BY <1>0, <1>1, <1>3, <1>6
<1>5. u[v].status = status /\ u[v].reopened = back
  BY <1>3, <1>6, Zenon
<1> QED
  BY <1>3, <1>4, <1>5, Zenon

\* The fields of a request whose outcome is set.
LEMMA OutcomeWrites ==
    ASSUME NEW y \in RequestRow, NEW outcome \in Outcomes
    PROVE  LET x == [y EXCEPT !.outcome = outcome] IN
           /\ x \in RequestRow /\ x.outcome = outcome
           /\ x.original = y.original /\ x.customer = y.customer
  BY DEF RequestRow

\* The fields of a form whose time was typed.
LEMMA TimeWrites ==
    ASSUME NEW t \in TokenRow, NEW at \in Times, NEW r,
           r = [t EXCEPT !.at = at, !.stage = "confirm"]
    PROVE  r \in TokenRow /\ r.kind = t.kind /\ r.target = t.target
<1>1. r \in TokenRow
  BY Zenon DEF TokenRow
<1> QED
  BY <1>1, Zenon DEF TokenRow

-----------------------------------------------------------------------------
\* No rows, no forms, no answer: the start.
LEMMA DeskStart == DeskInit => DeskInv
<1> SUFFICES ASSUME DeskInit PROVE DeskInv
  OBVIOUS
<1>1. /\ file = [c \in VisitCustomers |-> "open"]
      /\ requests = <<>> /\ offers = <<>> /\ visits = <<>>
      /\ token = [m \in Members |-> NoToken] /\ answering = NoAnswer /\ now = 0
  BY DEF DeskInit
<1>2. DeskTypeOK
  BY <1>1, NoTokenIsRow, DeskNumbers, DeskTypes
<1>3. References
  BY <1>1, DeskNumbers DEF References, NoToken, NoAnswer
<1> QED
  BY <1>1, <1>2, <1>3 DEF DeskInv, CalendarHolds, OneAnswerPerRequest,
       BotNeverDoubleBooks, MovedVisitIsGivenUp, NoAnswer

\* A form refers to a row there is.
FormRefers(t) ==
    /\ t.kind \in {"visit_offer", "resolve"} => t.target \in 1..Len(requests)
    /\ t.kind = "visit_status" => t.target \in 1..Len(visits)

\* A step that leaves requests, offers and visits alone.
LEMMA TablesAlone ==
    ASSUME DeskInv, UNCHANGED <<requests, offers, visits>>,
           answering' = answering \/ answering' = NoAnswer,
           file' \in [VisitCustomers -> {"open", "paused", "unfit"}],
           token' \in [Members -> TokenRow], now' \in Times,
           \A m \in Members : FormRefers(token'[m])
    PROVE  DeskInv'
<1>1. answering' \in [offer: 0..MaxOffers, accept: BOOLEAN]
  BY NoTokenIsRow, DeskTypes DEF DeskInv
<1>2. DeskTypeOK'
  BY <1>1, DeskTypes DEF DeskInv, DeskTypeOK, RequestRow, OfferRow, VisitRow, TokenRow
<1>3. References'
  <2>1. /\ Len(requests)' = Len(requests) /\ Len(offers)' = Len(offers)
        /\ Len(visits)' = Len(visits) /\ Len(offers) \in Nat
    BY DeskTypes DEF DeskInv
  <2>2. answering'.offer <= Len(offers)'
    BY <2>1 DEF DeskInv, References, NoAnswer
  <2>3. \A m \in Members :
           /\ token'[m].kind \in {"visit_offer", "resolve"}
                => token'[m].target \in 1..Len(requests)'
           /\ token'[m].kind = "visit_status" => token'[m].target \in 1..Len(visits)'
    BY <2>1 DEF FormRefers
  <2> QED
    BY <2>1, <2>2, <2>3 DEF DeskInv, References
<1>4. CalendarHolds'
  BY DEF DeskInv, CalendarHolds, NoAnswer
<1>5. OneAnswerPerRequest /\ BotNeverDoubleBooks /\ MovedVisitIsGivenUp
  BY DEF DeskInv
<1>6. OneAnswerPerRequest'
  BY <1>5 DEF OneAnswerPerRequest
<1>7. BotNeverDoubleBooks'
  BY <1>5 DEF BotNeverDoubleBooks
<1>8. MovedVisitIsGivenUp'
  BY <1>5 DEF MovedVisitIsGivenUp
<1> QED
  BY <1>2, <1>3, <1>4, <1>6, <1>7, <1>8 DEF DeskInv

\* What the invariant says of the types and the forms.
LEMMA DeskKnown ==
    ASSUME DeskInv
    PROVE  /\ file \in [VisitCustomers -> {"open", "paused", "unfit"}]
           /\ requests \in Seq(RequestRow) /\ offers \in Seq(OfferRow)
           /\ visits \in Seq(VisitRow) /\ token \in [Members -> TokenRow]
           /\ answering \in [offer: 0..MaxOffers, accept: BOOLEAN] /\ now \in Times
           /\ Len(requests) \in 0..MaxRequests /\ Len(offers) \in 0..MaxOffers
           /\ Len(visits) \in 0..MaxVisits
           /\ \A m \in Members : FormRefers(token[m])
<1>1. /\ file \in [VisitCustomers -> {"open", "paused", "unfit"}]
      /\ requests \in Seq(RequestRow) /\ offers \in Seq(OfferRow)
      /\ visits \in Seq(VisitRow) /\ token \in [Members -> TokenRow]
      /\ answering \in [offer: 0..MaxOffers, accept: BOOLEAN] /\ now \in Times
  BY DeskTypes DEF DeskInv
<1>2. /\ Len(requests) \in 0..MaxRequests /\ Len(offers) \in 0..MaxOffers
      /\ Len(visits) \in 0..MaxVisits
  BY <1>1, DeskNumbers DEF DeskInv, References
<1>3. \A m \in Members : FormRefers(token[m])
  BY DEF DeskInv, References, FormRefers
<1> QED
  BY <1>1, <1>2, <1>3

\* Rows are of their types and refer to rows there are.
LEMMA RowsKnown ==
    ASSUME DeskInv
    PROVE  /\ \A k \in 1..Len(offers) :
                offers[k] \in OfferRow /\ offers[k].request \in 1..Len(requests)
           /\ \A r \in 1..Len(requests) :
                requests[r] \in RequestRow /\ requests[r].original \in 0..Len(visits)
           /\ \A v \in 1..Len(visits) : visits[v] \in VisitRow
<1>1. /\ requests \in Seq(RequestRow) /\ offers \in Seq(OfferRow)
      /\ visits \in Seq(VisitRow)
      /\ Len(requests) \in Nat /\ Len(visits) \in Nat
  BY DeskKnown
<1>2. ASSUME NEW k \in 1..Len(offers)
      PROVE  offers[k] \in OfferRow /\ offers[k].request \in 1..Len(requests)
  <2>1. offers[k] \in OfferRow
    BY <1>1
  <2>2. offers[k].request \in 1..MaxRequests
    BY <2>1 DEF OfferRow
  <2>3. offers[k].request <= Len(requests)
    BY <1>2 DEF DeskInv, References
  <2> QED
    BY <1>1, <2>1, <2>2, <2>3, DeskNumbers
<1>3. ASSUME NEW r \in 1..Len(requests)
      PROVE  requests[r] \in RequestRow /\ requests[r].original \in 0..Len(visits)
  <2>1. requests[r] \in RequestRow
    BY <1>1
  <2>2. requests[r].original \in 0..MaxVisits
    BY <2>1 DEF RequestRow
  <2>3. requests[r].original <= Len(visits)
    BY <1>3 DEF DeskInv, References
  <2> QED
    BY <1>1, <2>1, <2>2, <2>3, DeskNumbers
<1>4. ASSUME NEW v \in 1..Len(visits) PROVE visits[v] \in VisitRow
  BY <1>1
<1> QED
  BY <1>2, <1>3, <1>4

\* What the invariant says of two offers of a request, and of an accepted one.
LEMMA OffersKnown ==
    ASSUME DeskInv, NEW k \in 1..Len(offers)
    PROVE  /\ \A l \in 1..Len(offers) :
                k # l /\ offers[k].request = offers[l].request =>
                  /\ ~(offers[k].state \in {"pending", "accepted"} /\ offers[l].state = "pending")
                  /\ ~(offers[k].state = "accepted" /\ offers[l].state = "accepted")
           /\ offers[k].state = "accepted" =>
                /\ requests[offers[k].request].outcome = "visit_scheduled"
                /\ offers[k].visit \in 1..Len(visits)
                /\ visits[offers[k].visit].at = offers[k].at
                /\ visits[offers[k].visit].customer = requests[offers[k].request].customer
<1>1. OneAnswerPerRequest
  BY DEF DeskInv
<1> QED
  BY <1>1 DEF OneAnswerPerRequest

\* Forms are opened on rows there are.
LEMMA TokenOpened ==
    ASSUME DeskInv, NEW m \in Members, NEW kind \in Kinds, NEW target \in Nat,
           NEW status \in VisitStates, NEW stage \in {"input", "confirm"},
           OpenToken(m, kind, target, status, stage),
           kind \in {"visit_offer", "resolve"} => target \in 1..Len(requests),
           kind = "visit_status" => target \in 1..Len(visits)
    PROVE  DeskInv'
<1> DEFINE t == [kind |-> kind, target |-> target, at |-> 0, status |-> status,
                 stage |-> stage, expires |-> now + FormTTL]
<1>1. token' = [token EXCEPT ![m] = t]
      /\ UNCHANGED <<file, requests, offers, visits, answering, now>>
  BY DEF OpenToken
<1>2. t \in TokenRow
  <2>1. now \in Nat /\ FormTTL \in Nat /\ 0 \in Times
    BY DeskKnown, DeskNumbers, Zenon
  <2>2. now + FormTTL \in Nat
    BY <2>1
  <2> QED
    BY <2>1, <2>2 DEF TokenRow
<1>3. FormRefers(t)
  BY DEF FormRefers
<1> HIDE DEF t
<1>4. token' \in [Members -> TokenRow] /\ \A o \in Members : FormRefers(token'[o])
  BY <1>1, <1>2, <1>3, DeskKnown
<1> QED
  BY <1>1, <1>4, DeskKnown, TablesAlone

\* The office's forms, up to their confirmation.
LEMMA FormSteps ==
    ASSUME DeskInv, NEW m \in Members
    PROVE  /\ CancelForm(m) => DeskInv'
           /\ \A at \in Times : InputTime(m, at) => DeskInv'
           /\ \A r \in 1..Len(requests) : StartOffer(m, r) \/ StartResolve(m, r) => DeskInv'
           /\ \A v \in 1..Len(visits), status \in VisitStates :
                 StartStatus(m, v, status) => DeskInv'
<1>1. ASSUME CancelForm(m) PROVE DeskInv'
  <2>1. token' = [token EXCEPT ![m] = NoToken]
        /\ UNCHANGED <<file, requests, offers, visits, answering, now>>
    BY <1>1 DEF CancelForm
  <2>2. FormRefers(NoToken)
    BY DEF FormRefers, NoToken
  <2>3. token' \in [Members -> TokenRow] /\ \A o \in Members : FormRefers(token'[o])
    BY <2>1, <2>2, NoTokenIsRow, DeskKnown
  <2> QED
    BY <2>1, <2>3, DeskKnown, TablesAlone
<1>2. ASSUME NEW at \in Times, InputTime(m, at) PROVE DeskInv'
  <2> DEFINE t == [token[m] EXCEPT !.at = at, !.stage = "confirm"]
  <2>1. token' = [token EXCEPT ![m] = t]
        /\ UNCHANGED <<file, requests, offers, visits, answering, now>>
    BY <1>2, Zenon DEF InputTime
  <2>2. token[m] \in TokenRow /\ FormRefers(token[m])
    BY DeskKnown
  <2>3. t \in TokenRow /\ t.kind = token[m].kind /\ t.target = token[m].target
    BY <2>2, TimeWrites, Zenon
  <2> HIDE DEF t
  <2>4. FormRefers(t)
    BY <2>2, <2>3 DEF FormRefers
  <2>5. token' \in [Members -> TokenRow] /\ \A o \in Members : FormRefers(token'[o])
    BY <2>1, <2>3, <2>4, DeskKnown
  <2> QED
    BY <2>1, <2>5, DeskKnown, TablesAlone
<1>3. ASSUME NEW r \in 1..Len(requests), StartOffer(m, r) \/ StartResolve(m, r) PROVE DeskInv'
  BY <1>3, TokenOpened DEF StartOffer, StartResolve, Kinds, VisitStates
<1>4. ASSUME NEW v \in 1..Len(visits), NEW status \in VisitStates, StartStatus(m, v, status)
      PROVE  DeskInv'
  BY <1>4, TokenOpened DEF StartStatus, Kinds
<1> QED
  BY <1>1, <1>2, <1>3, <1>4

\* Pauses, sales, time and failed answers.
LEMMA QuietSteps ==
    ASSUME DeskInv
    PROVE  /\ \A c \in VisitCustomers : WebChanges(c) \/ CustomerPauses(c) => DeskInv'
           /\ AnswerFails \/ DeskTick \/ UNCHANGED deskVars => DeskInv'
<1>1. ASSUME NEW c \in VisitCustomers, WebChanges(c) \/ CustomerPauses(c) PROVE DeskInv'
  BY <1>1, DeskKnown, TablesAlone DEF WebChanges, CustomerPauses
<1>2. ASSUME AnswerFails PROVE DeskInv'
  BY <1>2, DeskKnown, TablesAlone DEF AnswerFails
<1>3. ASSUME DeskTick PROVE DeskInv'
  <2>1. /\ now' = now + 1 /\ now < MaxTime
        /\ token' = [m \in Members |-> IF now' < token[m].expires THEN token[m] ELSE NoToken]
        /\ UNCHANGED <<file, requests, offers, visits, answering>>
    BY <1>3 DEF DeskTick
  <2>2. now' \in Times
    BY <2>1, DeskKnown, DeskNumbers DEF Times
  <2>3. FormRefers(NoToken)
    BY DEF FormRefers, NoToken
  <2>4. token' \in [Members -> TokenRow] /\ \A m \in Members : FormRefers(token'[m])
    BY <2>1, <2>3, NoTokenIsRow, DeskKnown
  <2> QED
    BY <2>1, <2>2, <2>4, DeskKnown, TablesAlone
<1>4. ASSUME UNCHANGED deskVars PROVE DeskInv'
  BY <1>4, DeskKnown, TablesAlone DEF deskVars
<1> QED
  BY <1>1, <1>2, <1>3, <1>4

-----------------------------------------------------------------------------
(***************************************************************************)
(* The steps that write a table.  Each has the new type, the references,   *)
(* the calendar and the three properties.                                  *)
(***************************************************************************)

\* A new request of a customer, to move a visit there is, or none.
LEMMA RequestAdded ==
    ASSUME DeskInv, NEW c \in VisitCustomers, NEW v \in 0..Len(visits), AppendRequest(c, v)
    PROVE  DeskInv'
<1> DEFINE e == [customer |-> c, original |-> v, outcome |-> "pending"]
           n == Len(requests)
<1>k. /\ requests \in Seq(RequestRow) /\ offers \in Seq(OfferRow)
      /\ visits \in Seq(VisitRow)
      /\ n \in Nat /\ Len(offers) \in Nat /\ Len(visits) \in 0..MaxVisits
      /\ MaxRequests \in Nat /\ MaxVisits \in Nat
  BY DeskKnown, DeskNumbers
<1>1. /\ n < MaxRequests /\ requests' = Append(requests, e)
      /\ UNCHANGED <<file, offers, visits, token, answering, now>>
  BY DEF AppendRequest
<1>2. e \in RequestRow
  BY <1>k DEF RequestRow, Outcomes
<1>3. /\ requests' \in Seq(RequestRow) /\ Len(requests') = n + 1
      /\ requests'[n + 1] = e /\ \A r \in 1..n : requests'[r] = requests[r]
  BY <1>1, <1>2, <1>k, SeqAppend
<1>4. e.original = v
  OBVIOUS
<1> HIDE DEF e
<1>5. DeskTypeOK'
  BY <1>1, <1>3, DeskTypes DEF DeskInv, DeskTypeOK, RequestRow
<1>6. References'
  <2>0. \A r \in 1..n : requests[r].original \in 0..Len(visits)
    BY RowsKnown
  <2>1. ASSUME NEW r \in 1..n + 1 PROVE requests'[r].original <= Len(visits)
    <3>1. CASE r = n + 1
      BY <1>3, <1>4, <1>k, <3>1
    <3>2. CASE r \in 1..n
      BY <1>3, <1>k, <2>0, <3>2
    <3> QED
      BY <1>k, <3>1, <3>2
  <2>2. \A m \in Members : FormRefers(token[m])
    BY DeskKnown
  <2>3. \A m \in Members :
          /\ token[m].kind \in {"visit_offer", "resolve"} => token[m].target \in 1..n + 1
          /\ token[m].kind = "visit_status" => token[m].target \in 1..Len(visits)
    BY <1>k, <2>2 DEF FormRefers
  <2>4. Len(requests') <= MaxRequests
    BY <1>1, <1>3, <1>k
  <2>5. \A k \in 1..Len(offers) : offers[k].request <= n + 1
    BY <1>k, RowsKnown
  <2>6. /\ Len(offers) <= MaxOffers /\ Len(visits) <= MaxVisits
        /\ answering.offer <= Len(offers)
    BY DEF DeskInv, References
  <2> QED
    BY <1>1, <1>3, <2>1, <2>3, <2>4, <2>5, <2>6 DEF References
<1>7. \A k \in 1..Len(offers) : offers[k].request \in 1..n
  BY RowsKnown
<1>8. CalendarHolds' /\ BotNeverDoubleBooks'
  <2>1. CalendarHolds /\ BotNeverDoubleBooks /\ visits' = visits /\ offers' = offers
        /\ answering' = answering
    BY <1>1 DEF DeskInv
  <2> QED
    BY <2>1 DEF CalendarHolds, BotNeverDoubleBooks
<1>9. OneAnswerPerRequest'
  BY <1>1, <1>3, <1>7 DEF DeskInv, OneAnswerPerRequest
<1>10. MovedVisitIsGivenUp'
  BY <1>1, <1>3, <1>7 DEF DeskInv, MovedVisitIsGivenUp
<1> QED
  BY <1>5, <1>6, <1>8, <1>9, <1>10 DEF DeskInv

\* A visit booked by the web application.
LEMMA WebBooked ==
    ASSUME DeskInv, NEW c \in VisitCustomers, NEW at \in Times, WebBooks(c, at)
    PROVE  DeskInv'
<1> DEFINE e == NewVisit(c, at, "web")
           n == Len(visits)
<1>k. /\ requests \in Seq(RequestRow) /\ offers \in Seq(OfferRow)
      /\ visits \in Seq(VisitRow)
      /\ n \in Nat /\ Len(offers) \in Nat /\ Len(requests) \in Nat
      /\ MaxVisits \in Nat
  BY DeskKnown, DeskNumbers
<1>1. /\ n < MaxVisits /\ visits' = Append(visits, e)
      /\ UNCHANGED <<file, requests, offers, token, answering, now>>
  BY DEF WebBooks
<1>2. e \in VisitRow /\ e.by = "web"
  BY NewVisitIsRow
<1> HIDE DEF e
<1>3. /\ visits' \in Seq(VisitRow) /\ Len(visits') = n + 1
      /\ visits'[n + 1] = e /\ \A v \in 1..n : visits'[v] = visits[v]
  BY <1>1, <1>2, <1>k, SeqAppend
<1>5. DeskTypeOK'
  BY <1>1, <1>3, DeskTypes DEF DeskInv, DeskTypeOK, VisitRow
<1>6. References'
  <2>1. \A r \in 1..Len(requests) : requests[r].original \in 0..n
    BY RowsKnown
  <2> QED
    BY <1>1, <1>3, <1>k, <2>1 DEF DeskInv, References
<1>7. CalendarHolds' /\ BotNeverDoubleBooks'
  BY <1>1, <1>2, <1>3, <1>k DEF DeskInv, CalendarHolds, BotNeverDoubleBooks
<1>8. OneAnswerPerRequest'
  BY <1>1, <1>3, <1>k DEF DeskInv, OneAnswerPerRequest
<1>9. MovedVisitIsGivenUp'
  <2>1. \A k \in 1..Len(offers) : offers[k].request \in 1..Len(requests)
    BY RowsKnown
  <2>2. \A r \in 1..Len(requests) : requests[r].original # 0 => requests[r].original \in 1..n
    BY <1>k, RowsKnown
  <2> QED
    BY <1>1, <1>3, <2>1, <2>2 DEF DeskInv, MovedVisitIsGivenUp
<1> QED
  BY <1>5, <1>6, <1>7, <1>8, <1>9 DEF DeskInv

\* Offers of which only the case or the state of some changes, none to an open
\* or an accepted one.
LEMMA OffersRevised ==
    ASSUME DeskInv, UNCHANGED <<requests, visits>>,
           file' \in [VisitCustomers -> {"open", "paused", "unfit"}],
           token' \in [Members -> TokenRow], now' \in Times,
           \A m \in Members : FormRefers(token'[m]),
           answering' = NoAnswer,
           offers' \in Seq(OfferRow), Len(offers') = Len(offers),
           \A k \in 1..Len(offers) :
               /\ offers'[k].request = offers[k].request
               /\ offers'[k].at = offers[k].at /\ offers'[k].visit = offers[k].visit
               /\ offers'[k].state = offers[k].state \/ offers'[k].state = "closed"
    PROVE  DeskInv'
<1>k. Len(offers) \in Nat /\ Len(requests) \in Nat /\ Len(visits) \in Nat
  BY DeskKnown
<1>1. DeskTypeOK'
  <2>1. answering' \in [offer: 0..MaxOffers, accept: BOOLEAN]
    BY NoTokenIsRow
  <2> QED
    BY <2>1, DeskTypes DEF DeskInv, DeskTypeOK, OfferRow, TokenRow
<1>2. References'
  BY <1>k DEF DeskInv, References, FormRefers, NoAnswer
<1>3. CalendarHolds'
  BY DEF CalendarHolds, NoAnswer
<1>4. OneAnswerPerRequest'
  BY DEF DeskInv, OneAnswerPerRequest
<1>5. BotNeverDoubleBooks /\ visits' = visits
  BY DEF DeskInv
<1>6. BotNeverDoubleBooks'
  BY <1>5 DEF BotNeverDoubleBooks
<1>7. MovedVisitIsGivenUp'
  BY DEF DeskInv, MovedVisitIsGivenUp
<1> QED
  BY <1>1, <1>2, <1>3, <1>4, <1>6, <1>7 DEF DeskInv

\* Visits of which only the status changes, none into the calendar but by the web.
LEMMA VisitsRevised ==
    ASSUME DeskInv, UNCHANGED <<requests, offers>>,
           file' \in [VisitCustomers -> {"open", "paused", "unfit"}],
           token' \in [Members -> TokenRow], now' \in Times,
           \A m \in Members : FormRefers(token'[m]),
           answering' = answering,
           visits' \in Seq(VisitRow), Len(visits') = Len(visits),
           \A v \in 1..Len(visits) :
               /\ visits'[v].at = visits[v].at /\ visits'[v].by = visits[v].by
               /\ visits'[v].customer = visits[v].customer
               /\ Stands(visits'[v]) => Stands(visits[v])
    PROVE  DeskInv'
<1> DEFINE n == Len(visits)
<1>k. n \in Nat
  BY DeskKnown
<1>1. DeskTypeOK'
  BY DeskTypes DEF DeskInv, DeskTypeOK, VisitRow, TokenRow
<1>2. References'
  BY DEF DeskInv, References, FormRefers
<1>3. CalendarHolds'
  BY DEF DeskInv, CalendarHolds
<1>4. OneAnswerPerRequest'
  BY DEF DeskInv, OneAnswerPerRequest
<1>5. BotNeverDoubleBooks'
  BY DEF DeskInv, BotNeverDoubleBooks
<1>6. MovedVisitIsGivenUp'
  <2>1. \A k \in 1..Len(offers) : requests[offers[k].request].original \in 0..n
    BY RowsKnown
  <2> QED
    BY <1>k, <2>1 DEF DeskInv, MovedVisitIsGivenUp
<1> QED
  BY <1>1, <1>2, <1>3, <1>4, <1>5, <1>6 DEF DeskInv

\* The web application sets the status of a visit.
LEMMA WebMarks ==
    ASSUME DeskInv, NEW v \in 1..Len(visits),
           WebReopens(v) \/ \E status \in VisitStates : WebEnds(v, status)
    PROVE  DeskInv'
<1>1. visits \in Seq(VisitRow)
  BY DeskKnown
<1>2. PICK status \in VisitStates, back \in BOOLEAN :
        /\ MarkedIn(visits', v, status, back) /\ (status = "scheduled" => back)
        /\ UNCHANGED <<file, requests, offers, token, answering, now>>
  <2>1. ASSUME WebReopens(v)
        PROVE  /\ MarkedIn(visits', v, "scheduled", TRUE)
               /\ UNCHANGED <<file, requests, offers, token, answering, now>>
    BY <2>1, Zenon DEF WebReopens, MarkedIn
  <2>2. "scheduled" \in VisitStates
    BY DEF VisitStates
  <2>3. ASSUME NEW status \in VisitStates, WebEnds(v, status)
        PROVE  /\ MarkedIn(visits', v, status, FALSE)
               /\ status # "scheduled"
               /\ UNCHANGED <<file, requests, offers, token, answering, now>>
    BY <2>3, Zenon DEF WebEnds, Ended, MarkedIn
  <2> QED
    BY <2>1, <2>2, <2>3, Zenon
<1>3. /\ visits' \in Seq(VisitRow) /\ Len(visits') = Len(visits)
      /\ visits'[v].status = status /\ visits'[v].reopened = back
      /\ \A w \in 1..Len(visits) :
           /\ visits'[w].at = visits[w].at /\ visits'[w].by = visits[w].by
           /\ visits'[w].customer = visits[w].customer
           /\ w # v => visits'[w] = visits[w]
  BY <1>1, <1>2, VisitsMarked
<1>4. ~Stands(visits'[v])
  BY <1>2, <1>3, Zenon DEF Stands
<1>5. \A w \in 1..Len(visits) : Stands(visits'[w]) => Stands(visits[w])
  BY <1>3, <1>4
<1> QED
  BY <1>2, <1>3, <1>5, DeskKnown, VisitsRevised

\* The customer's case changes, or the customer declines.
LEMMA RevisingSteps ==
    ASSUME DeskInv
    PROVE  /\ \A c \in VisitCustomers : CaseChanges(c) => DeskInv'
           /\ AnswerDecline => DeskInv'
<1>k. /\ offers \in Seq(OfferRow) /\ Len(offers) \in Nat
      /\ \A k \in 1..Len(offers) : offers[k] \in OfferRow
  BY DeskKnown, RowsKnown
<1>1. ASSUME NEW c \in VisitCustomers, CaseChanges(c) PROVE DeskInv'
  <2> DEFINE w(k) == IF requests[offers[k].request].customer = c /\ offers[k].state = "pending"
                     THEN [offers[k] EXCEPT !.case = "former"] ELSE offers[k]
  <2>1. /\ offers' = [k \in 1..Len(offers) |-> w(k)] /\ answering = NoAnswer
        /\ UNCHANGED <<file, requests, visits, token, answering, now>>
    BY <1>1 DEF CaseChanges, BotFree
  <2>2. ASSUME NEW k \in 1..Len(offers)
        PROVE  /\ w(k) \in OfferRow /\ w(k).request = offers[k].request
               /\ w(k).at = offers[k].at /\ w(k).visit = offers[k].visit
               /\ w(k).state = offers[k].state
    BY <1>k DEF OfferRow
  <2> HIDE DEF w
  <2>3. offers' \in [1..Len(offers) -> OfferRow]
    BY <2>1, <2>2
  <2>4. offers' \in Seq(OfferRow) /\ Len(offers') = Len(offers)
    BY <1>k, <2>3, SeqRewrite
  <2>5. \A k \in 1..Len(offers) : offers'[k] = w(k)
    BY <2>1
  <2> QED
    BY <2>1, <2>2, <2>4, <2>5, DeskKnown, OffersRevised
<1>2. ASSUME AnswerDecline PROVE DeskInv'
  <2> DEFINE k == answering.offer
             x == [offers[k] EXCEPT !.state = "closed"]
  <2>1. /\ k # 0 /\ offers' = [offers EXCEPT ![k] = x] /\ answering' = NoAnswer
        /\ UNCHANGED <<file, requests, visits, token, now>>
    BY <1>2 DEF AnswerDecline
  <2>2. k \in 1..Len(offers)
    <3>1. k \in 0..MaxOffers /\ k <= Len(offers)
      BY DeskKnown DEF DeskInv, References
    <3> QED
      BY <1>k, <2>1, <3>1, DeskNumbers
  <2>3. /\ x \in OfferRow /\ x.request = offers[k].request
        /\ x.at = offers[k].at /\ x.visit = offers[k].visit /\ x.state = "closed"
    BY <1>k, <2>2 DEF OfferRow, OfferStates
  <2> HIDE DEF k, x
  <2>4. /\ offers' \in Seq(OfferRow) /\ Len(offers') = Len(offers) /\ offers'[k] = x
        /\ \A j \in 1..Len(offers) : j # k => offers'[j] = offers[j]
    BY <1>k, <2>1, <2>2, <2>3, SeqUpdate
  <2>5. \A j \in 1..Len(offers) :
           /\ offers'[j].request = offers[j].request
           /\ offers'[j].at = offers[j].at /\ offers'[j].visit = offers[j].visit
           /\ offers'[j].state = offers[j].state \/ offers'[j].state = "closed"
    BY <2>3, <2>4
  <2> QED
    BY <2>1, <2>4, <2>5, DeskKnown, OffersRevised
<1> QED
  BY <1>1, <1>2

\* answer_proposal finds the offer valid and, to accept it, the time free.
LEMMA AnswerChecked ==
    ASSUME DeskInv, NEW k \in 1..Len(offers), NEW accept \in BOOLEAN, AnswerCheck(k, accept)
    PROVE  DeskInv'
<1>k. Len(offers) \in 0..MaxOffers /\ MaxOffers \in Nat
  BY DeskKnown, DeskNumbers
<1>1. /\ answering' = [offer |-> k, accept |-> accept]
      /\ accept => AdviserFree(offers[k].at)
      /\ UNCHANGED <<file, requests, offers, visits, token, now>>
  BY DEF AnswerCheck
<1>2. answering'.offer = k /\ answering'.accept = accept
  BY <1>1
<1>3. answering' \in [offer: 0..MaxOffers, accept: BOOLEAN]
  BY <1>1, <1>k
<1>4. DeskTypeOK'
  BY <1>1, <1>3 DEF DeskInv, DeskTypeOK
<1>5. References'
  BY <1>1, <1>2, <1>k DEF DeskInv, References
<1>6. CalendarHolds'
  BY <1>1, <1>2 DEF CalendarHolds, AdviserFree, Stands
<1>7. OneAnswerPerRequest /\ BotNeverDoubleBooks /\ MovedVisitIsGivenUp
  BY DEF DeskInv
<1>8. OneAnswerPerRequest'
  BY <1>1, <1>7 DEF OneAnswerPerRequest
<1>9. BotNeverDoubleBooks' /\ MovedVisitIsGivenUp'
  BY <1>1, <1>7 DEF BotNeverDoubleBooks, MovedVisitIsGivenUp
<1> QED
  BY <1>4, <1>5, <1>6, <1>8, <1>9 DEF DeskInv

-----------------------------------------------------------------------------
\* An office form is confirmed: its token is consumed, no answer is under way.
LEMMA TokenConsumed ==
    ASSUME DeskInv, NEW m \in Members, Confirm(m)
    PROVE  /\ answering = NoAnswer /\ UNCHANGED <<file, answering, now>>
           /\ token' = [token EXCEPT ![m] = NoToken]
           /\ token' \in [Members -> TokenRow]
           /\ \A o \in Members : FormRefers(token'[o])
<1>1. /\ answering = NoAnswer /\ UNCHANGED <<file, answering, now>>
      /\ token' = [token EXCEPT ![m] = NoToken]
  BY DEF Confirm, BotFree
<1>2. FormRefers(NoToken)
  BY DEF FormRefers, NoToken
<1> QED
  BY <1>1, <1>2, NoTokenIsRow, DeskKnown

\* The offer that gives way to a new one is the only open one of the request.
LEMMA PreviousIsOnly ==
    ASSUME DeskInv, NEW r \in 1..Len(requests)
    PROVE  /\ PreviousOffer(r) \in 0..Len(offers)
           /\ \A k \in 1..Len(offers) :
                offers[k].request = r /\ offers[k].state = "pending" => k = PreviousOffer(r)
<1> DEFINE pending == {k \in 1..Len(offers) : offers[k].request = r /\ offers[k].state = "pending"}
<1>k. Len(offers) \in Nat
  BY DeskKnown
<1>1. ASSUME NEW k \in pending, NEW l \in pending PROVE k = l
  BY <1>1 DEF DeskInv, OneAnswerPerRequest
<1>2. CASE pending = {}
  BY <1>2, <1>k DEF PreviousOffer
<1>3. CASE pending # {}
  <2>1. PICK q \in pending : TRUE
    BY <1>3
  <2>2. \A l \in pending : q <= l
    BY <1>1, <1>k
  <2>3. PreviousOffer(r) = CHOOSE k \in pending : \A l \in pending : k <= l
    BY <1>3 DEF PreviousOffer
  <2> HIDE DEF pending
  <2>4. PreviousOffer(r) \in pending
    BY <2>1, <2>2, <2>3
  <2>5. \A k \in pending : k = PreviousOffer(r)
    BY <1>1, <2>4
  <2> QED
    BY <1>k, <2>4, <2>5 DEF pending
<1> QED
  BY <1>2, <1>3

\* An offer is made, or found made.
LEMMA OfferConfirmed ==
    ASSUME DeskInv, NEW m \in Members, Confirm(m), token[m].kind = "visit_offer",
           Offerable(token[m].target, token[m].at), Len(offers) < MaxOffers,
           offers' = Offered(token[m].target, token[m].at),
           UNCHANGED <<requests, visits>>
    PROVE  DeskInv'
<1> DEFINE r == token[m].target
           p == PreviousOffer(r)
           u == Superseded(r)
           e == NewOffer(r, token[m].at)
           n == Len(offers)
<1>k. /\ offers \in Seq(OfferRow) /\ n \in Nat /\ n < MaxOffers /\ MaxOffers \in Nat
      /\ now \in Nat /\ OfferTTL \in Nat /\ token[m].at \in 0..MaxTime /\ MaxTime \in Nat
      /\ Len(requests) \in 0..MaxRequests /\ MaxRequests \in Nat
  <2>1. token[m] \in TokenRow /\ now \in Times
    BY DeskKnown
  <2>2. token[m].at \in 0..MaxTime /\ now \in Nat
    BY <2>1, DeskNumbers DEF TokenRow, Times
  <2>3. OfferTTL \in Nat /\ MaxTime \in Nat /\ MaxRequests \in Nat /\ MaxOffers \in Nat
    BY DeskNumbers
  <2>4. offers \in Seq(OfferRow) /\ n \in Nat /\ Len(requests) \in 0..MaxRequests
    BY DeskKnown
  <2> QED
    BY <2>2, <2>3, <2>4
<1>r. r \in 1..Len(requests)
  BY DeskKnown DEF FormRefers
<1>c. CASE offers' = offers
  BY <1>c, TokenConsumed, DeskKnown, TablesAlone
<1>a. CASE offers' = Append(u, e)
  <2>1. e \in OfferRow /\ e.request = r /\ e.state = "pending"
    <3>1. e.expires \in Times
      BY <1>k DEF NewOffer, Times
    <3>2. r \in 1..MaxRequests /\ 0 \in 0..MaxVisits
      BY <1>k, <1>r, DeskNumbers
    <3> QED
      BY <1>k, <3>1, <3>2 DEF NewOffer, OfferRow, OfferStates, Times
  <2>2. \A k \in 1..n :
          /\ u[k] \in OfferRow /\ u[k].request = offers[k].request
          /\ u[k].at = offers[k].at /\ u[k].visit = offers[k].visit
          /\ u[k].state = IF k = p THEN "closed" ELSE offers[k].state
    BY RowsKnown DEF Superseded, OfferRow, OfferStates
  <2>3. u \in [1..n -> OfferRow]
    BY <2>2 DEF Superseded
  <2>4. u \in Seq(OfferRow) /\ Len(u) = n
    BY <1>k, <2>3, SeqRewrite
  <2>5. p \in 0..n /\ \A k \in 1..n :
          offers[k].request = r /\ offers[k].state = "pending" => k = p
    BY <1>r, PreviousIsOnly
  <2>6. \A k \in 1..n : offers[k].state = "accepted" => offers[k].request # r
    BY <1>r DEF DeskInv, OneAnswerPerRequest, Offerable, Fit
  <2> HIDE DEF u, e, p, r
  <2>7. /\ offers' \in Seq(OfferRow) /\ Len(offers') = n + 1 /\ offers'[n + 1] = e
        /\ \A k \in 1..n : offers'[k] = u[k]
    BY <1>a, <2>1, <2>4, SeqAppend
  <2>8. DeskTypeOK'
    BY <2>7, TokenConsumed, DeskTypes DEF DeskInv, DeskTypeOK, OfferRow, TokenRow
  <2>9. References'
    <3>1. \A k \in 1..n + 1 : offers'[k].request <= Len(requests)
      <4>1. \A k \in 1..n : offers[k].request \in 1..Len(requests)
        BY RowsKnown
      <4>2. \A k \in 1..n : offers'[k].request \in 1..Len(requests)
        BY <2>2, <2>7, <4>1
      <4>3. offers'[n + 1].request \in 1..Len(requests)
        BY <1>r, <2>1, <2>7
      <4> QED
        BY <1>k, <4>2, <4>3
    <3>2. Len(offers') <= MaxOffers /\ answering'.offer <= Len(offers')
      BY <1>k, <2>7, TokenConsumed DEF NoAnswer
    <3>3. \A o \in Members : FormRefers(token'[o])
      BY TokenConsumed
    <3> QED
      BY <2>7, <3>1, <3>2, <3>3 DEF DeskInv, References, FormRefers
  <2>10. CalendarHolds'
    BY TokenConsumed DEF CalendarHolds, NoAnswer
  <2>15. /\ offers'[n + 1].request = r /\ offers'[n + 1].state = "pending"
         /\ \A k \in 1..n :
              /\ offers'[k].request = offers[k].request
              /\ offers'[k].at = offers[k].at /\ offers'[k].visit = offers[k].visit
              /\ offers'[k].state = IF k = p THEN "closed" ELSE offers[k].state
    BY <2>1, <2>2, <2>7
  <2>16. \A k \in 1..n : offers[k].request = r => offers'[k].state \notin {"pending", "accepted"}
    BY <2>5, <2>6, <2>15
  <2>11. OneAnswerPerRequest'
    <3>1. ASSUME NEW k \in 1..n + 1, NEW l \in 1..n + 1, k # l,
                 offers'[k].request = offers'[l].request
          PROVE  /\ ~(offers'[k].state \in {"pending", "accepted"} /\ offers'[l].state = "pending")
                 /\ ~(offers'[k].state = "accepted" /\ offers'[l].state = "accepted")
      <4>1. CASE k = n + 1
        <5>1. l \in 1..n /\ offers[l].request = r
          BY <1>k, <2>15, <3>1, <4>1
        <5> QED
          BY <2>16, <5>1
      <4>2. CASE l = n + 1
        <5>1. k \in 1..n /\ offers[k].request = r
          BY <1>k, <2>15, <3>1, <4>2
        <5> QED
          BY <2>16, <5>1
      <4>3. CASE k \in 1..n /\ l \in 1..n
        <5>1. offers[k].request = offers[l].request
          BY <2>15, <3>1, <4>3
        <5> QED
          BY <2>15, <3>1, <4>3, <5>1, OffersKnown
      <4> QED
        BY <1>k, <4>1, <4>2, <4>3
    <3>2. ASSUME NEW k \in 1..n + 1, offers'[k].state = "accepted"
          PROVE  /\ requests'[offers'[k].request].outcome = "visit_scheduled"
                 /\ offers'[k].visit \in 1..Len(visits')
                 /\ visits'[offers'[k].visit].at = offers'[k].at
                 /\ visits'[offers'[k].visit].customer = requests'[offers'[k].request].customer
      <4>1. k \in 1..n
        BY <1>k, <2>15, <3>2
      <4>2. /\ offers[k].state = "accepted" /\ offers'[k].request = offers[k].request
            /\ offers'[k].at = offers[k].at /\ offers'[k].visit = offers[k].visit
        BY <2>15, <3>2, <4>1
      <4> QED
        BY <4>1, <4>2, OffersKnown
    <3>3. Len(offers') = n + 1
      BY <2>7
    <3>4. \A k, l \in 1..Len(offers') :
             k # l /\ offers'[k].request = offers'[l].request =>
               /\ ~(offers'[k].state \in {"pending", "accepted"} /\ offers'[l].state = "pending")
               /\ ~(offers'[k].state = "accepted" /\ offers'[l].state = "accepted")
      BY <3>1, <3>3
    <3> QED
      BY <3>2, <3>3, <3>4, Zenon DEF OneAnswerPerRequest
  <2>12. BotNeverDoubleBooks /\ visits' = visits
    BY DEF DeskInv
  <2>13. BotNeverDoubleBooks'
    BY <2>12 DEF BotNeverDoubleBooks
  <2>14. MovedVisitIsGivenUp'
    <3> SUFFICES ASSUME NEW k \in 1..n + 1, offers'[k].state = "accepted",
                        requests[offers'[k].request].original # 0
                 PROVE  ~Stands(visits[requests[offers'[k].request].original])
      <4>1. Len(offers') = n + 1 /\ requests' = requests /\ visits' = visits
        BY <2>7
      <4> QED
        BY <4>1 DEF MovedVisitIsGivenUp
    <3>1. k \in 1..n
      BY <1>k, <2>15
    <3>2. offers[k].state = "accepted" /\ offers'[k].request = offers[k].request
      BY <2>15, <3>1
    <3>3. MovedVisitIsGivenUp
      BY DEF DeskInv
    <3> QED
      BY <3>1, <3>2, <3>3 DEF MovedVisitIsGivenUp
  <2> QED
    BY <2>8, <2>9, <2>10, <2>11, <2>13, <2>14 DEF DeskInv
<1> QED
  BY <1>c, <1>a DEF Offered

\* The outcome of a visit, or its cancellation, is recorded.
LEMMA StatusConfirmed ==
    ASSUME DeskInv, NEW m \in Members, Confirm(m), token[m].kind = "visit_status",
           token[m].status # "scheduled", SetStatus(token[m].target, token[m].status)
    PROVE  DeskInv'
<1> DEFINE v == token[m].target
           status == token[m].status
<1>1. visits \in Seq(VisitRow) /\ v \in 1..Len(visits) /\ status \in VisitStates
  BY DeskKnown DEF FormRefers, TokenRow
<1>2. PICK back \in BOOLEAN :
        MarkedIn(visits', v, status, back) /\ UNCHANGED <<requests, offers>>
  BY Zenon DEF SetStatus, Ended, MarkedIn
<1> HIDE DEF v, status
<1>3. /\ visits' \in Seq(VisitRow) /\ Len(visits') = Len(visits)
      /\ visits'[v].status = status
      /\ \A w \in 1..Len(visits) :
           /\ visits'[w].at = visits[w].at /\ visits'[w].by = visits[w].by
           /\ visits'[w].customer = visits[w].customer
           /\ w # v => visits'[w] = visits[w]
  BY <1>1, <1>2, VisitsMarked
<1>4. ~Stands(visits'[v])
  BY <1>3 DEF Stands, status
<1>5. \A w \in 1..Len(visits) : Stands(visits'[w]) => Stands(visits[w])
  BY <1>3, <1>4
<1> QED
  BY <1>2, <1>3, <1>5, DeskKnown, TokenConsumed, VisitsRevised

\* A request is resolved without a visit.
LEMMA ResolveConfirmed ==
    ASSUME DeskInv, NEW m \in Members, Confirm(m), UNCHANGED <<offers, visits>>,
           requests' \in Seq(RequestRow), Len(requests') = Len(requests),
           \A j \in 1..Len(requests) :
               /\ requests'[j].original = requests[j].original
               /\ requests'[j].customer = requests[j].customer
               /\ requests[j].outcome = "visit_scheduled"
                    => requests'[j].outcome = "visit_scheduled"
    PROVE  DeskInv'
<1> DEFINE n == Len(requests)
<1>4. requests' \in Seq(RequestRow) /\ Len(requests') = n
  OBVIOUS
<1>5. \A j \in 1..n :
        /\ requests'[j].original = requests[j].original
        /\ requests'[j].customer = requests[j].customer
        /\ requests[j].outcome = "visit_scheduled" => requests'[j].outcome = "visit_scheduled"
  OBVIOUS
<1>6. DeskTypeOK'
  BY <1>4, TokenConsumed, DeskTypes DEF DeskInv, DeskTypeOK, RequestRow, TokenRow
<1>7. References'
  <2>1. \A o \in Members : FormRefers(token'[o])
    BY TokenConsumed
  <2> QED
    BY <1>4, <1>5, <2>1, TokenConsumed DEF DeskInv, References, FormRefers
<1>8. CalendarHolds'
  BY TokenConsumed DEF CalendarHolds, NoAnswer
<1>9. BotNeverDoubleBooks /\ visits' = visits
  BY DEF DeskInv
<1>10. BotNeverDoubleBooks'
  BY <1>9 DEF BotNeverDoubleBooks
<1>11. \A k \in 1..Len(offers) : offers[k].request \in 1..n
  BY RowsKnown
<1>12. OneAnswerPerRequest'
  <2>1. ASSUME NEW k \in 1..Len(offers), offers[k].state = "accepted"
        PROVE  /\ requests'[offers[k].request].outcome = "visit_scheduled"
               /\ requests'[offers[k].request].customer = requests[offers[k].request].customer
    BY <1>5, <1>11, <2>1, OffersKnown
  <2>2. OneAnswerPerRequest
    BY DEF DeskInv
  <2> QED
    BY <2>1, <2>2 DEF OneAnswerPerRequest
<1>13. MovedVisitIsGivenUp'
  <2>1. MovedVisitIsGivenUp
    BY DEF DeskInv
  <2> QED
    BY <1>5, <1>11, <2>1 DEF MovedVisitIsGivenUp
<1> QED
  BY <1>6, <1>7, <1>8, <1>10, <1>12, <1>13 DEF DeskInv

\* The claim and the commit of an accepted offer.
LEMMA OfferAccepted ==
    ASSUME DeskInv, AnswerAccept
    PROVE  DeskInv'
<1> DEFINE k == answering.offer
           r == offers[k].request
           g == requests[r].original
           n == Len(visits)
           u == OriginalCancelled(g)
           e == NewVisit(requests[r].customer, offers[k].at, "bot")
           o == [offers[k] EXCEPT !.state = "accepted", !.visit = n + 1]
           q == [requests[r] EXCEPT !.outcome = "visit_scheduled"]
<1>1. /\ k # 0 /\ answering.accept /\ n < MaxVisits /\ answering' = NoAnswer
      /\ offers[k].state = "pending"
      /\ visits' = Append(u, e) /\ requests' = [requests EXCEPT ![r] = q]
      /\ UNCHANGED <<file, token, now>>
  BY DEF AnswerAccept
<1>2. offers' = [offers EXCEPT ![k] = o]
  BY Zenon DEF AnswerAccept
<1>k. /\ requests \in Seq(RequestRow) /\ offers \in Seq(OfferRow) /\ visits \in Seq(VisitRow)
      /\ Len(requests) \in Nat /\ Len(offers) \in Nat /\ n \in Nat /\ MaxVisits \in Nat
      /\ k \in 0..MaxOffers /\ MaxOffers \in Nat
  <2>1. k \in 0..MaxOffers
    BY DeskKnown
  <2>2. Len(requests) \in Nat /\ Len(offers) \in Nat /\ n \in Nat
    BY DeskKnown
  <2> QED
    BY <2>1, <2>2, DeskKnown, DeskNumbers, Zenon
<1>3. /\ k \in 1..Len(offers) /\ offers[k] \in OfferRow
      /\ r \in 1..Len(requests) /\ requests[r] \in RequestRow /\ g \in 0..n
  <2>1. k <= Len(offers)
    BY DEF DeskInv, References
  <2>0. k # 0 /\ k \in 0..MaxOffers /\ MaxOffers \in Nat /\ Len(offers) \in Nat
    BY <1>1, <1>k, Zenon
  <2>2. k \in 1..Len(offers)
    BY <2>0, <2>1
  <2>3. offers[k] \in OfferRow /\ r \in 1..Len(requests)
    BY <2>2, RowsKnown
  <2>4. requests[r] \in RequestRow /\ g \in 0..n
    BY <2>3, RowsKnown, Zenon
  <2> QED
    BY <2>2, <2>3, <2>4, Zenon
<1>4. o \in OfferRow /\ o.state = "accepted" /\ o.visit = n + 1 /\ o.request = r
      /\ o.at = offers[k].at
  <2>0. n < MaxVisits /\ n \in Nat /\ MaxVisits \in Nat
    BY <1>1, <1>k, Zenon
  <2>1. n + 1 \in 0..MaxVisits
    BY <2>0
  <2> QED
    BY <1>3, <2>1, AcceptWrites, Zenon
<1>5. /\ q \in RequestRow /\ q.outcome = "visit_scheduled" /\ q.original = g
      /\ q.customer = requests[r].customer
  BY <1>3 DEF RequestRow, Outcomes
<1>6. /\ e \in VisitRow /\ e.at = offers[k].at /\ e.customer = requests[r].customer
      /\ e.by = "bot"
  BY <1>3, NewVisitIsRow DEF OfferRow, RequestRow
<1>7. /\ u \in Seq(VisitRow) /\ Len(u) = n
      /\ \A v \in 1..n :
           /\ u[v].at = visits[v].at /\ u[v].customer = visits[v].customer
           /\ u[v].by = visits[v].by
           /\ Stands(u[v]) => v # g /\ Stands(visits[v])
  <2>1. CASE g = 0
    BY <1>k, <2>1 DEF OriginalCancelled
  <2>2. CASE g # 0
    <3>0. g \in 1..n /\ "cancelled" \in VisitStates
      BY <1>3, <1>k, <2>2 DEF VisitStates
    <3>1. PICK back \in BOOLEAN : MarkedIn(u, g, "cancelled", back)
      BY <2>2, Zenon DEF OriginalCancelled, Ended, MarkedIn
    <3> HIDE DEF g, u
    <3>2. /\ u \in Seq(VisitRow) /\ Len(u) = n /\ u[g].status = "cancelled"
          /\ \A v \in 1..n :
               /\ u[v].at = visits[v].at /\ u[v].by = visits[v].by
               /\ u[v].customer = visits[v].customer
               /\ v # g => u[v] = visits[v]
      BY <1>k, <3>0, <3>1, VisitsMarked
    <3>3. ~Stands(u[g])
      BY <3>2 DEF Stands
    <3> QED
      BY <3>2, <3>3
  <2> QED
    BY <2>1, <2>2
<1> HIDE DEF u, e, o, q, g, r, k
<1>8. /\ visits' \in Seq(VisitRow) /\ Len(visits') = n + 1 /\ visits'[n + 1] = e
      /\ \A v \in 1..n : visits'[v] = u[v]
  BY <1>1, <1>6, <1>7, SeqAppend
<1>19. \A v \in 1..n :
         visits'[v].at = visits[v].at /\ visits'[v].customer = visits[v].customer
  BY <1>7, <1>8
<1>9. /\ offers' \in Seq(OfferRow) /\ Len(offers') = Len(offers) /\ offers'[k] = o
      /\ \A j \in 1..Len(offers) : j # k => offers'[j] = offers[j]
  BY <1>2, <1>3, <1>4, <1>k, SeqUpdate
<1>10. /\ requests' \in Seq(RequestRow) /\ Len(requests') = Len(requests) /\ requests'[r] = q
       /\ \A j \in 1..Len(requests) : j # r => requests'[j] = requests[j]
  BY <1>1, <1>3, <1>5, <1>k, SeqUpdate
<1>11. /\ \A j \in 1..Len(offers) : offers[j].request \in 1..Len(requests)
       /\ \A j \in 1..Len(requests) : requests[j].original \in 0..n
  BY RowsKnown
<1>12. DeskTypeOK'
  <2>1. answering' \in [offer: 0..MaxOffers, accept: BOOLEAN]
    BY <1>1, NoTokenIsRow
  <2> QED
    BY <1>1, <1>8, <1>9, <1>10, <2>1, DeskTypes
       DEF DeskInv, DeskTypeOK, RequestRow, OfferRow, VisitRow, TokenRow
<1>13. References'
  <2>1. \A j \in 1..Len(requests) : requests'[j].original <= n + 1
    BY <1>3, <1>5, <1>10, <1>11, <1>k
  <2>2. \A j \in 1..Len(offers) : offers'[j].request <= Len(requests)
    BY <1>3, <1>4, <1>9, <1>11, <1>k
  <2>3. \A m \in Members :
          /\ token[m].kind \in {"visit_offer", "resolve"} => token[m].target \in 1..Len(requests)
          /\ token[m].kind = "visit_status" => token[m].target \in 1..n + 1
    BY <1>k, DeskKnown DEF FormRefers
  <2>4. Len(requests) <= MaxRequests /\ Len(offers) <= MaxOffers
    BY DEF DeskInv, References
  <2> QED
    BY <1>1, <1>8, <1>9, <1>10, <1>k, <2>1, <2>2, <2>3, <2>4 DEF References, NoAnswer
<1>14. CalendarHolds'
  BY <1>1 DEF CalendarHolds, NoAnswer
<1>15. BotNeverDoubleBooks'
  <2>1. \A v \in 1..n : visits[v].by = "bot" /\ Stands(visits[v]) => visits[v].at # e.at
    BY <1>1, <1>6 DEF DeskInv, CalendarHolds, k
  <2>2. ASSUME NEW v \in 1..n, Stands(visits'[v])
        PROVE  /\ Stands(visits[v]) /\ visits'[v].at = visits[v].at
               /\ visits'[v].by = visits[v].by
    BY <1>7, <1>8, <2>2
  <2> SUFFICES ASSUME NEW v \in 1..n + 1, NEW w \in 1..n + 1, v # w,
                      visits'[v].by = "bot", visits'[w].by = "bot",
                      Stands(visits'[v]), Stands(visits'[w])
               PROVE  visits'[v].at # visits'[w].at
    BY <1>8 DEF BotNeverDoubleBooks
  <2>6. \A x \in 1..n : Stands(visits'[x]) /\ visits'[x].by = "bot" => visits'[x].at # e.at
    BY <2>1, <2>2, Zenon
  <2>3. CASE v = n + 1
    <3>1. w \in 1..n
      BY <1>k, <2>3
    <3> QED
      BY <1>8, <2>3, <2>6, <3>1
  <2>4. CASE w = n + 1
    <3>1. v \in 1..n
      BY <1>k, <2>4
    <3> QED
      BY <1>8, <2>4, <2>6, <3>1
  <2>5. CASE v \in 1..n /\ w \in 1..n
    BY <2>2, <2>5 DEF DeskInv, BotNeverDoubleBooks
  <2> QED
    BY <1>k, <2>3, <2>4, <2>5
<1>16. \A j \in 1..Len(offers) :
         j # k /\ offers[j].request = r => offers[j].state \notin {"pending", "accepted"}
  BY <1>1, <1>3 DEF DeskInv, OneAnswerPerRequest, r
<1>17. OneAnswerPerRequest'
  <2>1. ASSUME NEW i \in 1..Len(offers), NEW j \in 1..Len(offers), i # j,
               offers'[i].request = offers'[j].request
        PROVE  /\ ~(offers'[i].state \in {"pending", "accepted"} /\ offers'[j].state = "pending")
               /\ ~(offers'[i].state = "accepted" /\ offers'[j].state = "accepted")
    <3>1. CASE i = k
      BY <1>4, <1>9, <1>16, <2>1, <3>1
    <3>2. CASE j = k
      BY <1>4, <1>9, <1>16, <2>1, <3>2
    <3>3. CASE i # k /\ j # k
      BY <1>9, <2>1, <3>3 DEF DeskInv, OneAnswerPerRequest
    <3> QED
      BY <3>1, <3>2, <3>3
  <2>2. ASSUME NEW j \in 1..Len(offers), offers'[j].state = "accepted"
        PROVE  /\ requests'[offers'[j].request].outcome = "visit_scheduled"
               /\ offers'[j].visit \in 1..n + 1
               /\ visits'[offers'[j].visit].at = offers'[j].at
               /\ visits'[offers'[j].visit].customer = requests'[offers'[j].request].customer
    <3>1. CASE j = k
      BY <1>3, <1>4, <1>5, <1>6, <1>8, <1>9, <1>10, <1>k, <3>1
    <3>2. CASE j # k
      <4>1. offers'[j] = offers[j] /\ offers[j].request # r
        BY <1>9, <1>16, <2>2, <3>2
      <4>2. requests'[offers[j].request] = requests[offers[j].request]
        BY <1>10, <1>11, <4>1
      <4>3. /\ requests[offers[j].request].outcome = "visit_scheduled"
            /\ offers[j].visit \in 1..n
            /\ visits[offers[j].visit].at = offers[j].at
            /\ visits[offers[j].visit].customer = requests[offers[j].request].customer
        BY <2>2, <4>1 DEF DeskInv, OneAnswerPerRequest
      <4>4. offers[j].visit \in 1..n + 1
        BY <1>k, <4>3
      <4>5. /\ visits'[offers[j].visit].at = visits[offers[j].visit].at
            /\ visits'[offers[j].visit].customer = visits[offers[j].visit].customer
        BY <1>19, <4>3, Zenon
      <4> QED
        BY <4>1, <4>2, <4>3, <4>4, <4>5, Zenon
    <3> QED
      BY <3>1, <3>2
  <2> QED
    BY <1>8, <1>9, <2>1, <2>2 DEF OneAnswerPerRequest
<1>18. MovedVisitIsGivenUp'
  <2> SUFFICES ASSUME NEW j \in 1..Len(offers), offers'[j].state = "accepted",
                      requests'[offers'[j].request].original # 0
               PROVE  ~Stands(visits'[requests'[offers'[j].request].original])
    BY <1>9 DEF MovedVisitIsGivenUp
  <2>1. CASE j = k
    <3>1. requests'[offers'[j].request].original = g
      BY <1>4, <1>5, <1>9, <1>10, <2>1
    <3>2. g \in 1..n
      BY <1>3, <1>k, <3>1
    <3>3. ~Stands(visits'[g])
      BY <1>7, <1>8, <3>2
    <3> QED
      BY <3>1, <3>3
  <2>2. CASE j # k
    <3>1. offers'[j] = offers[j] /\ offers[j].request # r
      BY <1>9, <1>16, <2>2
    <3>2. requests'[offers[j].request] = requests[offers[j].request]
      BY <1>10, <1>11, <3>1
    <3>3. ~Stands(visits[requests[offers[j].request].original])
      BY <3>1, <3>2 DEF DeskInv, MovedVisitIsGivenUp
    <3>4. requests[offers[j].request].original \in 1..n
      BY <1>11, <1>k, <3>1, <3>2
    <3>5. \A v \in 1..n : Stands(visits'[v]) => Stands(visits[v])
      BY <1>7, <1>8
    <3>6. requests'[offers'[j].request].original = requests[offers[j].request].original
      BY <3>1, <3>2, Zenon
    <3> QED
      BY <3>3, <3>4, <3>5, <3>6, Zenon
  <2> QED
    BY <2>1, <2>2
<1> QED
  BY <1>12, <1>13, <1>14, <1>15, <1>17, <1>18 DEF DeskInv

-----------------------------------------------------------------------------
\* A form about a visit ends it.
FormsEndVisits ==
    \A m \in Members : token[m].kind = "visit_status" => token[m].status # "scheduled"

\* A new form is about a visit only to end it.
LEMMA FormsStep ==
    ASSUME DeskInv, FormsEndVisits, [DeskNext]_deskVars
    PROVE  FormsEndVisits'
<1> DEFINE Ends(t) == t.kind = "visit_status" => t.status # "scheduled"
<1>0. /\ token \in [Members -> TokenRow] /\ Ends(NoToken)
      /\ \A m \in Members : Ends(token[m])
  BY DeskKnown DEF FormsEndVisits, NoToken
<1>1. ASSUME NEW m \in Members, NEW t, token' = [token EXCEPT ![m] = t], Ends(t)
      PROVE  FormsEndVisits'
  BY <1>0, <1>1 DEF FormsEndVisits
<1>2. ASSUME NEW m \in Members, Office(m) PROVE FormsEndVisits'
  <2>1. ASSUME CancelForm(m) \/ Confirm(m) PROVE FormsEndVisits'
    <3>1. token' = [token EXCEPT ![m] = NoToken]
      BY <2>1, Zenon DEF CancelForm, Confirm
    <3> QED
      BY <1>0, <1>1, <3>1
  <2>2. ASSUME NEW at \in Times, InputTime(m, at) PROVE FormsEndVisits'
    <3> DEFINE t == [token[m] EXCEPT !.at = at, !.stage = "confirm"]
    <3>1. token' = [token EXCEPT ![m] = t]
      BY <2>2, Zenon DEF InputTime
    <3>2. t.kind = token[m].kind /\ t.status = token[m].status
      BY <1>0 DEF TokenRow
    <3>3. Ends(t)
      BY <1>0, <3>2
    <3> HIDE DEF t, Ends
    <3> QED
      BY <1>1, <3>1, <3>3
  <2>3. ASSUME NEW kind \in Kinds, NEW target, NEW status, NEW stage,
               OpenToken(m, kind, target, status, stage),
               kind = "visit_status" => status # "scheduled"
        PROVE  FormsEndVisits'
    BY <1>1, <2>3 DEF OpenToken
  <2>4. ASSUME NEW r \in 1..Len(requests), StartOffer(m, r) \/ StartResolve(m, r)
        PROVE  FormsEndVisits'
    BY <2>3, <2>4 DEF StartOffer, StartResolve, Kinds
  <2>5. ASSUME NEW v \in 1..Len(visits), NEW status \in VisitStates, StartStatus(m, v, status)
        PROVE  FormsEndVisits'
    BY <2>3, <2>5 DEF StartStatus, Kinds
  <2> QED
    BY <1>2, <2>1, <2>2, <2>4, <2>5, Zenon DEF Office
<1>3. ASSUME DeskTick PROVE FormsEndVisits'
  <2>1. token' = [m \in Members |-> IF now' < token[m].expires THEN token[m] ELSE NoToken]
    BY <1>3 DEF DeskTick
  <2>2. \A m \in Members : token'[m] = token[m] \/ token'[m] = NoToken
    BY <2>1
  <2> QED
    BY <1>0, <2>2 DEF FormsEndVisits
<1>4. ASSUME UNCHANGED token PROVE FormsEndVisits'
  BY <1>4 DEF FormsEndVisits
<1>5. ASSUME ~DeskTick, \A m \in Members : ~Office(m) PROVE UNCHANGED token
  BY <1>5, Zenon DEF DeskNext, deskVars, AskVisit, WebChanges, CustomerPauses, CaseChanges,
       AskReschedule, AppendRequest, WebBooks, WebEnds, WebReopens, AnswerCheck, AnswerAccept, AnswerDecline,
       AnswerFails
<1> QED
  BY <1>2, <1>3, <1>4, <1>5

\* A form is confirmed, whatever it is.
LEMMA ConfirmStep ==
    ASSUME DeskInv, FormsEndVisits, NEW m \in Members, Confirm(m)
    PROVE  DeskInv'
<1> DEFINE t == token[m].target
           x == [requests[t] EXCEPT !.outcome = "resolved"]
<1>1. \/ /\ token[m].kind = "visit_offer"
         /\ Offerable(token[m].target, token[m].at)
         /\ Len(offers) < MaxOffers
         /\ offers' = Offered(token[m].target, token[m].at)
         /\ UNCHANGED <<requests, visits>>
      \/ /\ token[m].kind = "visit_status"
         /\ SetStatus(token[m].target, token[m].status)
      \/ /\ token[m].kind = "resolve"
         /\ requests[t].outcome = "pending"
         /\ requests' = [requests EXCEPT ![t] = x]
         /\ UNCHANGED <<offers, visits>>
  BY Zenon DEF Confirm
<1>2. token[m].kind = "resolve" =>
        /\ x \in RequestRow /\ x.original = requests[t].original
        /\ x.customer = requests[t].customer
  <2>1. token[m].kind = "resolve" => requests[t] \in RequestRow
    BY DeskKnown, RowsKnown DEF FormRefers
  <2>2. "resolved" \in Outcomes
    BY DEF Outcomes
  <2> QED
    BY <2>1, <2>2, OutcomeWrites, Zenon
<1> HIDE DEF x
<1>3. ASSUME token[m].kind = "resolve", requests[t].outcome = "pending",
             requests' = [requests EXCEPT ![t] = x], UNCHANGED <<offers, visits>>
      PROVE  DeskInv'
  <2>1. t \in 1..Len(requests) /\ requests \in Seq(RequestRow)
    BY <1>3, DeskKnown DEF FormRefers
  <2> HIDE DEF t
  <2>2. /\ requests' \in Seq(RequestRow) /\ Len(requests') = Len(requests)
        /\ requests'[t] = x
        /\ \A j \in 1..Len(requests) : j # t => requests'[j] = requests[j]
    BY <1>2, <1>3, <2>1, SeqUpdate
  <2> QED
    BY <1>2, <1>3, <2>2, ResolveConfirmed
<1>4. token[m].kind = "visit_status" => token[m].status # "scheduled"
  BY DEF FormsEndVisits
<1> QED
  BY <1>1, <1>3, <1>4, OfferConfirmed, StatusConfirmed, Zenon

\* Every step keeps the invariant.
LEMMA DeskStep == DeskInv /\ FormsEndVisits /\ [DeskNext]_deskVars => DeskInv'
<1> SUFFICES ASSUME DeskInv, FormsEndVisits, [DeskNext]_deskVars PROVE DeskInv'
  OBVIOUS
<1>1. ASSUME NEW c \in VisitCustomers, AskVisit(c) PROVE DeskInv'
  <2>1. 0 \in 0..Len(visits) /\ AppendRequest(c, 0)
    BY <1>1, DeskKnown DEF AskVisit
  <2> QED
    BY <2>1, RequestAdded
<1>2. ASSUME NEW c \in VisitCustomers, NEW v \in 1..Len(visits), AskReschedule(c, v)
      PROVE  DeskInv'
  <2>1. v \in 0..Len(visits) /\ AppendRequest(c, v)
    BY <1>2, DeskKnown DEF AskReschedule
  <2> QED
    BY <2>1, RequestAdded
<1>3. ASSUME NEW c \in VisitCustomers,
             \/ WebChanges(c) \/ CustomerPauses(c) \/ CaseChanges(c)
             \/ \E at \in Times : WebBooks(c, at)
      PROVE  DeskInv'
  BY <1>3, QuietSteps, RevisingSteps, WebBooked
<1>4. ASSUME NEW m \in Members, Office(m) PROVE DeskInv'
  BY <1>4, FormSteps, ConfirmStep DEF Office
<1>5. ASSUME NEW k \in 1..Len(offers), NEW accept \in BOOLEAN, AnswerCheck(k, accept)
      PROVE  DeskInv'
  BY <1>5, AnswerChecked
<1>6. ASSUME \/ AnswerAccept \/ AnswerDecline \/ AnswerFails \/ DeskTick
             \/ UNCHANGED deskVars
      PROVE  DeskInv'
  BY <1>6, OfferAccepted, RevisingSteps, QuietSteps
<1>7. ASSUME NEW v \in 1..Len(visits),
             WebReopens(v) \/ \E status \in VisitStates : WebEnds(v, status)
      PROVE  DeskInv'
  BY <1>7, WebMarks, Zenon
<1> QED
  BY <1>1, <1>2, <1>3, <1>4, <1>5, <1>6, <1>7, Zenon DEF DeskNext

\* The inductive invariant of the visit desk.
THEOREM DeskInvariant == DeskSpec => []DeskInv
<1>1. DeskInit => FormsEndVisits
  BY DEF DeskInit, FormsEndVisits, NoToken
<1>2. DeskInv /\ FormsEndVisits /\ [DeskNext]_deskVars => FormsEndVisits'
  BY FormsStep
<1> QED
  BY <1>1, <1>2, DeskStart, DeskStep, PTL DEF DeskSpec

\* The state of the desk is well-formed, and every row refers to rows there are.
THEOREM DeskTypeCorrect == DeskSpec => []DeskTypeOK
<1>1. DeskInv => DeskTypeOK
  BY DEF DeskInv
<1> QED
  BY <1>1, DeskInvariant, PTL

\* However offers, answers, sales and forms cross, a request has at most one
\* offer to answer and at most one accepted, and that one names its visit.
THEOREM OneAnswer == DeskSpec => []OneAnswerPerRequest
<1>1. DeskInv => OneAnswerPerRequest
  BY DEF DeskInv
<1> QED
  BY <1>1, DeskInvariant, PTL

\* The bot never books the adviser twice at one time, though the calendar is
\* read before the commit and the web application books, ends and puts back
\* visits meanwhile: of two of its visits at one time the web has put one back.
THEOREM NoDoubleBooking == DeskSpec => []BotNeverDoubleBooks
<1>1. DeskInv => BotNeverDoubleBooks
  BY DEF DeskInv
<1> QED
  BY <1>1, DeskInvariant, PTL

\* The visit a customer moved is out of the calendar once the new one is booked,
\* and comes back by the web's hand only.
THEOREM MovedVisit == DeskSpec => []MovedVisitIsGivenUp
<1>1. DeskInv => MovedVisitIsGivenUp
  BY DEF DeskInv
<1> QED
  BY <1>1, DeskInvariant, PTL

-----------------------------------------------------------------------------
(***************************************************************************)
(* The case of an offer being answered stays the customer's case: the bot  *)
(* serves no other update between the checks and the commit.               *)
(***************************************************************************)
CaseHolds == answering.offer # 0 => offers[answering.offer].case = "current"

\* Offers that were not accepted before the step are not after it.
NothingAccepted ==
    \A k \in 1..Len(offers) : offers'[k].state = "accepted" => offers[k].state = "accepted"

\* A change of the case accepts nothing.
LEMMA CaseAcceptsNothing ==
    ASSUME NEW c \in VisitCustomers, DeskInv, CaseChanges(c)
    PROVE  NothingAccepted
<1> DEFINE w(k) == IF requests[offers[k].request].customer = c /\ offers[k].state = "pending"
                   THEN [offers[k] EXCEPT !.case = "former"] ELSE offers[k]
<1>1. \A k \in 1..Len(offers) : w(k).state = offers[k].state
  BY RowsKnown DEF OfferRow
<1>2. offers' = [k \in 1..Len(offers) |-> w(k)]
  BY DEF CaseChanges
<1> HIDE DEF w
<1> QED
  BY <1>1, <1>2 DEF NothingAccepted

\* Nor does the office, which only makes offers.
LEMMA OfficeAcceptsNothing ==
    ASSUME NEW m \in Members, DeskInv, Office(m)
    PROVE  NothingAccepted
<1> DEFINE r == token[m].target
           u == Superseded(r)
           e == NewOffer(r, token[m].at)
           n == Len(offers)
<1>1. offers' = offers \/ offers' = Offered(r, token[m].at)
  BY Zenon DEF Office, CancelForm, InputTime, StartOffer, StartResolve, StartStatus,
       OpenToken, Confirm, SetStatus
<1>2. offers' = offers \/ offers' = Append(u, e)
  BY <1>1, Zenon DEF Offered
<1>3. \A k \in 1..n :
        u[k] \in OfferRow /\ (u[k].state = "accepted" => offers[k].state = "accepted")
  BY RowsKnown DEF Superseded, OfferRow, OfferStates
<1>4. u \in Seq(OfferRow) /\ Len(u) = n /\ n \in Nat
  <2>1. u \in [1..n -> OfferRow]
    BY <1>3 DEF Superseded
  <2>2. n \in Nat
    BY DeskKnown
  <2> HIDE DEF u, n
  <2> QED
    BY <2>1, <2>2, SeqRewrite
<1> HIDE DEF u, e
<1>5. \A k \in 1..n : Append(u, e)[k] = u[k]
  BY <1>4
<1> QED
  BY <1>2, <1>3, <1>5 DEF NothingAccepted

\* What a step does to the answer under way.
LEMMA AnswerSteps ==
    ASSUME DeskInv, [DeskNext]_deskVars
    PROVE  \/ UNCHANGED <<offers, answering>>
           \/ answering = NoAnswer /\ answering' = NoAnswer /\ NothingAccepted
           \/ \E k \in 1..Len(offers) : \E accept \in BOOLEAN : AnswerCheck(k, accept)
           \/ answering' = NoAnswer /\ offers' = offers
           \/ AnswerAccept \/ AnswerDecline
<1>1. ASSUME NEW c \in VisitCustomers,
             \/ AskVisit(c) \/ WebChanges(c) \/ CustomerPauses(c)
             \/ \E v \in 1..Len(visits) : AskReschedule(c, v)
             \/ \E at \in Times : WebBooks(c, at)
      PROVE  UNCHANGED <<offers, answering>>
  BY <1>1 DEF AskVisit, WebChanges, CustomerPauses, AskReschedule, AppendRequest, WebBooks
<1>2. ASSUME NEW c \in VisitCustomers, CaseChanges(c)
      PROVE  answering = NoAnswer /\ answering' = NoAnswer /\ NothingAccepted
  BY <1>2, CaseAcceptsNothing DEF CaseChanges, BotFree
<1>3. ASSUME NEW m \in Members, Office(m)
      PROVE  answering = NoAnswer /\ answering' = NoAnswer /\ NothingAccepted
  BY <1>3, OfficeAcceptsNothing, Zenon
     DEF Office, CancelForm, InputTime, StartOffer, StartResolve, StartStatus,
       OpenToken, Confirm, BotFree
<1>4. ASSUME AnswerFails PROVE answering' = NoAnswer /\ offers' = offers
  BY <1>4 DEF AnswerFails
<1>5. ASSUME DeskTick \/ UNCHANGED deskVars PROVE UNCHANGED <<offers, answering>>
  BY <1>5 DEF DeskTick, deskVars
<1>6. ASSUME NEW v \in 1..Len(visits),
             WebReopens(v) \/ \E status \in VisitStates : WebEnds(v, status)
      PROVE  UNCHANGED <<offers, answering>>
  BY <1>6, Zenon DEF WebReopens, WebEnds
<1> QED
  BY <1>1, <1>2, <1>3, <1>4, <1>5, <1>6, Zenon DEF DeskNext

\* A step keeps the case of the offer being answered.
LEMMA CaseStep == DeskInv /\ CaseHolds /\ [DeskNext]_deskVars => CaseHolds'
<1> SUFFICES ASSUME DeskInv, CaseHolds, [DeskNext]_deskVars PROVE CaseHolds'
  OBVIOUS
<1>1. ASSUME NEW k \in 1..Len(offers), NEW accept \in BOOLEAN, AnswerCheck(k, accept)
      PROVE  CaseHolds'
  <2>1. offers[k].case = "current" /\ offers' = offers
        /\ answering' = [offer |-> k, accept |-> accept]
    BY <1>1 DEF AnswerCheck, ValidOffer, SameCase
  <2> QED
    BY <2>1 DEF CaseHolds
<1>2. ASSUME AnswerAccept \/ AnswerDecline PROVE answering' = NoAnswer
  BY <1>2, Zenon DEF AnswerAccept, AnswerDecline
<1>3. ASSUME answering' = NoAnswer PROVE CaseHolds'
  BY <1>3 DEF CaseHolds, NoAnswer
<1>4. ASSUME UNCHANGED <<offers, answering>> PROVE CaseHolds'
  BY <1>4 DEF CaseHolds
<1> QED
  BY <1>1, <1>2, <1>3, <1>4, AnswerSteps

\* An offer made for a case the customer has left is never accepted.
THEOREM AcceptedForCase == DeskSpec => AcceptedForThisCase
<1> DEFINE Kept == \A k \in 1..Len(offers) :
                      offers[k].state = "pending" /\ offers'[k].state = "accepted"
                          => offers'[k].case = "current"
<1>1. DeskInit => CaseHolds
  BY DEF DeskInit, CaseHolds, NoAnswer
<1>2. DeskInv /\ CaseHolds /\ [DeskNext]_deskVars => [Kept]_deskVars
  <2> SUFFICES ASSUME DeskInv, CaseHolds, [DeskNext]_deskVars PROVE Kept
    OBVIOUS
  <2>k. \A k \in 1..Len(offers) : offers[k] \in OfferRow
    BY RowsKnown
  <2>n. answering.offer # 0 => answering.offer \in 1..Len(offers) /\ offers \in Seq(OfferRow)
    BY DeskKnown, DeskNumbers DEF DeskInv, References
  <2>1. CASE offers' = offers
    BY <2>1
  <2>2. CASE NothingAccepted
    BY <2>2 DEF NothingAccepted
  <2>3. CASE AnswerAccept
    <3> DEFINE g == answering.offer
               o == [offers[g] EXCEPT !.state = "accepted", !.visit = Len(visits) + 1]
    <3>1. g # 0 /\ offers' = [offers EXCEPT ![g] = o]
      BY <2>3, Zenon DEF AnswerAccept
    <3>2. g \in 1..Len(offers) /\ offers[g] \in OfferRow /\ offers \in Seq(OfferRow)
      BY <2>k, <2>n, <3>1, Zenon
    <3>3. o.case = offers[g].case /\ offers[g].case = "current"
      BY <3>1, <3>2, Zenon DEF OfferRow, CaseHolds
    <3> HIDE DEF g, o
    <3>4. offers'[g] = o /\ \A k \in 1..Len(offers) : k # g => offers'[k] = offers[k]
      BY <3>1, <3>2
    <3> QED
      BY <3>3, <3>4
  <2>4. CASE AnswerDecline
    <3> DEFINE g == answering.offer
               o == [offers[g] EXCEPT !.state = "closed"]
    <3>1. g # 0 /\ offers' = [offers EXCEPT ![g] = o]
      BY <2>4, Zenon DEF AnswerDecline
    <3>2. g \in 1..Len(offers) /\ offers[g] \in OfferRow /\ offers \in Seq(OfferRow)
      BY <2>k, <2>n, <3>1, Zenon
    <3>3. o.state = "closed"
      BY <3>2, Zenon DEF OfferRow
    <3> HIDE DEF g, o
    <3>4. offers'[g] = o /\ \A k \in 1..Len(offers) : k # g => offers'[k] = offers[k]
      BY <3>1, <3>2
    <3> QED
      BY <3>3, <3>4
  <2>5. ASSUME NEW k \in 1..Len(offers), NEW accept \in BOOLEAN, AnswerCheck(k, accept)
        PROVE  offers' = offers
    BY <2>5 DEF AnswerCheck
  <2> HIDE DEF Kept
  <2> QED
    BY <2>1, <2>2, <2>3, <2>4, <2>5, AnswerSteps
<1> QED
  BY <1>1, <1>2, CaseStep, DeskInvariant, PTL DEF DeskSpec, AcceptedForThisCase

-----------------------------------------------------------------------------
(***************************************************************************)
(* The visit book: answer_proposal reads in one step and books in another, *)
(* and is one step of VisitBook.  CalendarHolds keeps the time free until  *)
(* the commit; RequestHolds keeps the request open.  That the visit given  *)
(* up is the customer's own is checked when the request is made, and true  *)
(* since (MovesOwnVisit).                                                  *)
(***************************************************************************)
RequestHolds ==
    answering.offer # 0 => requests[offers[answering.offer].request].outcome = "pending"

MovesOwnVisit ==
    \A r \in 1..Len(requests) :
        requests[r].original # 0 =>
            visits[requests[r].original].customer = requests[r].customer

BookInv == RequestHolds /\ MovesOwnVisit /\ FormsEndVisits

\* What a step does to the request being answered.
LEMMA RequestSteps ==
    ASSUME DeskInv, [DeskNext]_deskVars
    PROVE  \/ UNCHANGED <<requests, offers, answering>>
           \/ answering' = NoAnswer
           \/ \E k \in 1..Len(offers) : \E accept \in BOOLEAN : AnswerCheck(k, accept)
<1>1. ASSUME NEW c \in VisitCustomers,
             \/ AskVisit(c) \/ CustomerPauses(c) \/ CaseChanges(c)
             \/ \E v \in 1..Len(visits) : AskReschedule(c, v)
      PROVE  answering' = NoAnswer
  BY <1>1, Zenon
  DEF AskVisit, CustomerPauses, AskReschedule, AppendRequest, CaseChanges, BotFree
<1>2. ASSUME NEW c \in VisitCustomers, WebChanges(c) \/ \E at \in Times : WebBooks(c, at)
      PROVE  UNCHANGED <<requests, offers, answering>>
  BY <1>2 DEF WebChanges, WebBooks
<1>3. ASSUME NEW m \in Members, Office(m) PROVE answering' = NoAnswer
  BY <1>3, Zenon DEF Office, CancelForm, InputTime, StartOffer, StartResolve, StartStatus,
       OpenToken, Confirm, BotFree
<1>4. ASSUME AnswerAccept \/ AnswerDecline \/ AnswerFails PROVE answering' = NoAnswer
  BY <1>4, Zenon DEF AnswerAccept, AnswerDecline, AnswerFails
<1>5. ASSUME DeskTick \/ UNCHANGED deskVars PROVE UNCHANGED <<requests, offers, answering>>
  BY <1>5 DEF DeskTick, deskVars
<1>6. ASSUME NEW v \in 1..Len(visits),
             WebReopens(v) \/ \E status \in VisitStates : WebEnds(v, status)
      PROVE  UNCHANGED <<requests, offers, answering>>
  BY <1>6, Zenon DEF WebReopens, WebEnds
<1> QED
  BY <1>1, <1>2, <1>3, <1>4, <1>5, <1>6, Zenon DEF DeskNext

\* The request that is answered is open, from the checks to the commit.
LEMMA RequestStep ==
    ASSUME DeskInv, RequestHolds, [DeskNext]_deskVars
    PROVE  RequestHolds'
<1>1. ASSUME NEW k \in 1..Len(offers), NEW accept \in BOOLEAN, AnswerCheck(k, accept)
      PROVE  RequestHolds'
  <2>1. /\ requests[offers[k].request].outcome = "pending"
        /\ UNCHANGED <<requests, offers>>
        /\ answering' = [offer |-> k, accept |-> accept]
    BY <1>1 DEF AnswerCheck, ValidOffer, Fit
  <2> QED
    BY <2>1 DEF RequestHolds
<1>2. ASSUME answering' = NoAnswer PROVE RequestHolds'
  BY <1>2 DEF RequestHolds, NoAnswer
<1>3. ASSUME UNCHANGED <<requests, offers, answering>> PROVE RequestHolds'
  BY <1>3 DEF RequestHolds
<1> QED
  BY <1>1, <1>2, <1>3, RequestSteps

\* Every step is a step of the visit book, or leaves it alone.
LEMMA DiaryStep ==
    ASSUME DeskInv, BookInv, [DeskNext]_deskVars
    PROVE  [Diary!Next]_<<requests, visits>>
<1>0. RequestHolds /\ MovesOwnVisit /\ FormsEndVisits
  BY DEF BookInv
<1>1. ASSUME NEW c \in VisitCustomers, AskVisit(c) PROVE Diary!Next
  <2>1. 0 \in 0..Len(visits) /\ Diary!Ask(c, 0)
    BY <1>1, DeskKnown DEF AskVisit, AppendRequest, Diary!Ask
  <2> QED
    BY <2>1, Zenon DEF Diary!Next
<1>2. ASSUME NEW c \in VisitCustomers, NEW v \in 1..Len(visits), AskReschedule(c, v)
      PROVE  Diary!Next
  <2>1. Diary!Standing(v, c)
    BY <1>2 DEF AskReschedule, Movable, Diary!Standing
  <2>2. v \in 0..Len(visits) /\ Diary!Ask(c, v)
    BY <1>2, <2>1, DeskKnown DEF AskReschedule, AppendRequest, Diary!Ask
  <2> QED
    BY <2>2, Zenon DEF Diary!Next
<1>3. ASSUME NEW c \in VisitCustomers, NEW at \in Times, WebBooks(c, at) PROVE Diary!Next
  <2>1. Diary!WebBook(c, at)
    BY <1>3, Zenon DEF WebBooks, NewVisit, Diary!WebBook, Diary!Visit
  <2> QED
    BY <2>1, Zenon DEF Diary!Next
<1>4. ASSUME NEW m \in Members, Confirm(m) PROVE [Diary!Next]_<<requests, visits>>
  <2> DEFINE t == token[m].target
             status == token[m].status
  <2>1. \/ UNCHANGED <<requests, visits>>
        \/ /\ token[m].kind = "visit_status" /\ SetStatus(t, status)
        \/ /\ token[m].kind = "resolve" /\ requests[t].outcome = "pending"
           /\ requests' = [requests EXCEPT ![t].outcome = "resolved"]
           /\ UNCHANGED visits
    BY <1>4, Zenon DEF Confirm
  <2>2. FormRefers(token[m]) /\ token[m] \in TokenRow
    BY DeskKnown
  <2>3. ASSUME token[m].kind = "visit_status", SetStatus(t, status) PROVE Diary!Next
    <3>1. t \in 1..Len(visits) /\ status \in {"completed", "cancelled"}
      BY <1>0, <2>2, <2>3 DEF FormRefers, FormsEndVisits, TokenRow, VisitStates
    <3>2. Diary!Close(t, status)
      BY <2>3, Zenon DEF SetStatus, Ended, Diary!Close, Diary!Marked
    <3> QED
      BY <3>1, <3>2, Zenon DEF Diary!Next
  <2>4. ASSUME token[m].kind = "resolve", requests[t].outcome = "pending",
               requests' = [requests EXCEPT ![t].outcome = "resolved"], UNCHANGED visits
        PROVE  Diary!Next
    <3>1. t \in 1..Len(requests)
      BY <2>2, <2>4 DEF FormRefers
    <3>2. Diary!Resolve(t)
      BY <2>4, Zenon DEF Diary!Resolve
    <3> QED
      BY <3>1, <3>2, Zenon DEF Diary!Next
  <2> QED
    BY <2>1, <2>3, <2>4, Zenon
<1>5. ASSUME AnswerAccept PROVE Diary!Next
  <2> DEFINE k == answering.offer
             r == offers[k].request
             g == requests[r].original
             c == requests[r].customer
  <2>1. /\ k # 0 /\ answering.accept
        /\ g # 0 => visits[g].status = "scheduled"
        /\ visits' = Append(OriginalCancelled(g), NewVisit(c, offers[k].at, "bot"))
        /\ requests' = [requests EXCEPT ![r].outcome = "visit_scheduled"]
    BY <1>5 DEF AnswerAccept
  <2>2. /\ k \in 1..Len(offers) /\ offers[k].at \in Times
        /\ r \in 1..Len(requests) /\ g \in 0..Len(visits)
    <3>1. k \in 0..MaxOffers /\ k <= Len(offers)
      BY DeskKnown DEF DeskInv, References
    <3>2. k \in 1..Len(offers)
      BY <2>1, <3>1, DeskKnown, DeskNumbers
    <3>3. offers[k] \in OfferRow /\ r \in 1..Len(requests)
      BY <3>2, RowsKnown
    <3>4. g \in 0..Len(visits)
      BY <3>3, RowsKnown, Zenon
    <3>5. offers[k].at \in Times
      BY <3>3 DEF OfferRow
    <3> QED
      BY <3>2, <3>3, <3>4, <3>5, Zenon
  <2>3. requests[r].outcome = "pending"
    BY <1>0, <2>1 DEF RequestHolds
  <2>4. g # 0 => Diary!Standing(g, c)
    <3>1. Len(visits) \in Nat
      BY DeskKnown
    <3>2. g # 0 => g \in 1..Len(visits)
      BY <2>2, <3>1
    <3>3. g # 0 => visits[g].customer = c
      BY <1>0, <2>2, Zenon DEF MovesOwnVisit
    <3> QED
      BY <2>1, <3>2, <3>3, Zenon DEF Diary!Standing
  <2>5. \A v \in 1..Len(visits) :
          visits[v].by = "bot" /\ visits[v].status = "scheduled" /\ ~visits[v].reopened
             => visits[v].at # offers[k].at
    BY <2>1, Zenon DEF DeskInv, CalendarHolds, Stands
  <2>6. OriginalCancelled(g) = Diary!Without(g)
    BY Zenon DEF OriginalCancelled, Ended, Diary!Without, Diary!Marked
  <2>8. NewVisit(c, offers[k].at, "bot") = Diary!Visit(c, offers[k].at, "bot")
    BY Zenon DEF NewVisit, Diary!Visit
  <2>7. Diary!Book(r, offers[k].at)
    BY <2>1, <2>3, <2>4, <2>5, <2>6, <2>8, Zenon DEF Diary!Book
  <2> QED
    BY <2>2, <2>7, Zenon DEF Diary!Next
<1>6. ASSUME ~AnswerAccept, \A m \in Members : ~Confirm(m),
             \A c \in VisitCustomers :
                /\ ~AskVisit(c)
                /\ \A v \in 1..Len(visits) : ~AskReschedule(c, v)
                /\ \A at \in Times : ~WebBooks(c, at),
             \A v \in 1..Len(visits) :
                ~WebReopens(v) /\ \A status \in VisitStates : ~WebEnds(v, status)
      PROVE  UNCHANGED <<requests, visits>>
  BY <1>6, Zenon
  DEF DeskNext, deskVars, WebChanges, CustomerPauses, CaseChanges, Office, CancelForm,
      InputTime, StartOffer, StartResolve, StartStatus, OpenToken, AnswerCheck,
      AnswerDecline, AnswerFails, DeskTick
<1>7. ASSUME NEW v \in 1..Len(visits),
             WebReopens(v) \/ \E status \in VisitStates : WebEnds(v, status)
      PROVE  Diary!Next
  <2>1. ASSUME WebReopens(v) PROVE Diary!WebReopen(v)
    BY <2>1, Zenon DEF WebReopens, Diary!WebReopen, Diary!Marked
  <2>2. ASSUME NEW status \in VisitStates, WebEnds(v, status)
        PROVE  status \in {"completed", "cancelled"} /\ Diary!Close(v, status)
    BY <2>2, Zenon DEF WebEnds, Ended, VisitStates, Diary!Close, Diary!Marked
  <2> QED
    BY <1>7, <2>1, <2>2, Zenon DEF Diary!Next
<1> QED
  BY <1>1, <1>2, <1>3, <1>4, <1>5, <1>6, <1>7, Zenon

\* In the book nobody's visit becomes another's, and who asks moves their own.
LEMMA OwnStep ==
    ASSUME DeskInv, BookInv, [DeskNext]_deskVars
    PROVE  MovesOwnVisit'
<1> DEFINE n == Len(visits)
           q == Len(requests)
<1>k. /\ requests \in Seq(RequestRow) /\ visits \in Seq(VisitRow) /\ n \in Nat /\ q \in Nat
      /\ \A r \in 1..q : requests[r] \in RequestRow /\ requests[r].original \in 0..n
      /\ \A v \in 1..n : visits[v] \in VisitRow
      /\ MovesOwnVisit
  BY DeskKnown, RowsKnown DEF BookInv
<1>o. \A r \in 1..q : requests[r].original # 0 =>
         requests[r].original \in 1..n
           /\ visits[requests[r].original].customer = requests[r].customer
  BY <1>k DEF MovesOwnVisit
\* Rows change their status and outcome, and rows are added.
<1>1. ASSUME \A v \in 1..n : visits'[v].customer = visits[v].customer,
             \A r \in 1..q : /\ requests'[r].original = requests[r].original
                             /\ requests'[r].customer = requests[r].customer,
             \/ Len(requests') = q
             \/ /\ Len(requests') = q + 1
                /\ requests'[q + 1].original # 0 =>
                     /\ requests'[q + 1].original \in 1..n
                     /\ visits[requests'[q + 1].original].customer = requests'[q + 1].customer
      PROVE  MovesOwnVisit'
  <2>1. ASSUME NEW r \in 1..q, requests'[r].original # 0
        PROVE  visits'[requests'[r].original].customer = requests'[r].customer
    BY <1>1, <1>o, <2>1
  <2>2. ASSUME Len(requests') = q + 1, requests'[q + 1].original # 0
        PROVE  visits'[requests'[q + 1].original].customer = requests'[q + 1].customer
    BY <1>1, <1>k, <2>2
  <2>3. \A r \in 1..Len(requests') : r \in 1..q \/ (r = q + 1 /\ Len(requests') = q + 1)
    BY <1>1, <1>k
  <2> QED
    BY <2>1, <2>2, <2>3, Zenon DEF MovesOwnVisit
<1>2. ASSUME NEW c \in VisitCustomers, NEW moved \in 0..n, Diary!Ask(c, moved)
      PROVE  MovesOwnVisit'
  <2> DEFINE e == [customer |-> c, original |-> moved, outcome |-> "pending"]
  <2>1. /\ requests' = Append(requests, e) /\ UNCHANGED visits
        /\ moved # 0 => moved \in 1..n /\ visits[moved].customer = c
    BY <1>2, Zenon DEF Diary!Ask, Diary!Standing
  <2>2. e \in RequestRow /\ e.customer = c /\ e.original = moved
    <3>1. n <= MaxVisits /\ MaxVisits \in Nat
      BY DeskKnown, DeskNumbers
    <3>2. moved \in 0..MaxVisits
      BY <1>k, <3>1
    <3> QED
      BY <3>2 DEF RequestRow, Outcomes
  <2> HIDE DEF e
  <2>3. /\ Len(requests') = q + 1 /\ requests'[q + 1] = e
        /\ \A r \in 1..q : requests'[r] = requests[r]
    BY <1>k, <2>1, <2>2, SeqAppend
  <2>4. /\ \A v \in 1..n : visits'[v].customer = visits[v].customer
        /\ \A r \in 1..q : /\ requests'[r].original = requests[r].original
                           /\ requests'[r].customer = requests[r].customer
    BY <2>1, <2>3
  <2>5. requests'[q + 1].original # 0 =>
          /\ requests'[q + 1].original \in 1..n
          /\ visits[requests'[q + 1].original].customer = requests'[q + 1].customer
    BY <2>1, <2>2, <2>3
  <2> HIDE DEF n, q
  <2> QED
    BY <1>1, <2>3, <2>4, <2>5
<1>3. ASSUME NEW c \in VisitCustomers, NEW hour \in Times, Diary!WebBook(c, hour)
      PROVE  MovesOwnVisit'
  <2>1. visits' = Append(visits, Diary!Visit(c, hour, "web")) /\ UNCHANGED requests
    BY <1>3 DEF Diary!WebBook
  <2>2. \A v \in 1..n : visits'[v] = visits[v]
    BY <1>k, <2>1
  <2> QED
    BY <1>1, <2>1, <2>2
<1>4. ASSUME NEW r \in 1..q, NEW outcome \in Outcomes,
             requests' = [requests EXCEPT ![r].outcome = outcome],
             \A v \in 1..n : visits'[v].customer = visits[v].customer
      PROVE  MovesOwnVisit'
  <2> DEFINE x == [requests[r] EXCEPT !.outcome = outcome]
  <2>1. requests' = [requests EXCEPT ![r] = x]
    BY <1>4, Zenon
  <2>2. /\ x \in RequestRow /\ x.original = requests[r].original
        /\ x.customer = requests[r].customer
    BY <1>k, OutcomeWrites, Zenon
  <2> HIDE DEF x
  <2>3. /\ Len(requests') = q /\ requests'[r] = x
        /\ \A j \in 1..q : j # r => requests'[j] = requests[j]
    BY <1>k, <2>1, <2>2, SeqUpdate
  <2> QED
    BY <1>1, <1>4, <2>2, <2>3
<1>5. ASSUME NEW v \in 1..n, NEW status \in VisitStates, NEW back \in BOOLEAN
      PROVE  /\ Diary!Marked(v, status, back) \in Seq(VisitRow)
             /\ Len(Diary!Marked(v, status, back)) = n
             /\ \A w \in 1..n : Diary!Marked(v, status, back)[w].customer = visits[w].customer
  <2>1. MarkedIn(Diary!Marked(v, status, back), v, status, back)
    BY Zenon DEF Diary!Marked, MarkedIn
  <2> QED
    BY <1>k, <2>1, VisitsMarked
<1>6. ASSUME NEW v \in 1..n,
             \/ Diary!WebReopen(v)
             \/ \E status \in {"completed", "cancelled"} : Diary!Close(v, status)
      PROVE  MovesOwnVisit'
  <2>1. PICK status \in VisitStates, back \in BOOLEAN :
          visits' = Diary!Marked(v, status, back) /\ UNCHANGED requests
    BY <1>6, Zenon DEF Diary!WebReopen, Diary!Close, VisitStates
  <2>2. \A w \in 1..n : visits'[w].customer = visits[w].customer
    BY <1>5, <2>1
  <2> QED
    BY <1>1, <2>1, <2>2
<1>7. ASSUME NEW r \in 1..q, NEW hour \in Times, Diary!Book(r, hour)
      PROVE  MovesOwnVisit'
  <2> DEFINE g == requests[r].original
             e == Diary!Visit(requests[r].customer, hour, "bot")
             u == Diary!Without(g)
  <2>1. visits' = Append(u, e) /\ requests' = [requests EXCEPT ![r].outcome = "visit_scheduled"]
    BY <1>7, Zenon DEF Diary!Book
  <2>2. /\ u \in Seq(VisitRow) /\ Len(u) = n
        /\ \A v \in 1..n : u[v].customer = visits[v].customer
    <3>1. CASE g = 0
      BY <1>k, <3>1 DEF Diary!Without
    <3>2. CASE g # 0
      <4>1. g \in 1..n
        BY <1>o, <3>2
      <4>2. u = Diary!Marked(g, "cancelled", FALSE)
        BY <3>2, Zenon DEF Diary!Without
      <4>3. "cancelled" \in VisitStates
        BY DEF VisitStates
      <4> HIDE DEF g, u
      <4> QED
        BY <1>5, <4>1, <4>2, <4>3
    <3> QED
      BY <3>1, <3>2
  <2> HIDE DEF u, e
  <2>3. \A v \in 1..n : visits'[v] = u[v]
    BY <1>k, <2>1, <2>2
  <2>4. \A v \in 1..n : visits'[v].customer = visits[v].customer
    BY <2>2, <2>3
  <2>5. "visit_scheduled" \in Outcomes
    BY DEF Outcomes
  <2> QED
    BY <1>4, <2>1, <2>4, <2>5, Zenon
<1>8. ASSUME NEW r \in 1..q, Diary!Resolve(r) PROVE MovesOwnVisit'
  BY <1>4, <1>8 DEF Diary!Resolve, Outcomes
<1>9. ASSUME UNCHANGED <<requests, visits>> PROVE MovesOwnVisit'
  BY <1>9, <1>k DEF MovesOwnVisit
<1> QED
  BY <1>2, <1>3, <1>6, <1>7, <1>8, <1>9, DiaryStep, Zenon DEF Diary!Next

\* What a step finds true of answers, requests and forms it leaves true.
LEMMA BookStep == DeskInv /\ BookInv /\ [DeskNext]_deskVars => BookInv'
<1> SUFFICES ASSUME DeskInv, BookInv, [DeskNext]_deskVars PROVE BookInv'
  OBVIOUS
<1> QED
  BY RequestStep, OwnStep, FormsStep DEF BookInv

\* Though the calendar, the offer and the request are read before the booking is
\* committed, and the office and the web application do not wait, the tables of
\* requests and visits change as if answer_proposal were one step, beside a web
\* application that sets the status of any visit at any time.
THEOREM DeskKeepsVisitBook == DeskSpec => ImplementsVisitBook
<1>1. DeskInit => BookInv
  BY DEF DeskInit, BookInv, RequestHolds, MovesOwnVisit, FormsEndVisits, NoAnswer, NoToken
<1>2. DeskInit => Diary!Init
  BY DEF DeskInit, Diary!Init
<1>3. DeskInv /\ BookInv /\ [DeskNext]_deskVars => [Diary!Next]_<<requests, visits>>
  BY DiaryStep
<1> QED
  BY <1>1, <1>2, <1>3, BookStep, DeskInvariant, PTL
  DEF DeskSpec, ImplementsVisitBook, Diary!Spec
=============================================================================
