---------------------------- MODULE OwnerConsent ----------------------------
(***************************************************************************)
(* The owner's consent for one listing: the team's ownership review        *)
(* (verification/team_review.py), the consent register                     *)
(* (verification/owner_consent.py) and the two forms over them             *)
(* (team_review_routes.py, consent_routes.py).                             *)
(*                                                                         *)
(* The two registers are two SQLite files and the listing is a row of a    *)
(* third one.  A form is rendered, filled in for a while, and posted; the  *)
(* handler reads the listing and the ownership review first and appends    *)
(* to the register in a transaction of its own.  Anything may happen       *)
(* between rendering, reading and appending.                               *)
(***************************************************************************)
EXTENDS Integers, Sequences

CONSTANTS
    Staff, Managers,  \* active agents and admins, and the admins among them
    Prints,           \* fingerprints of the listing's content
    ConsentTTL,       \* 7 days in the code, for both registers
    MaxDay,           \* bound on the clock
    MaxConsents, MaxReviews, MaxEvents  \* bounds on each register and on both

ASSUME OwnerConsentAssumption ==
    /\ Managers \subseteq Staff
    /\ ConsentTTL \in Nat /\ MaxDay \in Nat
    /\ {MaxConsents, MaxReviews, MaxEvents} \subseteq Nat

VARIABLES
    print,     \* the fingerprint of the listing now
    consents,  \* consent_events of the listing, by id
    reviews,   \* team_ownership_reviews of the listing, by id
    sheet,     \* the form a member of the staff has open, or is posting
    cday       \* self.clock()

consentVars == <<print, consents, reviews, sheet, cday>>

Actions == {"support_recorded", "management_approved", "rejected", "withdrawn"}
Decisions == {"team_approved", "rejected", "needs_review"}
NoForm == [page |-> "none"]
Sheets ==
    {NoForm}
    \cup [page: {"consent", "review"}, seen: Nat, print: Prints]
    \cup [page: {"posting"}, seen: Nat, print: Prints, action: Actions]
    \cup [page: {"reviewing"}, seen: Nat, print: Prints, action: Decisions]

ConsentTypeOK ==
    /\ print \in Prints
    /\ consents \in Seq([action: Actions, actor: Staff, print: Prints, support: Staff,
                         at: 0..MaxDay, expires: Nat, seen: Nat])
    /\ reviews \in Seq([action: Decisions, actor: Staff, print: Prints,
                        at: 0..MaxDay, expires: Nat, seen: Nat])
    /\ sheet \in [Staff -> Sheets]
    /\ cday \in 0..MaxDay

OwnerConsentInit ==
    /\ print \in Prints
    /\ consents = <<>> /\ reviews = <<>> /\ cday = 0
    /\ sheet = [s \in Staff |-> NoForm]

Newest(register) == register[Len(register)]

\* TeamReviewStore.status = 'team_approved'
OwnershipValid ==
    /\ reviews # <<>>
    /\ Newest(reviews).print = print /\ cday < Newest(reviews).expires
    /\ Newest(reviews).action = "team_approved"

\* OwnerConsentStore.status = 'management_approved'
ConsentApproved ==
    /\ consents # <<>>
    /\ Newest(consents).action = "management_approved"
    /\ Newest(consents).print = print /\ cday < Newest(consents).expires

\* What the consent page shows as in force.
Effective == ConsentApproved /\ OwnershipValid

-----------------------------------------------------------------------------
\* A record, or the first event, starts a term of its own.
StartsTerm(f) == f.action = "support_recorded" \/ consents = <<>>

\* Mutant: an approval renews the consent.
ExpiryRenewed(f) == cday + ConsentTTL

\* Only the support's record of the owner's word starts a term.
Expiry(f) ==
    IF f.action = "support_recorded" THEN cday + ConsentTTL
    ELSE IF consents = <<>> THEN cday ELSE Newest(consents).expires

\* The role the consent page asks for.
MayAct(s, action) == action \in {"management_approved", "rejected"} => s \in Managers

RoomIn(register, bound) ==
    Len(register) < bound /\ Len(consents) + Len(reviews) < MaxEvents

SetForm(s, f) == sheet' = [sheet EXCEPT ![s] = f]
DropForm(s) ==
    SetForm(s, NoForm) /\ UNCHANGED <<print, consents, reviews, cday>>

\* GET: the page shows the latest event, its id being the form's previous_id.
OpenConsentPage(s) ==
    /\ sheet[s] = NoForm
    /\ SetForm(s, [page |-> "consent", seen |-> Len(consents), print |-> print])
    /\ UNCHANGED <<print, consents, reviews, cday>>

OpenReviewPage(s) ==
    /\ s \in Managers /\ sheet[s] = NoForm
    /\ SetForm(s, [page |-> "review", seen |-> Len(reviews), print |-> print])
    /\ UNCHANGED <<print, consents, reviews, cday>>

\* POST, up to the append: the role, the listing and the ownership are read.
PostConsent(s, action) ==
    /\ sheet[s].page = "consent"
    /\ MayAct(s, action)
    /\ sheet[s].print = print
    /\ action = "management_approved" => OwnershipValid
    /\ SetForm(s, [page |-> "posting", seen |-> sheet[s].seen, print |-> print,
                   action |-> action])
    /\ UNCHANGED <<print, consents, reviews, cday>>

PostReview(s, decision) ==
    /\ sheet[s].page = "review"
    /\ sheet[s].print = print
    /\ SetForm(s, [page |-> "reviewing", seen |-> sheet[s].seen, print |-> print,
                   action |-> decision])
    /\ UNCHANGED <<print, consents, reviews, cday>>

\* The page is left, or the post is refused (listing_changed, ownership_required).
CloseForm(s) == sheet[s] # NoForm /\ DropForm(s)

\* Mutant: the form is not compared with the latest event.
MayRecordBlind(s, f) ==
    /\ f.action \in {"rejected", "withdrawn"} => consents # <<>>
    /\ f.action = "management_approved" =>
         /\ consents # <<>>
         /\ Newest(consents).action = "support_recorded"
         /\ Newest(consents).print = f.print
         /\ cday < Newest(consents).expires
         /\ Newest(consents).support # s

\* OwnerConsentStore.record: what the transaction requires of the latest event.
MayRecord(s, f) ==
    /\ f.seen = Len(consents)
    /\ f.action \in {"rejected", "withdrawn"} => consents # <<>>
    /\ f.action = "management_approved" =>
         /\ consents # <<>>
         /\ Newest(consents).action = "support_recorded"
         /\ Newest(consents).print = f.print
         /\ cday < Newest(consents).expires
         /\ Newest(consents).support # s

RecordConsent(s) ==
    /\ sheet[s].page = "posting"
    /\ MayRecord(s, sheet[s])
    /\ RoomIn(consents, MaxConsents)
    /\ consents' = Append(consents,
         [action |-> sheet[s].action, actor |-> s, print |-> sheet[s].print,
          support |-> IF StartsTerm(sheet[s]) THEN s ELSE Newest(consents).support,
          at |-> cday,
          expires |-> Expiry(sheet[s]), seen |-> sheet[s].seen])
    /\ SetForm(s, NoForm)
    /\ UNCHANGED <<print, reviews, cday>>

\* TeamReviewStore.record
RecordReview(s) ==
    /\ sheet[s].page = "reviewing"
    /\ sheet[s].seen = Len(reviews)
    /\ RoomIn(reviews, MaxReviews)
    /\ reviews' = Append(reviews,
         [action |-> sheet[s].action, actor |-> s, print |-> sheet[s].print,
          at |-> cday, expires |-> cday + ConsentTTL, seen |-> sheet[s].seen])
    /\ SetForm(s, NoForm)
    /\ UNCHANGED <<print, consents, cday>>

\* The crawler stores another content of the listing.
ListingChanges(p) ==
    /\ p # print /\ print' = p
    /\ UNCHANGED <<consents, reviews, sheet, cday>>

ConsentDay ==
    /\ cday < MaxDay /\ cday' = cday + 1
    /\ UNCHANGED <<print, consents, reviews, sheet>>

OwnerConsentNext ==
    \/ \E s \in Staff :
         \/ OpenConsentPage(s) \/ OpenReviewPage(s) \/ CloseForm(s)
         \/ RecordConsent(s) \/ RecordReview(s)
         \/ \E action \in Actions : PostConsent(s, action)
         \/ \E decision \in Decisions : PostReview(s, decision)
    \/ \E p \in Prints : ListingChanges(p)
    \/ ConsentDay

OwnerConsentSpec == OwnerConsentInit /\ [][OwnerConsentNext]_consentVars

-----------------------------------------------------------------------------
(***************************************************************************)
(* A consent in force rests on two people and on fresh evidence: right     *)
(* before the approval another member of the staff recorded the owner's    *)
(* consent to the present content, less than the validity ago, and the     *)
(* latest ownership review approves that content and is as fresh.          *)
(***************************************************************************)
EffectiveRestsOnTwo ==
    Effective =>
        LET n == Len(consents) IN
        /\ n > 1
        /\ consents[n - 1].action = "support_recorded"
        /\ consents[n - 1].actor # consents[n].actor
        /\ consents[n - 1].print = print
        /\ cday < consents[n - 1].at + ConsentTTL
        /\ Newest(reviews).print = print
        /\ cday < Newest(reviews).at + ConsentTTL

(***************************************************************************)
(* Nobody decides on a register that moved since the page was rendered:    *)
(* each event was posted from a page that showed the event before it.      *)
(***************************************************************************)
NothingDecidedUnseen ==
    /\ \A i \in 1..Len(consents) : consents[i].seen = i - 1
    /\ \A i \in 1..Len(reviews) : reviews[i].seen = i - 1
=============================================================================
