-------------------------- MODULE VerificationCase --------------------------
(***************************************************************************)
(* One row of verification_cases (verification/workflow.py): a human       *)
(* review with the owner's consent, a live check of the listing, and a     *)
(* code sent by SMS that shows control of the phone.                       *)
(*                                                                         *)
(* Every method is one SQLite transaction under a lock, except issue_otp:  *)
(* it reserves the code in one transaction, calls the SMS provider outside *)
(* of it, and records the provider's answer in a second one.  Other calls, *)
(* time and a process death come in between.                               *)
(*                                                                         *)
(* The digest of a code is the number of its SMS: sends only grows, so a   *)
(* code of another SMS never has the row's digest.                         *)
(***************************************************************************)
EXTENDS Integers

CONSTANTS
    ReviewTTL, CheckTTL, OtpTTL, Cooldown, \* 7 days, 900 s, 300 s, 60 s in the code
    MaxAttempts, MaxSends,                 \* 5 and 5 in the code
    MaxClock                               \* bound on the clock

ASSUME VerificationAssumption ==
    /\ {ReviewTTL, CheckTTL, OtpTTL, Cooldown} \subseteq Nat
    /\ MaxAttempts \in Nat /\ MaxSends \in Nat /\ MaxClock \in Nat

VARIABLES
    row,      \* the row of verification_cases
    sending,  \* SMS whose provider call is under way, by number
    inbox,    \* SMS that reached the phone
    vclock,   \* self.clock()
    accepted  \* history: the SMS whose code the latest accepted answer carried

verificationVars == <<row, sending, inbox, vclock, accepted>>

Null == -1
Time == 0..MaxClock
MaybeTime == Time \cup {Null}
Sms == 1..MaxSends
NoCode == 0

CaseRowStates == {"absent", "pending_review", "reviewed", "listing_matched",
    "needs_review", "otp_sending", "otp_pending", "phone_control_verified",
    "consent_withdrawn"}
ReviewedStates == {"reviewed", "listing_matched", "otp_pending",
    "phone_control_verified"}

CaseRow == [state: CaseRowStates, reviewed: MaybeTime, consent: MaybeTime,
            checked: MaybeTime, digest: Sms \cup {NoCode}, issued: MaybeTime,
            attempts: 0..MaxAttempts, verified: MaybeTime, sends: 0..MaxSends]

VerificationTypeOK ==
    /\ row \in CaseRow
    /\ sending \subseteq Sms /\ inbox \subseteq Sms
    /\ vclock \in Time
    /\ accepted \in Sms \cup {NoCode}

NoCase == [state |-> "absent", reviewed |-> Null, consent |-> Null, checked |-> Null,
           digest |-> NoCode, issued |-> Null, attempts |-> 0, verified |-> Null,
           sends |-> 0]

VerificationInit ==
    /\ row = NoCase /\ sending = {} /\ inbox = {} /\ vclock = 0 /\ accepted = NoCode

-----------------------------------------------------------------------------
\* create: a case of a listing whose snapshot is complete.
Create ==
    /\ row.state = "absent"
    /\ row' = [NoCase EXCEPT !.state = "pending_review"]
    /\ UNCHANGED <<sending, inbox, vclock, accepted>>

\* record_human_review: whatever the state, a review starts the case over;
\* only the count and the time of the SMS survive it.
HumanReview ==
    /\ row.state # "absent"
    /\ row' = [NoCase EXCEPT !.state = "reviewed", !.reviewed = vclock,
                             !.consent = vclock, !.issued = row.issued,
                             !.sends = row.sends]
    /\ UNCHANGED <<sending, inbox, vclock, accepted>>

\* require_review
ReviewStands ==
    /\ row.state \in ReviewedStates
    /\ row.consent # Null
    /\ vclock - row.reviewed <= ReviewTTL

\* record_listing_check: an active listing with the reviewed snapshot, or not.
ListingCheck(matched) ==
    /\ ReviewStands
    /\ row' = [row EXCEPT !.state = IF matched THEN "listing_matched" ELSE "needs_review",
                          !.checked = IF matched THEN vclock ELSE Null,
                          !.digest = NoCode, !.verified = Null]
    /\ UNCHANGED <<sending, inbox, vclock, accepted>>

\* Mutant: a code may be reserved while another one is being sent.
MayIssueAgain ==
    /\ row.consent # Null /\ vclock - row.reviewed <= ReviewTTL
    /\ row.state \in {"listing_matched", "otp_sending", "otp_pending"}
    /\ row.checked # Null /\ vclock - row.checked <= CheckTTL
    /\ row.issued = Null \/ vclock - row.issued >= Cooldown
    /\ row.sends < MaxSends

\* Mutant: a match of the listing is good for ever.
MayIssueLate ==
    /\ ReviewStands
    /\ row.state \in {"listing_matched", "otp_pending"}
    /\ row.issued = Null \/ vclock - row.issued >= Cooldown
    /\ row.sends < MaxSends

MayIssue ==
    /\ ReviewStands
    /\ row.state \in {"listing_matched", "otp_pending"}
    /\ row.checked # Null /\ vclock - row.checked <= CheckTTL
    /\ row.issued = Null \/ vclock - row.issued >= Cooldown
    /\ row.sends < MaxSends

\* issue_otp, first transaction: reserve the code; then the provider is called.
ReserveOtp ==
    /\ MayIssue
    /\ row' = [row EXCEPT !.state = "otp_sending", !.digest = row.sends + 1,
                          !.issued = vclock, !.attempts = 0, !.verified = Null,
                          !.sends = row.sends + 1]
    /\ sending' = sending \cup {row.sends + 1}
    /\ UNCHANGED <<inbox, vclock, accepted>>

\* The phone gets the SMS: early, late, or though the provider said no.
SmsArrives(k) ==
    /\ k <= row.sends /\ k \notin inbox
    /\ inbox' = inbox \cup {k}
    /\ UNCHANGED <<row, sending, vclock, accepted>>

\* issue_otp, the provider said yes.
ConfirmOtp(k) ==
    /\ k \in sending
    /\ sending' = sending \ {k}
    /\ row' = IF row.digest = k /\ row.state = "otp_sending"
              THEN [row EXCEPT !.state = "otp_pending"] ELSE row
    /\ UNCHANGED <<inbox, vclock, accepted>>

\* Mutant: the answer is applied to whatever code the row has.
FailOtpAnyway(k) ==
    /\ k \in sending
    /\ sending' = sending \ {k}
    /\ row' = [row EXCEPT !.state = "listing_matched", !.digest = NoCode]
    /\ UNCHANGED <<inbox, vclock, accepted>>

\* issue_otp, the provider said no, timed out or raised.
FailOtp(k) ==
    /\ k \in sending
    /\ sending' = sending \ {k}
    /\ row' = IF row.digest = k
              THEN [row EXCEPT !.state = "listing_matched", !.digest = NoCode] ELSE row
    /\ UNCHANGED <<inbox, vclock, accepted>>

\* Mutant: the attempts are not counted.
CodeAskedForEver ==
    /\ ReviewStands
    /\ row.state = "otp_pending" /\ row.digest # NoCode
    /\ vclock < row.issued + OtpTTL

CodeAsked ==
    /\ ReviewStands
    /\ row.state = "otp_pending" /\ row.digest # NoCode
    /\ vclock < row.issued + OtpTTL
    /\ row.attempts < MaxAttempts

\* verify_otp with the code of SMS k, or with a code of no SMS (NoCode).
VerifyOtp(k) ==
    /\ k \in inbox \cup {NoCode}
    /\ CodeAsked
    /\ row' = IF k = row.digest
              THEN [row EXCEPT !.state = "phone_control_verified", !.attempts = @ + 1,
                               !.verified = vclock, !.digest = NoCode]
              ELSE [row EXCEPT !.attempts = @ + 1]
    /\ accepted' = IF k = row.digest THEN k ELSE accepted
    /\ UNCHANGED <<sending, inbox, vclock>>

\* withdraw_consent
WithdrawConsent ==
    /\ row.state # "absent"
    /\ row' = [row EXCEPT !.state = "consent_withdrawn", !.consent = Null,
                          !.checked = Null, !.digest = NoCode, !.verified = Null]
    /\ UNCHANGED <<sending, inbox, vclock, accepted>>

\* The process dies: the answers of the SMS under way are never recorded.
VerificationCrash ==
    /\ sending # {}
    /\ sending' = {}
    /\ UNCHANGED <<row, inbox, vclock, accepted>>

VerificationTick ==
    /\ vclock < MaxClock
    /\ vclock' = vclock + 1
    /\ UNCHANGED <<row, sending, inbox, accepted>>

VerificationNext ==
    \/ Create \/ HumanReview \/ ReserveOtp \/ WithdrawConsent
    \/ VerificationCrash \/ VerificationTick
    \/ \E matched \in BOOLEAN : ListingCheck(matched)
    \/ \E k \in Sms : SmsArrives(k) \/ ConfirmOtp(k) \/ FailOtp(k)
    \/ \E k \in Sms \cup {NoCode} : VerifyOtp(k)

VerificationSpec == VerificationInit /\ [][VerificationNext]_verificationVars

-----------------------------------------------------------------------------
(***************************************************************************)
(* A case stands in a state that a review opened only with the owner's     *)
(* consent: the late answer of an SMS never brings a withdrawn case back.  *)
(***************************************************************************)
ConsentBehindState ==
    row.state \in ReviewedStates \cup {"otp_sending"} =>
        row.consent # Null /\ row.consent = row.reviewed

(***************************************************************************)
(* A phone is verified by the code of the latest SMS, answered while it    *)
(* was valid, sent within the freshness of a match of the listing that     *)
(* followed the review and the consent now in force.                       *)
(***************************************************************************)
VerifiedByLiveCode ==
    row.state = "phone_control_verified" =>
        /\ accepted = row.sends
        /\ row.reviewed <= row.checked /\ row.checked <= row.issued
        /\ row.issued <= row.verified /\ row.verified < row.issued + OtpTTL
        /\ row.issued - row.checked <= CheckTTL
        /\ row.verified - row.reviewed <= ReviewTTL

(***************************************************************************)
(* A case left in otp_sending by a process death takes no code and opens   *)
(* no way forward: only a new review or a withdrawal moves it.             *)
(***************************************************************************)
StrandedNeedsReview ==
    [][(row.state = "otp_sending" /\ row.digest \notin sending /\ row' # row)
        => row'.state \in {"reviewed", "consent_withdrawn"}]_verificationVars
=============================================================================
