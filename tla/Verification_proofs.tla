-------------------------- MODULE Verification_proofs --------------------------
(***************************************************************************)
(* Proofs about VerificationCase, for any time limits, any number of       *)
(* attempts and SMS and any bound on the clock, and about OwnerConsent,    *)
(* for any staff, contents of the listing, validity and bounds on the      *)
(* registers.                                                              *)
(***************************************************************************)
EXTENDS VerificationCase, OwnerConsent, TLAPS

-----------------------------------------------------------------------------
(***************************************************************************)
(* The phone.  PhoneInv adds to the two invariants what they rest on: a    *)
(* code belongs to a case that is sending or awaiting it and is that of    *)
(* the latest SMS, and such a case has a match of the listing from before  *)
(* the SMS, behind the review and fresh when the SMS was reserved.         *)
(***************************************************************************)
CodeStates == {"otp_sending", "otp_pending"}

CodeInItsStates == row.digest # NoCode => row.state \in CodeStates
LatestCode == row.state \in CodeStates => row.digest = row.sends
ReviewedByNow == row.reviewed <= vclock
CheckedAfterReview ==
    row.checked # Null =>
        row.reviewed # Null /\ row.reviewed <= row.checked /\ row.checked <= vclock
SentOnFreshCheck ==
    row.state \in CodeStates =>
        /\ row.checked # Null
        /\ row.checked <= row.issued /\ row.issued <= vclock
        /\ row.issued - row.checked <= CheckTTL

PhoneInv ==
    /\ VerificationTypeOK
    /\ CodeInItsStates /\ LatestCode
    /\ ReviewedByNow /\ CheckedAfterReview /\ SentOnFreshCheck
    /\ ConsentBehindState /\ VerifiedByLiveCode

\* The columns of a row, in their order.
Columns(r, state, reviewed, consent, checked, digest, issued, attempts, verified, sends) ==
    /\ r.state = state
    /\ r.reviewed = reviewed /\ r.consent = consent /\ r.checked = checked
    /\ r.digest = digest /\ r.issued = issued /\ r.attempts = attempts
    /\ r.verified = verified /\ r.sends = sends

\* The writes of the row, column by column; first that of a listing check.
LEMMA CheckWrites ==
    ASSUME row \in CaseRow, NEW s \in CaseRowStates, NEW c \in MaybeTime, NEW r,
           r = [row EXCEPT !.state = s, !.checked = c, !.digest = NoCode,
                           !.verified = Null]
    PROVE  r \in CaseRow /\ Columns(r, s, row.reviewed, row.consent, c, NoCode,
                                    row.issued, row.attempts, Null, row.sends)
<1>1. r \in CaseRow
  BY Zenon DEF CaseRow, MaybeTime
<1> QED
  BY <1>1, Zenon DEF CaseRow, Columns

\* ... of the first transaction of issue_otp,
LEMMA ReserveWrites ==
    ASSUME row \in CaseRow, vclock \in Time, row.sends < MaxSends, NEW r,
           r = [row EXCEPT !.state = "otp_sending", !.digest = row.sends + 1,
                           !.issued = vclock, !.attempts = 0, !.verified = Null,
                           !.sends = row.sends + 1]
    PROVE  r \in CaseRow /\ Columns(r, "otp_sending", row.reviewed, row.consent,
                                    row.checked, row.sends + 1, vclock, 0, Null,
                                    row.sends + 1)
<1>1. /\ row.sends + 1 \in Sms /\ row.sends + 1 \in 0..MaxSends
      /\ 0 \in 0..MaxAttempts
  BY VerificationAssumption DEF CaseRow, Sms
<1>2. r \in CaseRow
  BY <1>1, Zenon DEF CaseRow, CaseRowStates, MaybeTime
<1> QED
  BY <1>2, Zenon DEF CaseRow, Columns

\* ... of a failed SMS,
LEMMA FailWrites ==
    ASSUME row \in CaseRow, NEW r,
           r = [row EXCEPT !.state = "listing_matched", !.digest = NoCode]
    PROVE  r \in CaseRow /\ Columns(r, "listing_matched", row.reviewed, row.consent,
                                    row.checked, NoCode, row.issued, row.attempts,
                                    row.verified, row.sends)
<1>1. r \in CaseRow
  BY Zenon DEF CaseRow, CaseRowStates
<1> QED
  BY <1>1, Zenon DEF CaseRow, Columns

\* ... of the right answer,
LEMMA VerifyWrites ==
    ASSUME row \in CaseRow, vclock \in Time, row.attempts < MaxAttempts, NEW r,
           r = [row EXCEPT !.state = "phone_control_verified", !.attempts = @ + 1,
                           !.verified = vclock, !.digest = NoCode]
    PROVE  r \in CaseRow /\ Columns(r, "phone_control_verified", row.reviewed,
                                    row.consent, row.checked, NoCode, row.issued,
                                    row.attempts + 1, vclock, row.sends)
<1>1. row.attempts + 1 \in 0..MaxAttempts
  BY VerificationAssumption DEF CaseRow
<1>2. r \in CaseRow
  BY <1>1, Zenon DEF CaseRow, CaseRowStates, MaybeTime
<1> QED
  BY <1>2, Zenon DEF CaseRow, Columns

\* ... of a withdrawal,
LEMMA WithdrawWrites ==
    ASSUME row \in CaseRow, NEW r,
           r = [row EXCEPT !.state = "consent_withdrawn", !.consent = Null,
                           !.checked = Null, !.digest = NoCode, !.verified = Null]
    PROVE  r \in CaseRow /\ Columns(r, "consent_withdrawn", row.reviewed, Null, Null,
                                    NoCode, row.issued, row.attempts, Null, row.sends)
<1>1. r \in CaseRow
  BY Zenon DEF CaseRow, CaseRowStates, MaybeTime
<1> QED
  BY <1>1, Zenon DEF CaseRow, Columns

\* A new case is a row.
LEMMA NoCaseIsRow == NoCase \in CaseRow
  BY VerificationAssumption DEF NoCase, CaseRow, CaseRowStates, MaybeTime

\* ... and of a review.
LEMMA ReviewWrites ==
    ASSUME row \in CaseRow, vclock \in Time, NEW r,
           r = [NoCase EXCEPT !.state = "reviewed", !.reviewed = vclock,
                              !.consent = vclock, !.issued = row.issued,
                              !.sends = row.sends]
    PROVE  r \in CaseRow /\ Columns(r, "reviewed", vclock, vclock, Null, NoCode,
                                    row.issued, 0, Null, row.sends)
<1>1. r \in CaseRow
  BY NoCaseIsRow, Zenon DEF CaseRow, CaseRowStates, MaybeTime
<1>2. /\ r.state = "reviewed" /\ r.reviewed = vclock /\ r.consent = vclock
      /\ r.issued = row.issued /\ r.sends = row.sends
  BY NoCaseIsRow, Zenon DEF CaseRow
<1>3. /\ r.checked = NoCase.checked /\ r.digest = NoCase.digest
      /\ r.attempts = NoCase.attempts /\ r.verified = NoCase.verified
  BY NoCaseIsRow, Zenon DEF CaseRow
<1> QED
  BY <1>1, <1>2, <1>3, Zenon DEF NoCase, Columns

-----------------------------------------------------------------------------
\* The strengthened invariant holds of the empty table.
LEMMA PhoneInit == VerificationInit => PhoneInv
<1> SUFFICES ASSUME VerificationInit PROVE PhoneInv
  OBVIOUS
<1>1. row = NoCase /\ sending = {} /\ inbox = {} /\ vclock = 0 /\ accepted = NoCode
  BY DEF VerificationInit
<1>2. VerificationTypeOK
  BY <1>1, NoCaseIsRow, VerificationAssumption DEF VerificationTypeOK, Time
<1> QED
  BY <1>1, <1>2 DEF PhoneInv, NoCase, CodeInItsStates, LatestCode, ReviewedByNow,
       CheckedAfterReview, SentOnFreshCheck, CodeStates, ConsentBehindState, VerifiedByLiveCode,
       ReviewedStates, NoCode, Null

\* Every call, SMS, death and tick preserves it.
LEMMA PhoneStep == PhoneInv /\ [VerificationNext]_verificationVars => PhoneInv'
<1> SUFFICES ASSUME PhoneInv, [VerificationNext]_verificationVars PROVE PhoneInv'
  OBVIOUS
<1> USE DEF NoCode
<1>t. /\ row \in CaseRow /\ sending \subseteq Sms /\ inbox \subseteq Sms
      /\ vclock \in Time /\ accepted \in Sms \cup {NoCode}
  BY DEF PhoneInv, VerificationTypeOK
<1>n. /\ Time \subseteq Nat /\ MaybeTime \subseteq Int /\ Time \subseteq MaybeTime
      /\ Sms \subseteq Nat \ {0} /\ MaxSends \in Nat
      /\ CheckTTL \in Nat /\ OtpTTL \in Nat /\ ReviewTTL \in Nat
  BY VerificationAssumption DEF Time, MaybeTime, Null, Sms
<1>1. CASE Create
  <2>1. row' = [NoCase EXCEPT !.state = "pending_review"]
        /\ UNCHANGED <<sending, inbox, vclock, accepted>>
    BY <1>1 DEF Create
  <2>2. row' \in CaseRow
    BY <2>1, NoCaseIsRow DEF CaseRow, CaseRowStates
  <2>3. /\ row'.state = "pending_review" /\ row'.reviewed = Null
        /\ row'.checked = Null /\ row'.digest = NoCode
    BY <2>1 DEF NoCase
  <2> QED
    BY <2>1, <2>2, <2>3, <1>t, <1>n DEF PhoneInv, VerificationTypeOK, CodeInItsStates,
         LatestCode, ReviewedByNow, CheckedAfterReview, SentOnFreshCheck, CodeStates, ConsentBehindState,
         VerifiedByLiveCode, ReviewedStates, Null
<1>2. CASE HumanReview
  <2>1. /\ row' = [NoCase EXCEPT !.state = "reviewed", !.reviewed = vclock,
                      !.consent = vclock, !.issued = row.issued, !.sends = row.sends]
        /\ UNCHANGED <<sending, inbox, vclock, accepted>>
    BY <1>2, Zenon DEF HumanReview
  <2>2. row' \in CaseRow /\ Columns(row', "reviewed", vclock, vclock, Null, NoCode,
                                    row.issued, 0, Null, row.sends)
    BY <2>1, <1>t, ReviewWrites, Zenon
  <2>3. UNCHANGED <<sending, inbox, vclock, accepted>>
    BY <2>1, Zenon
  <2> QED
    BY <2>2, <2>3, <1>t, <1>n DEF Columns, PhoneInv, VerificationTypeOK,
         CodeInItsStates, LatestCode, ReviewedByNow, CheckedAfterReview, SentOnFreshCheck,
         CodeStates, ConsentBehindState, VerifiedByLiveCode, ReviewedStates, Null, Time
<1>3. ASSUME NEW matched \in BOOLEAN, ListingCheck(matched) PROVE PhoneInv'
  <2> DEFINE s == IF matched THEN "listing_matched" ELSE "needs_review"
             c == IF matched THEN vclock ELSE Null
  <2>1. /\ row' = [row EXCEPT !.state = s, !.checked = c, !.digest = NoCode,
                              !.verified = Null]
        /\ UNCHANGED <<sending, inbox, vclock, accepted>>
        /\ ReviewStands
    BY <1>3, Zenon DEF ListingCheck
  <2>2. s \in CaseRowStates /\ c \in MaybeTime
    BY <1>t, <1>n DEF CaseRowStates, MaybeTime
  <2> HIDE DEF s, c
  <2>3. row' \in CaseRow /\ Columns(row', s, row.reviewed, row.consent, c, NoCode,
                                    row.issued, row.attempts, Null, row.sends)
    BY <2>1, <2>2, <1>t, CheckWrites, Zenon
  <2>4. UNCHANGED <<sending, inbox, vclock, accepted>> /\ ReviewStands
    BY <2>1, Zenon
  <2>5. VerificationTypeOK'
    BY <2>3, <2>4, <1>t DEF VerificationTypeOK
  <2>6. row.consent # Null /\ row.consent = row.reviewed
    BY <2>4 DEF ReviewStands, PhoneInv, ConsentBehindState
  <2>7. ConsentBehindState'
    BY <2>3, <2>6 DEF Columns, ConsentBehindState
  <2>8. c = Null \/ (c = vclock /\ row.reviewed <= vclock /\ row.reviewed # Null)
    BY <2>6, <1>n DEF c, PhoneInv, ReviewedByNow
  <2> QED
    BY <2>3, <2>4, <2>5, <2>6, <2>7, <2>8, <1>t, <1>n DEF s, Columns, PhoneInv, CodeInItsStates,
         LatestCode, ReviewedByNow, CheckedAfterReview, SentOnFreshCheck, CodeStates,
         VerifiedByLiveCode
<1>4. CASE ReserveOtp
  <2>1. /\ row' = [row EXCEPT !.state = "otp_sending", !.digest = row.sends + 1,
                      !.issued = vclock, !.attempts = 0, !.verified = Null,
                      !.sends = row.sends + 1]
        /\ sending' = sending \cup {row.sends + 1}
        /\ UNCHANGED <<inbox, vclock, accepted>>
        /\ MayIssue
    BY <1>4, Zenon DEF ReserveOtp
  <2>2. sending' = sending \cup {row.sends + 1} /\ UNCHANGED <<inbox, vclock, accepted>>
    BY <2>1, Zenon
  <2>3. MayIssue
    BY <2>1, Zenon
  <2>4. row.sends < MaxSends
    BY <2>3 DEF MayIssue
  <2>5. row' \in CaseRow /\ Columns(row', "otp_sending", row.reviewed, row.consent,
                                    row.checked, row.sends + 1, vclock, 0, Null,
                                    row.sends + 1)
    BY <2>1, <2>4, <1>t, ReserveWrites, Zenon
  <2>6. row.sends + 1 \in Sms
    BY <2>4, <1>t, <1>n DEF CaseRow, Sms
  <2>7. VerificationTypeOK'
    BY <2>2, <2>5, <2>6, <1>t DEF VerificationTypeOK
  <2>8. ConsentBehindState'
    BY <2>3, <2>5 DEF MayIssue, ReviewStands, PhoneInv, ConsentBehindState, Columns
  <2>9. CheckedAfterReview' /\ SentOnFreshCheck'
    BY <2>2, <2>3, <2>5, <1>t, <1>n DEF MayIssue, PhoneInv, CheckedAfterReview,
         SentOnFreshCheck, Columns, CaseRow
  <2> QED
    BY <2>2, <2>5, <2>7, <2>8, <2>9 DEF Columns, PhoneInv, CodeInItsStates, LatestCode,
         ReviewedByNow, CodeStates, VerifiedByLiveCode
<1>5. ASSUME NEW k \in Sms, SmsArrives(k) PROVE PhoneInv'
  BY <1>5, <1>t DEF SmsArrives, PhoneInv, VerificationTypeOK, CodeInItsStates,
       LatestCode, ReviewedByNow, CheckedAfterReview, SentOnFreshCheck, ConsentBehindState,
       VerifiedByLiveCode
<1>6. ASSUME NEW k \in Sms, ConfirmOtp(k) PROVE PhoneInv'
  <2>1. /\ sending' = sending \ {k} /\ UNCHANGED <<inbox, vclock, accepted>>
        /\ row' = IF row.digest = k /\ row.state = "otp_sending"
                  THEN [row EXCEPT !.state = "otp_pending"] ELSE row
    BY <1>6 DEF ConfirmOtp
  <2>2. CASE row' = row
    BY <2>1, <2>2, <1>t DEF PhoneInv, VerificationTypeOK, CodeInItsStates,
         LatestCode, ReviewedByNow, CheckedAfterReview, SentOnFreshCheck,
         ConsentBehindState, VerifiedByLiveCode
  <2>3. CASE /\ row.digest = k /\ row.state = "otp_sending"
             /\ row' = [row EXCEPT !.state = "otp_pending"]
    <3>1. row' \in CaseRow
      BY <2>3, <1>t DEF CaseRow, CaseRowStates
    <3>2. Columns(row', "otp_pending", row.reviewed, row.consent, row.checked, row.digest,
                  row.issued, row.attempts, row.verified, row.sends)
      BY <2>3, <1>t DEF CaseRow, Columns
    <3> QED
      BY <2>1, <2>3, <3>1, <3>2, <1>t DEF Columns, PhoneInv, VerificationTypeOK,
           CodeInItsStates, LatestCode, ReviewedByNow, CheckedAfterReview,
           SentOnFreshCheck, CodeStates, ConsentBehindState, ReviewedStates,
           VerifiedByLiveCode
  <2> QED
    BY <2>1, <2>2, <2>3
<1>7. ASSUME NEW k \in Sms, FailOtp(k) PROVE PhoneInv'
  <2>1. /\ sending' = sending \ {k} /\ UNCHANGED <<inbox, vclock, accepted>>
        /\ row' = row \/ (/\ row.digest = k
                          /\ row' = [row EXCEPT !.state = "listing_matched",
                                                !.digest = NoCode])
    BY <1>7, Zenon DEF FailOtp
  <2>2. sending' = sending \ {k} /\ UNCHANGED <<inbox, vclock, accepted>>
    BY <2>1, Zenon
  <2>3. CASE row' = row
    BY <2>2, <2>3, <1>t DEF PhoneInv, VerificationTypeOK, CodeInItsStates,
         LatestCode, ReviewedByNow, CheckedAfterReview, SentOnFreshCheck,
         ConsentBehindState, VerifiedByLiveCode
  <2>4. CASE row.digest = k /\ row' = [row EXCEPT !.state = "listing_matched",
                                                  !.digest = NoCode]
    <3>1. row.digest = k
      BY <2>4, Zenon
    <3>2. row' \in CaseRow /\ Columns(row', "listing_matched", row.reviewed, row.consent,
                                      row.checked, NoCode, row.issued, row.attempts,
                                      row.verified, row.sends)
      BY <2>4, <1>t, FailWrites, Zenon
    <3> QED
      BY <2>2, <3>1, <3>2, <1>t, <1>n DEF Columns, PhoneInv, VerificationTypeOK,
           CodeInItsStates, LatestCode, ReviewedByNow, CheckedAfterReview,
           SentOnFreshCheck, CodeStates, ConsentBehindState, ReviewedStates,
           VerifiedByLiveCode
  <2> QED
    BY <2>1, <2>3, <2>4, Zenon
<1>8. ASSUME NEW k \in Sms \cup {NoCode}, VerifyOtp(k) PROVE PhoneInv'
  <2>1. UNCHANGED <<sending, inbox, vclock>> /\ CodeAsked
    BY <1>8, Zenon DEF VerifyOtp
  <2>2. CASE k = row.digest
    <3>1. /\ row' = [row EXCEPT !.state = "phone_control_verified", !.attempts = @ + 1,
                                !.verified = vclock, !.digest = NoCode]
          /\ accepted' = k
      BY <1>8, <2>2, Zenon DEF VerifyOtp
    <3>2. row.attempts < MaxAttempts
      BY <2>1 DEF CodeAsked
    <3>3. row' \in CaseRow /\ Columns(row', "phone_control_verified", row.reviewed,
                                      row.consent, row.checked, NoCode, row.issued,
                                      row.attempts + 1, vclock, row.sends)
      BY <3>1, <3>2, <1>t, VerifyWrites, Zenon
    <3>4. accepted' = k
      BY <3>1, Zenon
    <3>5. VerificationTypeOK'
      BY <2>1, <3>3, <3>4, <1>t DEF VerificationTypeOK
    <3>6. VerifiedByLiveCode'
      BY <2>1, <2>2, <3>3, <3>4, <1>t, <1>n DEF CodeAsked, ReviewStands, Columns, PhoneInv,
           LatestCode, CheckedAfterReview, SentOnFreshCheck, CodeStates,
         VerifiedByLiveCode
    <3>7. ConsentBehindState'
      BY <2>1, <3>3 DEF CodeAsked, ReviewStands, Columns, PhoneInv, ConsentBehindState
    <3> QED
      BY <2>1, <3>3, <3>5, <3>6, <3>7 DEF Columns, PhoneInv, CodeInItsStates, LatestCode,
           ReviewedByNow, CheckedAfterReview, SentOnFreshCheck, CodeStates
  <2>3. CASE k # row.digest
    <3>1. row' = [row EXCEPT !.attempts = @ + 1] /\ accepted' = accepted
      BY <1>8, <2>3, Zenon DEF VerifyOtp
    <3>2. row.attempts + 1 \in 0..MaxAttempts
      BY <2>1, <1>t, VerificationAssumption DEF CodeAsked, CaseRow
    <3>3. row' \in CaseRow
      BY <3>1, <3>2, <1>t DEF CaseRow
    <3>4. Columns(row', row.state, row.reviewed, row.consent, row.checked, row.digest,
                  row.issued, row.attempts + 1, row.verified, row.sends)
      BY <3>1, <1>t DEF CaseRow, Columns
    <3>5. accepted' = accepted
      BY <3>1, Zenon
    <3> QED
      BY <2>1, <3>3, <3>4, <3>5, <1>t DEF Columns, PhoneInv, VerificationTypeOK,
           CodeInItsStates, LatestCode, ReviewedByNow, CheckedAfterReview,
           SentOnFreshCheck, CodeStates, ConsentBehindState, VerifiedByLiveCode
  <2> QED
    BY <2>2, <2>3
<1>9. CASE WithdrawConsent
  <2>1. /\ row' = [row EXCEPT !.state = "consent_withdrawn", !.consent = Null,
                       !.checked = Null, !.digest = NoCode, !.verified = Null]
        /\ UNCHANGED <<sending, inbox, vclock, accepted>>
    BY <1>9, Zenon DEF WithdrawConsent
  <2>2. row' \in CaseRow /\ Columns(row', "consent_withdrawn", row.reviewed, Null, Null,
                                    NoCode, row.issued, row.attempts, Null, row.sends)
    BY <2>1, <1>t, WithdrawWrites, Zenon
  <2>3. UNCHANGED <<sending, inbox, vclock, accepted>>
    BY <2>1, Zenon
  <2> QED
    BY <2>2, <2>3, <1>t DEF Columns, PhoneInv, VerificationTypeOK, CodeInItsStates,
         LatestCode, ReviewedByNow, CheckedAfterReview, SentOnFreshCheck, CodeStates,
         ConsentBehindState, VerifiedByLiveCode, ReviewedStates
<1>10. CASE VerificationCrash
  BY <1>10, <1>t DEF VerificationCrash, PhoneInv, VerificationTypeOK, CodeInItsStates,
       LatestCode, ReviewedByNow, CheckedAfterReview, SentOnFreshCheck, ConsentBehindState,
       VerifiedByLiveCode
<1>11. CASE VerificationTick
  <2>1. vclock' = vclock + 1 /\ vclock' \in Time /\ UNCHANGED <<row, sending, inbox, accepted>>
    BY <1>11, <1>t, VerificationAssumption DEF VerificationTick, Time
  <2>2. row.reviewed \in Int /\ row.checked \in Int /\ row.issued \in Int /\ vclock \in Int
    BY <1>t, <1>n DEF CaseRow
  <2>3. ReviewedByNow' /\ CheckedAfterReview' /\ SentOnFreshCheck'
    BY <2>1, <2>2 DEF PhoneInv, ReviewedByNow, CheckedAfterReview, SentOnFreshCheck
  <2> QED
    BY <2>1, <2>3, <1>t DEF PhoneInv, VerificationTypeOK, CodeInItsStates,
         LatestCode, ConsentBehindState, VerifiedByLiveCode
<1>12. CASE UNCHANGED verificationVars
  BY <1>12 DEF verificationVars, PhoneInv, VerificationTypeOK, CodeInItsStates,
       LatestCode, ReviewedByNow, CheckedAfterReview, SentOnFreshCheck, ConsentBehindState,
       VerifiedByLiveCode
<1> QED
  BY <1>1, <1>2, <1>3, <1>4, <1>5, <1>6, <1>7, <1>8, <1>9, <1>10, <1>11, <1>12
     DEF VerificationNext

\* Every reachable state satisfies the strengthened invariant.
THEOREM PhoneInvariant == VerificationSpec => []PhoneInv
<1> QED
  BY PhoneInit, PhoneStep, PTL DEF VerificationSpec

\* The row, the SMS and the clock stay within their types.
THEOREM VerificationTypeCorrect == VerificationSpec => []VerificationTypeOK
<1>1. PhoneInv => VerificationTypeOK
  BY DEF PhoneInv
<1> QED
  BY <1>1, PhoneInvariant, PTL

\* A state that a review opened is never without the owner's consent, whatever
\* late answer of the SMS provider is applied.
THEOREM ConsentIsBehindState == VerificationSpec => []ConsentBehindState
<1>1. PhoneInv => ConsentBehindState
  BY DEF PhoneInv
<1> QED
  BY <1>1, PhoneInvariant, PTL

\* A verified phone answered with the code of the latest SMS, in time and on a
\* fresh match of the listing behind the review in force.
THEOREM PhoneVerifiedByLiveCode == VerificationSpec => []VerifiedByLiveCode
<1>1. PhoneInv => VerifiedByLiveCode
  BY DEF PhoneInv
<1> QED
  BY <1>1, PhoneInvariant, PTL

\* Nothing but a review or a withdrawal moves a case whose SMS nobody is
\* sending any more.
THEOREM StrandedCaseNeedsReview == VerificationSpec => StrandedNeedsReview
<1> DEFINE Stranded == row.state = "otp_sending" /\ row.digest \notin sending
           Moved == row'.state \in {"reviewed", "consent_withdrawn"}
<1>1. ASSUME PhoneInv, [VerificationNext]_verificationVars, Stranded, row' # row
      PROVE  Moved
  <2>t. row \in CaseRow /\ vclock \in Time
    BY <1>1 DEF PhoneInv, VerificationTypeOK
  <2>1. CASE HumanReview
    BY <2>1, <2>t, ReviewWrites, Zenon DEF HumanReview, Columns
  <2>2. CASE WithdrawConsent
    BY <2>2, <2>t, WithdrawWrites, Zenon DEF WithdrawConsent, Columns
  <2>3. row.state = "otp_sending" /\ row' # row /\ row.digest \notin sending
    BY <1>1
  <2>4. ~ReviewStands
    BY <2>3 DEF ReviewStands, ReviewedStates
  <2>5. ~MayIssue /\ ~CodeAsked
    BY <2>4 DEF MayIssue, CodeAsked
  <2>6. ~Create /\ ~ReserveOtp /\ \A matched \in BOOLEAN : ~ListingCheck(matched)
    BY <2>3, <2>4, <2>5, Zenon DEF Create, ReserveOtp, ListingCheck
  <2>7. \A k \in Sms : ~SmsArrives(k) /\ ~ConfirmOtp(k) /\ ~FailOtp(k)
    BY <2>3, Zenon DEF SmsArrives, ConfirmOtp, FailOtp
  <2>8. \A k \in Sms \cup {NoCode} : ~VerifyOtp(k)
    BY <2>5, Zenon DEF VerifyOtp
  <2>9. ~VerificationCrash /\ ~VerificationTick /\ ~UNCHANGED verificationVars
    BY <2>3 DEF VerificationCrash, VerificationTick, verificationVars
  <2> QED
    BY <1>1, <2>1, <2>2, <2>6, <2>7, <2>8, <2>9 DEF VerificationNext
<1>2. PhoneInv /\ [VerificationNext]_verificationVars
        => [Stranded /\ row' # row => Moved]_verificationVars
  BY <1>1
<1> QED
  BY <1>2, PhoneInvariant, PTL DEF VerificationSpec, StrandedNeedsReview

-----------------------------------------------------------------------------
(***************************************************************************)
(* The consent.  RegisterInv adds what a consent in force rests on: an     *)
(* approval follows a record of the owner's word by another person, on the *)
(* same content and with the same expiry, and terms start with their own   *)
(* event.                                                                  *)
(***************************************************************************)
ApprovalAfterSupport ==
    \A i \in 1..Len(consents) :
        consents[i].action = "management_approved" =>
            /\ i > 1
            /\ consents[i - 1].action = "support_recorded"
            /\ consents[i - 1].support # consents[i].actor
            /\ consents[i - 1].print = consents[i].print
            /\ consents[i - 1].expires = consents[i].expires

SupportStartsTerm ==
    \A i \in 1..Len(consents) :
        consents[i].action = "support_recorded" =>
            /\ consents[i].support = consents[i].actor
            /\ consents[i].expires = consents[i].at + ConsentTTL

ReviewStartsTerm ==
    \A i \in 1..Len(reviews) : reviews[i].expires = reviews[i].at + ConsentTTL

RegisterInv ==
    /\ ConsentTypeOK
    /\ ApprovalAfterSupport /\ SupportStartsTerm /\ ReviewStartsTerm
    /\ NothingDecidedUnseen

ConsentEvent == [action: Actions, actor: Staff, print: Prints, support: Staff,
                 at: 0..MaxDay, expires: Nat, seen: Nat]
ReviewEvent == [action: Decisions, actor: Staff, print: Prints,
                at: 0..MaxDay, expires: Nat, seen: Nat]

\* The registers are empty and every form closed at the start.
LEMMA RegisterInit == OwnerConsentInit => RegisterInv
<1> SUFFICES ASSUME OwnerConsentInit PROVE RegisterInv
  OBVIOUS
<1>1. /\ print \in Prints /\ consents = <<>> /\ reviews = <<>> /\ cday = 0
      /\ sheet = [s \in Staff |-> NoForm]
  BY DEF OwnerConsentInit
<1>2. ConsentTypeOK
  <2>1. sheet \in [Staff -> Sheets]
    BY <1>1 DEF Sheets
  <2>2. cday \in 0..MaxDay
    BY <1>1, OwnerConsentAssumption
  <2> QED
    BY <1>1, <2>1, <2>2 DEF ConsentTypeOK
<1> QED
  BY <1>1, <1>2 DEF RegisterInv, ApprovalAfterSupport, SupportStartsTerm,
       ReviewStartsTerm, NothingDecidedUnseen

\* What is known of the form a member of the staff has open.
LEMMA SheetFields ==
    ASSUME ConsentTypeOK, NEW s \in Staff
    PROVE  /\ sheet[s] \in Sheets
           /\ sheet[s].page = "posting" =>
                /\ sheet[s].seen \in Nat /\ sheet[s].print \in Prints
                /\ sheet[s].action \in Actions
           /\ sheet[s].page = "reviewing" =>
                /\ sheet[s].seen \in Nat /\ sheet[s].print \in Prints
                /\ sheet[s].action \in Decisions
           /\ sheet[s].page \in {"consent", "review"} => sheet[s].seen \in Nat
<1>1. sheet[s] \in Sheets
  BY DEF ConsentTypeOK
<1> QED
  BY <1>1 DEF Sheets, NoForm

\* A step that leaves the registers alone preserves what is said of them.
LEMMA RegistersAlone ==
    ASSUME RegisterInv, UNCHANGED <<consents, reviews>>, print' \in Prints,
           cday' \in 0..MaxDay, sheet' \in [Staff -> Sheets]
    PROVE  RegisterInv'
<1>1. ConsentTypeOK'
  BY DEF RegisterInv, ConsentTypeOK
<1> QED
  BY <1>1 DEF RegisterInv, ApprovalAfterSupport, SupportStartsTerm, ReviewStartsTerm,
       NothingDecidedUnseen

\* A new event of the consent register.
LEMMA ConsentRecorded ==
    ASSUME RegisterInv, NEW s \in Staff, RecordConsent(s)
    PROVE  RegisterInv'
<1> DEFINE f == sheet[s]
           e == [action |-> f.action, actor |-> s, print |-> f.print,
                 support |-> IF StartsTerm(f) THEN s ELSE Newest(consents).support,
                 at |-> cday, expires |-> Expiry(f), seen |-> f.seen]
           n == Len(consents)
<1>1. /\ f.page = "posting" /\ MayRecord(s, f) /\ consents' = Append(consents, e)
      /\ sheet' = [sheet EXCEPT ![s] = NoForm] /\ UNCHANGED <<print, reviews, cday>>
  BY DEF RecordConsent, SetForm
<1>t. /\ consents \in Seq(ConsentEvent) /\ cday \in 0..MaxDay
      /\ sheet \in [Staff -> Sheets] /\ n \in Nat
  BY DEF RegisterInv, ConsentTypeOK, ConsentEvent
<1>2. f.seen \in Nat /\ f.print \in Prints /\ f.action \in Actions
  BY <1>1, SheetFields DEF RegisterInv
<1>3. consents # <<>> => Newest(consents) \in ConsentEvent
  BY <1>t DEF Newest
<1>4. Expiry(f) \in Nat
  BY <1>t, <1>3, OwnerConsentAssumption DEF Expiry, ConsentEvent
<1>5. (IF StartsTerm(f) THEN s ELSE Newest(consents).support) \in Staff
  BY <1>3 DEF StartsTerm, ConsentEvent
<1>6. e \in ConsentEvent
  BY <1>t, <1>2, <1>4, <1>5 DEF ConsentEvent
<1>7. f.seen = n
  BY <1>1 DEF MayRecord
<1>8. f.action = "management_approved" =>
        /\ n > 0
        /\ consents[n].action = "support_recorded" /\ consents[n].support # s
        /\ consents[n].print = f.print /\ consents[n].expires = Expiry(f)
  BY <1>1, <1>t DEF MayRecord, Newest, Expiry
<1>9. f.action = "support_recorded" =>
        StartsTerm(f) /\ Expiry(f) = cday + ConsentTTL
  BY DEF StartsTerm, Expiry
<1>10. /\ e.action = f.action /\ e.actor = s /\ e.print = f.print /\ e.at = cday
       /\ e.expires = Expiry(f) /\ e.seen = f.seen
       /\ f.action = "support_recorded" => e.support = s
  BY <1>9
<1> HIDE DEF e, f, n
<1>11. /\ consents' \in Seq(ConsentEvent) /\ Len(consents') = n + 1
       /\ consents'[n + 1] = e
       /\ \A i \in 1..n : consents'[i] = consents[i]
  BY <1>1, <1>6, <1>t DEF n
<1>12. ConsentTypeOK'
  <2>1. sheet' \in [Staff -> Sheets]
    BY <1>1, <1>t DEF Sheets
  <2> QED
    BY <1>1, <1>11, <2>1 DEF RegisterInv, ConsentTypeOK, ConsentEvent
<1>13. ApprovalAfterSupport'
  <2> SUFFICES ASSUME NEW i \in 1..Len(consents'),
                      consents'[i].action = "management_approved"
               PROVE  /\ i > 1
                      /\ consents'[i - 1].action = "support_recorded"
                      /\ consents'[i - 1].support # consents'[i].actor
                      /\ consents'[i - 1].print = consents'[i].print
                      /\ consents'[i - 1].expires = consents'[i].expires
    BY DEF ApprovalAfterSupport
  <2>1. CASE i = n + 1
    BY <1>8, <1>10, <1>11, <1>t, <2>1
  <2>2. CASE i \in 1..n
    <3>1. i > 1 /\ i - 1 \in 1..n
      BY <1>11, <1>t, <2>2 DEF RegisterInv, ApprovalAfterSupport, n
    <3> QED
      BY <1>11, <2>2, <3>1 DEF RegisterInv, ApprovalAfterSupport, n
  <2> QED
    BY <1>11, <1>t, <2>1, <2>2
<1>14. SupportStartsTerm'
  BY <1>9, <1>10, <1>11, <1>t DEF RegisterInv, SupportStartsTerm, n
<1>15. NothingDecidedUnseen'
  <2>1. /\ \A i \in 1..n : consents[i].seen = i - 1
        /\ \A i \in 1..Len(reviews) : reviews[i].seen = i - 1
    BY DEF RegisterInv, NothingDecidedUnseen, n
  <2>2. ASSUME NEW i \in 1..n + 1 PROVE consents'[i].seen = i - 1
    <3>1. CASE i = n + 1
      BY <1>7, <1>10, <1>11, <1>t, <3>1
    <3>2. CASE i \in 1..n
      BY <1>11, <2>1, <3>2
    <3> QED
      BY <1>t, <3>1, <3>2
  <2>3. reviews' = reviews
    BY <1>1, Zenon
  <2> QED
    BY <1>11, <2>1, <2>2, <2>3 DEF NothingDecidedUnseen
<1>16. ReviewStartsTerm'
  BY <1>1 DEF RegisterInv, ReviewStartsTerm
<1> QED
  BY <1>12, <1>13, <1>14, <1>15, <1>16 DEF RegisterInv

\* A new event of the ownership reviews.
LEMMA ReviewRecorded ==
    ASSUME RegisterInv, NEW s \in Staff, RecordReview(s)
    PROVE  RegisterInv'
<1> DEFINE f == sheet[s]
           e == [action |-> f.action, actor |-> s, print |-> f.print, at |-> cday,
                 expires |-> cday + ConsentTTL, seen |-> f.seen]
           n == Len(reviews)
<1>1. /\ f.page = "reviewing" /\ f.seen = n /\ reviews' = Append(reviews, e)
      /\ sheet' = [sheet EXCEPT ![s] = NoForm] /\ UNCHANGED <<print, consents, cday>>
  BY DEF RecordReview, SetForm
<1>t. /\ reviews \in Seq(ReviewEvent) /\ cday \in 0..MaxDay
      /\ sheet \in [Staff -> Sheets] /\ n \in Nat
  BY DEF RegisterInv, ConsentTypeOK, ReviewEvent
<1>2. f.seen \in Nat /\ f.print \in Prints /\ f.action \in Decisions
  BY <1>1, SheetFields DEF RegisterInv
<1>3. e \in ReviewEvent
  BY <1>t, <1>2, OwnerConsentAssumption DEF ReviewEvent
<1>4. e.at = cday /\ e.expires = cday + ConsentTTL /\ e.seen = f.seen
  OBVIOUS
<1> HIDE DEF e, f, n
<1>5. /\ reviews' \in Seq(ReviewEvent) /\ Len(reviews') = n + 1
      /\ reviews'[n + 1] = e
      /\ \A i \in 1..n : reviews'[i] = reviews[i]
  BY <1>1, <1>3, <1>t DEF n
<1>6. ConsentTypeOK'
  <2>1. sheet' \in [Staff -> Sheets]
    BY <1>1, <1>t DEF Sheets
  <2> QED
    BY <1>1, <1>5, <2>1 DEF RegisterInv, ConsentTypeOK, ReviewEvent
<1>7. ReviewStartsTerm'
  BY <1>4, <1>5, <1>t DEF RegisterInv, ReviewStartsTerm, n
<1>8. NothingDecidedUnseen'
  BY <1>1, <1>4, <1>5, <1>t DEF RegisterInv, NothingDecidedUnseen, n
<1>9. ApprovalAfterSupport' /\ SupportStartsTerm'
  BY <1>1 DEF RegisterInv, ApprovalAfterSupport, SupportStartsTerm
<1> QED
  BY <1>6, <1>7, <1>8, <1>9 DEF RegisterInv

\* Every page, post, record, change of the listing and day preserves it.
LEMMA RegisterStep == RegisterInv /\ [OwnerConsentNext]_consentVars => RegisterInv'
<1> SUFFICES ASSUME RegisterInv, [OwnerConsentNext]_consentVars PROVE RegisterInv'
  OBVIOUS
<1>t. /\ print \in Prints /\ cday \in 0..MaxDay /\ sheet \in [Staff -> Sheets]
      /\ Len(consents) \in Nat /\ Len(reviews) \in Nat
  BY DEF RegisterInv, ConsentTypeOK
<1>1. ASSUME NEW s \in Staff, OpenConsentPage(s) PROVE RegisterInv'
  <2>1. sheet' \in [Staff -> Sheets]
    BY <1>1, <1>t DEF OpenConsentPage, SetForm, Sheets
  <2> QED
    BY <1>1, <1>t, <2>1, RegistersAlone DEF OpenConsentPage
<1>2. ASSUME NEW s \in Staff, OpenReviewPage(s) PROVE RegisterInv'
  <2>1. sheet' \in [Staff -> Sheets]
    BY <1>2, <1>t DEF OpenReviewPage, SetForm, Sheets
  <2> QED
    BY <1>2, <1>t, <2>1, RegistersAlone DEF OpenReviewPage
<1>3. ASSUME NEW s \in Staff, CloseForm(s) PROVE RegisterInv'
  <2>1. sheet' \in [Staff -> Sheets]
    BY <1>3, <1>t DEF CloseForm, DropForm, SetForm, Sheets
  <2> QED
    BY <1>3, <1>t, <2>1, RegistersAlone DEF CloseForm, DropForm
<1>4. ASSUME NEW s \in Staff, NEW action \in Actions, PostConsent(s, action)
      PROVE  RegisterInv'
  <2>1. sheet[s].seen \in Nat
    BY <1>4, SheetFields DEF PostConsent, RegisterInv
  <2>2. sheet' \in [Staff -> Sheets]
    BY <1>4, <1>t, <2>1 DEF PostConsent, SetForm, Sheets
  <2> QED
    BY <1>4, <1>t, <2>2, RegistersAlone DEF PostConsent
<1>5. ASSUME NEW s \in Staff, NEW decision \in Decisions, PostReview(s, decision)
      PROVE  RegisterInv'
  <2>1. sheet[s].seen \in Nat
    BY <1>5, SheetFields DEF PostReview, RegisterInv
  <2>2. sheet' \in [Staff -> Sheets]
    BY <1>5, <1>t, <2>1 DEF PostReview, SetForm, Sheets
  <2> QED
    BY <1>5, <1>t, <2>2, RegistersAlone DEF PostReview
<1>6. ASSUME NEW p \in Prints, ListingChanges(p) PROVE RegisterInv'
  BY <1>6, <1>t, RegistersAlone DEF ListingChanges
<1>7. CASE ConsentDay
  <2>1. cday' \in 0..MaxDay
    BY <1>7, <1>t, OwnerConsentAssumption DEF ConsentDay
  <2> QED
    BY <1>7, <1>t, <2>1, RegistersAlone DEF ConsentDay
<1>8. CASE UNCHANGED consentVars
  BY <1>8, <1>t, RegistersAlone DEF consentVars
<1> QED
  BY <1>1, <1>2, <1>3, <1>4, <1>5, <1>6, <1>7, <1>8, ConsentRecorded, ReviewRecorded
     DEF OwnerConsentNext

-----------------------------------------------------------------------------
\* The invariant carries the property of consents in force.
LEMMA RegisterGivesTwo == RegisterInv => EffectiveRestsOnTwo
<1> SUFFICES ASSUME RegisterInv, Effective
             PROVE  LET n == Len(consents) IN
                    /\ n > 1
                    /\ consents[n - 1].action = "support_recorded"
                    /\ consents[n - 1].actor # consents[n].actor
                    /\ consents[n - 1].print = print
                    /\ cday < consents[n - 1].at + ConsentTTL
                    /\ Newest(reviews).print = print
                    /\ cday < Newest(reviews).at + ConsentTTL
  BY DEF EffectiveRestsOnTwo
<1> DEFINE n == Len(consents)
           m == Len(reviews)
<1>1. consents \in Seq(ConsentEvent) /\ reviews \in Seq(ReviewEvent)
  BY DEF RegisterInv, ConsentTypeOK, ConsentEvent, ReviewEvent
<1>2. n \in 1..n /\ m \in 1..m
  BY <1>1 DEF Effective, ConsentApproved, OwnershipValid
<1>3. /\ consents[n].action = "management_approved" /\ consents[n].print = print
      /\ cday < consents[n].expires
      /\ reviews[m].print = print /\ cday < reviews[m].expires
  BY DEF Effective, ConsentApproved, OwnershipValid, Newest
<1>4. /\ n > 1 /\ consents[n - 1].action = "support_recorded"
      /\ consents[n - 1].support # consents[n].actor
      /\ consents[n - 1].print = print /\ consents[n - 1].expires = consents[n].expires
  BY <1>2, <1>3 DEF RegisterInv, ApprovalAfterSupport
<1>5. n - 1 \in 1..n
  BY <1>2, <1>4
<1>6. /\ consents[n - 1].support = consents[n - 1].actor
      /\ consents[n - 1].expires = consents[n - 1].at + ConsentTTL
  BY <1>4, <1>5 DEF RegisterInv, SupportStartsTerm
<1>7. reviews[m].expires = reviews[m].at + ConsentTTL
  BY <1>2 DEF RegisterInv, ReviewStartsTerm
<1> QED
  BY <1>3, <1>4, <1>6, <1>7 DEF Newest

\* Every reachable state satisfies the strengthened invariant.
THEOREM RegisterInvariant == OwnerConsentSpec => []RegisterInv
<1> QED
  BY RegisterInit, RegisterStep, PTL DEF OwnerConsentSpec

\* Registers, forms and clock stay within their types.
THEOREM ConsentTypeCorrect == OwnerConsentSpec => []ConsentTypeOK
<1>1. RegisterInv => ConsentTypeOK
  BY DEF RegisterInv
<1> QED
  BY <1>1, RegisterInvariant, PTL

\* A consent in force rests on two people, on the present content and on fresh
\* events, however forms, changes of the listing and days interleave.
THEOREM ConsentRestsOnTwo == OwnerConsentSpec => []EffectiveRestsOnTwo
<1> QED
  BY RegisterGivesTwo, RegisterInvariant, PTL

\* Nobody decides on a register that moved since the page was rendered.
THEOREM NothingIsDecidedUnseen == OwnerConsentSpec => []NothingDecidedUnseen
<1>1. RegisterInv => NothingDecidedUnseen
  BY DEF RegisterInv
<1> QED
  BY <1>1, RegisterInvariant, PTL
=============================================================================
