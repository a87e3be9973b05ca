----------------------- MODULE NotificationStore_proofs -----------------------
(***************************************************************************)
(* The journal of notifications is type-correct, never sends twice, tells  *)
(* the truth and implements OnceOnly, for any events, senders and times.   *)
(***************************************************************************)
EXTENDS NotificationStore, TLAPS

Open(s) == scopes[s].step # "idle"

\* A scope that is entered holds an event, one the journal has marked as claimed.
ScopesHoldClaims ==
    \A s \in Senders :
        Open(s) => /\ Held(s) \in Keys
                   /\ events[Held(s)].state \in {"sending", "unknown"}

\* No event is served in two scopes.
OneScopePerEvent ==
    \A s, t \in Senders : Open(s) /\ Open(t) /\ Held(s) = Held(t) => s = t

\* What has been sent when a scope is at each of its steps.
ScopesTellSends ==
    \A s \in Senders :
        /\ scopes[s].step \in {"claimed", "open"} => sends[Held(s)] = 0
        /\ scopes[s].step = "done" => sends[Held(s)] = 1

JournalInv ==
    /\ JournalTypeOK
    /\ AtMostOnce
    /\ JournalIsTruthful
    /\ ScopesHoldClaims
    /\ OneScopePerEvent
    /\ ScopesTellSends

USE DEF EventStates, ScopeSteps

-----------------------------------------------------------------------------
\* The initial journal satisfies the invariant: nothing is issued or sent yet.
LEMMA JournalInvInit == JournalInit => JournalInv
BY JournalAssumption DEF JournalInit, JournalInv, JournalTypeOK, AtMostOnce, JournalIsTruthful,
   ScopesHoldClaims, OneScopePerEvent, ScopesTellSends, Open, Held, IdleScope

\* issue() preserves the invariant: it only touches an absent row.
LEMMA IssueInv ==
    ASSUME JournalInv, NEW k \in Keys, IssueEvent(k)
    PROVE  JournalInv'
BY DEF IssueEvent, JournalInv, JournalTypeOK, AtMostOnce, JournalIsTruthful,
   ScopesHoldClaims, OneScopePerEvent, ScopesTellSends, Open, Held

\* The constructor's sweep turns old sends into "unknown", which a scope may
\* still hold, and old offers into "expired", which no scope holds.
LEMMA SweepInv ==
    ASSUME JournalInv, Sweep
    PROVE  JournalInv'
<1>1. \A k \in Keys :
         /\ Swept(k) \in [state: EventStates, age: Nat]
         /\ events[k].state = "sending" => Swept(k).state \in {"sending", "unknown"}
         /\ events[k].state = "pending" => Swept(k).state \in {"pending", "expired"}
         /\ events[k].state \notin {"sending", "pending"} => Swept(k) = events[k]
  BY DEF Swept, JournalInv, JournalTypeOK
<1>2. events' \in [Keys -> [state: EventStates, age: Nat]] /\ \A k \in Keys : events'[k] = Swept(k)
  BY <1>1 DEF Sweep
<1>3. JournalTypeOK' /\ AtMostOnce' /\ OneScopePerEvent' /\ ScopesTellSends'
  BY <1>2 DEF Sweep, JournalInv, JournalTypeOK, AtMostOnce, OneScopePerEvent,
     ScopesTellSends, Open, Held
<1>4. JournalIsTruthful'
  BY <1>1, <1>2 DEF Sweep, JournalInv, JournalTypeOK, JournalIsTruthful
<1>5. ScopesHoldClaims'
  BY <1>1, <1>2 DEF Sweep, JournalInv, JournalTypeOK, ScopesHoldClaims, Open, Held
<1> QED BY <1>3, <1>4, <1>5 DEF JournalInv

\* claim() gives a pending event, never sent and held by nobody, to one scope.
LEMMA ClaimInv ==
    ASSUME JournalInv, NEW s \in Senders, NEW k \in Keys, ClaimEvent(s, k)
    PROVE  JournalInv'
<1> USE DEF ClaimEvent, SetEvent, JournalInv, JournalTypeOK
<1>1. JournalTypeOK' /\ AtMostOnce'
  BY DEF AtMostOnce
<1>2. JournalIsTruthful'
  BY DEF JournalIsTruthful
<1>3. ScopesHoldClaims'
  BY DEF ScopesHoldClaims, Open, Held
<1>4. \A t \in Senders : Open(t) => Held(t) # k
  BY DEF ScopesHoldClaims, Open, Held
<1>5. OneScopePerEvent'
  BY <1>4 DEF OneScopePerEvent, Open, Held
<1>6. ScopesTellSends'
  BY DEF ScopesTellSends, JournalIsTruthful, Held
<1> QED BY <1>1, <1>2, <1>3, <1>5, <1>6

\* claim() of a late event closes an offer no scope has taken.
LEMMA ClaimTooLateInv ==
    ASSUME JournalInv, NEW s \in Senders, NEW k \in Keys, ClaimTooLate(s, k)
    PROVE  JournalInv'
BY DEF ClaimTooLate, SetEvent, JournalInv, JournalTypeOK, AtMostOnce, JournalIsTruthful,
   ScopesHoldClaims, OneScopePerEvent, ScopesTellSends, Open, Held

\* Accepting a request only moves its scope on.
LEMMA AcceptInv ==
    ASSUME JournalInv, NEW s \in Senders, Accept(s)
    PROVE  JournalInv'
BY DEF Accept, ScopeGoes, JournalInv, JournalTypeOK, AtMostOnce, JournalIsTruthful,
   ScopesHoldClaims, OneScopePerEvent, ScopesTellSends, Open, Held

\* Refusing leaves "cancelled" behind for an event that was not sent, and a
\* scope was its only holder.
LEMMA RefuseInv ==
    ASSUME JournalInv, NEW s \in Senders, Refuse(s)
    PROVE  JournalInv'
<1> USE DEF Refuse, SetEvent, LeaveScope, IdleScope, JournalInv, JournalTypeOK
<1>1. Held(s) \in Keys /\ sends[Held(s)] = 0
  BY DEF ScopesHoldClaims, ScopesTellSends, Open
<1>2. JournalTypeOK' /\ AtMostOnce' /\ JournalIsTruthful'
  BY <1>1 DEF AtMostOnce, JournalIsTruthful
<1>3. ScopesHoldClaims'
  BY DEF ScopesHoldClaims, OneScopePerEvent, Open, Held
<1>4. OneScopePerEvent' /\ ScopesTellSends'
  BY DEF OneScopePerEvent, ScopesTellSends, Open, Held
<1> QED BY <1>2, <1>3, <1>4

\* The only step that sends: the sole holder of the event knows it is unsent.
LEMMA SendInv ==
    ASSUME JournalInv, NEW s \in Senders, Send(s)
    PROVE  JournalInv'
<1> USE DEF JournalInv, JournalTypeOK
<1>1. Held(s) \in Keys /\ sends[Held(s)] = 0 /\ Open(s)
      /\ events[Held(s)].state \in {"sending", "unknown"}
  BY DEF Send, ScopesHoldClaims, ScopesTellSends, Open
<1>2. PICK outcome \in {"done", "failed"} :
         scopes' = [scopes EXCEPT ![s] = [step |-> outcome, key |-> Held(s)]]
  BY DEF Send, ScopeGoes
<1>3. \A t \in Senders : /\ scopes'[t].key = scopes[t].key
                         /\ t # s => scopes'[t] = scopes[t]
                         /\ scopes'[s].step = outcome
  BY <1>2 DEF Held
<1>4. /\ sends' = [sends EXCEPT ![Held(s)] = @ + 1]
      /\ UNCHANGED events
  BY DEF Send
<1>5. JournalTypeOK' /\ AtMostOnce' /\ JournalIsTruthful'
  BY <1>1, <1>2, <1>4 DEF AtMostOnce, JournalIsTruthful
<1>6. \A t \in Senders : Held(t)' = Held(t) /\ (Open(t)' => Open(t))
  BY <1>1, <1>3 DEF Open, Held
<1>7. ScopesHoldClaims'
  BY <1>4, <1>6 DEF ScopesHoldClaims
<1>8. OneScopePerEvent'
  BY <1>6 DEF OneScopePerEvent
<1>9. ASSUME NEW t \in Senders
      PROVE  /\ (scopes[t].step \in {"claimed", "open"} => sends[Held(t)] = 0)'
             /\ (scopes[t].step = "done" => sends[Held(t)] = 1)'
  <2>1. CASE t = s
    BY <1>1, <1>3, <1>4, <2>1 DEF Held
  <2>2. CASE t # s
    <3>1. Open(t) => Held(t) # Held(s) /\ Held(t) \in Keys
      BY <1>1, <2>2 DEF OneScopePerEvent, ScopesHoldClaims
    <3>2. Open(t) => sends'[Held(t)] = sends[Held(t)]
      BY <3>1, <1>4
    <3> QED BY <3>2, <1>3, <2>2 DEF ScopesTellSends, Open, Held
  <2> QED BY <2>1, <2>2
<1>10. ScopesTellSends'
  BY <1>9 DEF ScopesTellSends, Held
<1> QED BY <1>5, <1>7, <1>8, <1>10

\* A body that raises before sending only moves its scope on.
LEMMA SendNothingInv ==
    ASSUME JournalInv, NEW s \in Senders, SendNothing(s)
    PROVE  JournalInv'
BY DEF SendNothing, ScopeGoes, JournalInv, JournalTypeOK, AtMostOnce, JournalIsTruthful,
   ScopesHoldClaims, OneScopePerEvent, ScopesTellSends, Open, Held

\* finish() overwrites the row blindly, yet truthfully: "sent" only by the scope
\* that sent.
LEMMA CloseScopeInv ==
    ASSUME JournalInv, NEW s \in Senders, CloseScope(s)
    PROVE  JournalInv'
<1> USE DEF CloseScope, SetEvent, LeaveScope, IdleScope, JournalInv, JournalTypeOK
<1>1. Held(s) \in Keys /\ (scopes[s].step = "done" => sends[Held(s)] = 1)
  BY DEF ScopesHoldClaims, ScopesTellSends, Open
<1>2. JournalTypeOK' /\ AtMostOnce' /\ JournalIsTruthful'
  BY <1>1 DEF AtMostOnce, JournalIsTruthful
<1>3. ScopesHoldClaims'
  BY DEF ScopesHoldClaims, OneScopePerEvent, Open, Held
<1>4. OneScopePerEvent' /\ ScopesTellSends'
  BY DEF OneScopePerEvent, ScopesTellSends, Open, Held
<1> QED BY <1>2, <1>3, <1>4

\* A crash forgets the scope and leaves the row as it is.
LEMMA AbandonInv ==
    ASSUME JournalInv, NEW s \in Senders, AbandonScope(s)
    PROVE  JournalInv'
BY DEF AbandonScope, LeaveScope, IdleScope, JournalInv, JournalTypeOK, AtMostOnce,
   JournalIsTruthful, ScopesHoldClaims, OneScopePerEvent, ScopesTellSends, Open, Held

\* Ageing changes no state of a row.
LEMMA JournalElapseInv ==
    ASSUME JournalInv, JournalElapse
    PROVE  JournalInv'
<1>1. \A k \in Keys : /\ OlderEvent(k) \in [state: EventStates, age: Nat]
                       /\ OlderEvent(k).state = events[k].state
  BY DEF OlderEvent, JournalInv, JournalTypeOK
<1>2. /\ events' \in [Keys -> [state: EventStates, age: Nat]]
      /\ \A k \in Keys : events'[k].state = events[k].state
      /\ UNCHANGED <<scopes, sends>>
  BY <1>1 DEF JournalElapse
<1> QED
  BY <1>2 DEF JournalInv, JournalTypeOK, AtMostOnce, JournalIsTruthful,
     ScopesHoldClaims, OneScopePerEvent, ScopesTellSends, Open, Held

-----------------------------------------------------------------------------
\* The invariant is inductive.
LEMMA JournalInvStep == JournalInv /\ [JournalNext]_journalVars => JournalInv'
<1> SUFFICES ASSUME JournalInv, [JournalNext]_journalVars PROVE JournalInv'
  OBVIOUS
<1>1. CASE \E k \in Keys : IssueEvent(k)
  BY <1>1, IssueInv
<1>2. CASE Sweep
  BY <1>2, SweepInv
<1>3. CASE JournalElapse
  BY <1>3, JournalElapseInv
<1>4. ASSUME NEW s \in Senders, NEW k \in Keys, ClaimEvent(s, k) \/ ClaimTooLate(s, k)
      PROVE  JournalInv'
  BY <1>4, ClaimInv, ClaimTooLateInv
<1>5. ASSUME NEW s \in Senders,
             \/ Accept(s) \/ Refuse(s) \/ Send(s) \/ SendNothing(s)
             \/ CloseScope(s) \/ AbandonScope(s)
      PROVE  JournalInv'
  BY <1>5, AcceptInv, RefuseInv, SendInv, SendNothingInv, CloseScopeInv, AbandonInv
<1>6. CASE UNCHANGED journalVars
  BY <1>6 DEF journalVars, JournalInv, JournalTypeOK, AtMostOnce, JournalIsTruthful,
     ScopesHoldClaims, OneScopePerEvent, ScopesTellSends, Open, Held
<1> QED BY <1>1, <1>2, <1>3, <1>4, <1>5, <1>6 DEF JournalNext

\* The invariant holds in every reachable state of the journal.
THEOREM JournalInvariance == JournalSpec => []JournalInv
BY JournalInvInit, JournalInvStep, PTL DEF JournalSpec

\* Every row, scope and count of the journal stays well-formed (the table
\* "events" and delivery_scope).
THEOREM JournalTypeCorrect == JournalSpec => []JournalTypeOK
<1>1. JournalInv => JournalTypeOK
  BY DEF JournalInv
<1> QED BY <1>1, JournalInvariance, PTL

\* Whatever the number of processes and events, crashes, sweeps of live scopes
\* and late finishes, no recipient gets a notification twice.
THEOREM NotificationsAtMostOnce == JournalSpec => []AtMostOnce
<1>1. JournalInv => AtMostOnce
  BY DEF JournalInv
<1> QED BY <1>1, JournalInvariance, PTL

\* "sent" means sent once; "cancelled", "expired" and "pending" mean not sent,
\* although finish() overwrites a row without looking at it.
THEOREM JournalTellsTheTruth == JournalSpec => []JournalIsTruthful
<1>1. JournalInv => JournalIsTruthful
  BY DEF JournalInv
<1> QED BY <1>1, JournalInvariance, PTL

-----------------------------------------------------------------------------
\* No transaction makes a row pending again that has left that state.
LEMMA ClaimIsForEverStep ==
    ASSUME JournalInv, [JournalNext]_journalVars, NEW k \in Keys,
           events[k].state \notin {"absent", "pending"}
    PROVE  events'[k].state \notin {"absent", "pending"}
<1> USE DEF JournalInv, JournalTypeOK, SetEvent
<1>1. CASE \E n \in Keys : IssueEvent(n)
  BY <1>1 DEF IssueEvent
<1>2. CASE Sweep
  <2>1. Swept(k).state \notin {"absent", "pending"}
    BY DEF Swept
  <2> QED BY <1>2, <2>1 DEF Sweep
<1>3. CASE JournalElapse
  <2>1. OlderEvent(k).state = events[k].state
    BY DEF OlderEvent
  <2> QED BY <1>3, <2>1 DEF JournalElapse
<1>4. ASSUME NEW s \in Senders, NEW n \in Keys, ClaimEvent(s, n) \/ ClaimTooLate(s, n)
      PROVE  events'[k].state \notin {"absent", "pending"}
  BY <1>4 DEF ClaimEvent, ClaimTooLate
<1>5. ASSUME NEW s \in Senders,
             \/ Accept(s) \/ Refuse(s) \/ Send(s) \/ SendNothing(s)
             \/ CloseScope(s) \/ AbandonScope(s)
      PROVE  events'[k].state \notin {"absent", "pending"}
  BY <1>5 DEF Accept, Refuse, Send, SendNothing, CloseScope, AbandonScope
<1>6. CASE UNCHANGED journalVars
  BY <1>6 DEF journalVars
<1> QED BY <1>1, <1>2, <1>3, <1>4, <1>5, <1>6 DEF JournalNext

\* An event whose send is in doubt, or settled, is never on offer again: the
\* code retries no notification (docs/TELEGRAM_STABILITY_PHASES.md:9).
THEOREM DoubtIsNotRetried == JournalSpec => ClaimIsForEver
<1>1. JournalInv /\ [JournalNext]_journalVars =>
        [\A k \in Keys : events[k].state \notin {"absent", "pending"}
              => events'[k].state \notin {"absent", "pending"}]_events
  BY ClaimIsForEverStep
<1> QED BY <1>1, JournalInvariance, PTL DEF JournalSpec, ClaimIsForEver

-----------------------------------------------------------------------------
(***************************************************************************)
(* Refinement.                                                             *)
(***************************************************************************)

\* A step that sends nothing and lets some offers lapse is a step of OnceOnly.
LEMMA GiveUpStep ==
    ASSUME UNCHANGED sends,
           \A k \in Keys : \/ Phase(k)' = Phase(k)
                           \/ Phase(k) = "offered" /\ Phase(k)' = "closed"
    PROVE  Promise!Next
<1> DEFINE K == {k \in Keys : Phase(k) = "offered" /\ Phase(k)' = "closed"}
<1>1. Promise!GiveUp(K)
  BY DEF Promise!GiveUp
<1> QED BY <1>1 DEF Promise!Next

\* Leaving a scope, or moving it past the send, can only close the phase of
\* the event it holds.
LEMMA ScopeMovesOn ==
    ASSUME JournalInv, NEW s \in Senders, Open(s), NEW h, h = Held(s),
           UNCHANGED sends,
           \A k \in Keys : k # h => events'[k] = events[k],
           events'[h].state \notin {"absent", "pending"},
           \A t \in Senders : t # s => scopes'[t] = scopes[t],
           scopes'[s].step \notin {"claimed", "open"}
    PROVE  Promise!Next
<1>1. h \in Keys /\ events[h].state \in {"sending", "unknown"}
  BY DEF JournalInv, ScopesHoldClaims
<1>2. ASSUME NEW k \in Keys, k # h PROVE Phase(k)' = Phase(k)
  <2>1. \A t \in Senders : MaySend(t, k)' <=> MaySend(t, k)
    BY <1>2 DEF MaySend, Held
  <2> QED BY <1>2, <2>1 DEF Phase, Offered
<1>3. ASSUME NEW t \in Senders PROVE ~MaySend(t, h)'
  BY DEF MaySend, JournalInv, OneScopePerEvent, Open, Held
<1>4. Phase(h)' = "closed" /\ Phase(h) \in {"offered", "closed"}
  BY <1>1, <1>3 DEF Phase, Offered
<1> QED BY <1>2, <1>4, GiveUpStep

\* Ageing does not change a row's phase, and neither does the sweep of a send that
\* took too long; the sweep of a pending event closes it.
LEMMA RowsKeepPhase ==
    ASSUME UNCHANGED <<scopes, sends>>,
           \A k \in Keys : \/ events'[k].state = events[k].state
                           \/ /\ events[k].state = "sending"
                              /\ events'[k].state = "unknown"
                           \/ /\ events[k].state = "pending"
                              /\ events'[k].state = "expired"
                              /\ \A s \in Senders : ~MaySend(s, k)
    PROVE  Promise!Next
<1>1. ASSUME NEW k \in Keys
      PROVE  \/ Phase(k)' = Phase(k)
             \/ Phase(k) = "offered" /\ Phase(k)' = "closed"
  <2>1. \A s \in Senders : MaySend(s, k)' <=> MaySend(s, k)
    BY DEF MaySend
  <2> QED BY <2>1 DEF Phase, Offered
<1> QED BY <1>1, GiveUpStep

\* A pending event is in no scope.
LEMMA PendingIsFree ==
    ASSUME JournalInv, NEW k \in Keys, events[k].state \in {"absent", "pending"},
           NEW s \in Senders
    PROVE  ~MaySend(s, k)
BY DEF JournalInv, ScopesHoldClaims, MaySend, Open, Held

\* Every step of the journal is a step of OnceOnly, or changes nothing in it.
LEMMA JournalStepRefines ==
    ASSUME JournalInv, JournalInv', [JournalNext]_journalVars
    PROVE  [Promise!Next]_<<[k \in Keys |-> Phase(k)], sends>>
<1> USE DEF JournalInv, JournalTypeOK
<1>1. ASSUME NEW k \in Keys, IssueEvent(k) PROVE Promise!Next
  <2>1. CASE events[k].state = "absent"
    <3>1. /\ events'[k].state = "pending" /\ UNCHANGED <<scopes, sends>>
          /\ \A n \in Keys : n # k => events'[n] = events[n]
      BY <1>1, <2>1 DEF IssueEvent
    <3>2. \A n \in Keys, t \in Senders : MaySend(t, n)' <=> MaySend(t, n)
      BY <3>1 DEF MaySend
    <3>3. Phase(k) = "none" /\ Phase(k)' = "offered"
      BY <2>1, <3>1 DEF Phase, Offered
    <3>4. \A n \in Keys : n # k => Phase(n)' = Phase(n)
      BY <3>1, <3>2 DEF Phase, Offered
    <3>5. Promise!Offer(k)
      BY <3>1, <3>3, <3>4 DEF Promise!Offer
    <3> QED BY <3>5 DEF Promise!Next
  <2>2. CASE events[k].state # "absent"
    BY <1>1, <2>2, RowsKeepPhase DEF IssueEvent
  <2> QED BY <2>1, <2>2
<1>2. CASE Sweep
  <2>1. \A k \in Keys :
           \/ Swept(k).state = events[k].state
           \/ events[k].state = "sending" /\ Swept(k).state = "unknown"
           \/ events[k].state = "pending" /\ Swept(k).state = "expired"
    BY DEF Swept
  <2> QED BY <1>2, <2>1, PendingIsFree, RowsKeepPhase DEF Sweep
<1>3. CASE JournalElapse
  <2>1. \A k \in Keys : OlderEvent(k).state = events[k].state
    BY DEF OlderEvent
  <2> QED BY <1>3, <2>1, RowsKeepPhase DEF JournalElapse
<1>4. ASSUME NEW s \in Senders, NEW k \in Keys, ClaimEvent(s, k) PROVE Promise!Next
  <2>1. /\ events[k].state = "pending" /\ events'[k].state = "sending"
        /\ \A n \in Keys : n # k => events'[n] = events[n]
        /\ scopes[s].step = "idle"
        /\ scopes'[s] = [step |-> "claimed", key |-> k]
        /\ \A t \in Senders : t # s => scopes'[t] = scopes[t]
        /\ UNCHANGED sends
    BY <1>4 DEF ClaimEvent, SetEvent
  <2>2. Phase(k) = "offered" /\ Phase(k)' = "offered"
    BY <2>1 DEF Phase, Offered, MaySend
  <2>3. ASSUME NEW n \in Keys, n # k PROVE Phase(n)' = Phase(n)
    <3>1. \A t \in Senders : MaySend(t, n)' <=> MaySend(t, n)
      BY <2>1, <2>3 DEF MaySend
    <3> QED BY <2>1, <2>3, <3>1 DEF Phase, Offered
  <2> QED BY <2>1, <2>2, <2>3, GiveUpStep
<1>5. ASSUME NEW s \in Senders, NEW k \in Keys, ClaimTooLate(s, k) PROVE Promise!Next
  <2>1. /\ events[k].state = "pending" /\ events'[k].state = "expired"
        /\ \A n \in Keys : n # k => events'[n] = events[n]
        /\ UNCHANGED <<scopes, sends>>
    BY <1>5 DEF ClaimTooLate, SetEvent
  <2> QED BY <2>1, PendingIsFree, RowsKeepPhase
<1>6. ASSUME NEW s \in Senders, Accept(s) PROVE Promise!Next
  <2>1. \A n \in Keys, t \in Senders : MaySend(t, n)' <=> MaySend(t, n)
    BY <1>6 DEF Accept, ScopeGoes, MaySend, Held
  <2>2. \A n \in Keys : Phase(n)' = Phase(n)
    BY <1>6, <2>1 DEF Accept, Phase, Offered
  <2> QED BY <1>6, <2>2, GiveUpStep DEF Accept
<1>7. ASSUME NEW s \in Senders, Send(s) PROVE Promise!Next
  <2> DEFINE h == scopes[s].key
  <2>1. h \in Keys /\ events[h].state \in {"sending", "unknown"} /\ MaySend(s, h)
    BY <1>7 DEF Send, ScopesHoldClaims, Open, Held, MaySend
  <2>2. /\ UNCHANGED events /\ sends' = [sends EXCEPT ![h] = @ + 1]
        /\ \A t \in Senders : t # s => scopes'[t] = scopes[t]
        /\ scopes'[s].step \in {"done", "failed"}
    BY <1>7 DEF Send, ScopeGoes, Held
  <2>3. ASSUME NEW n \in Keys, n # h PROVE Phase(n)' = Phase(n)
    <3>1. scopes'[s].key = h
      BY <1>7 DEF Send, ScopeGoes, Held
    <3>2. \A t \in Senders : MaySend(t, n)' <=> MaySend(t, n)
      BY <2>2, <2>3, <3>1 DEF MaySend
    <3> QED BY <2>2, <3>2 DEF Phase, Offered
  <2>4. Phase(h) = "offered"
    BY <2>1 DEF Phase, Offered
  <2>5. \A t \in Senders : MaySend(t, h) => t = s
    BY <2>1 DEF OneScopePerEvent, MaySend, Open, Held
  <2>6. \A t \in Senders :
           ~(scopes'[t].key = h /\ scopes'[t].step \in {"claimed", "open"})
    BY <2>2, <2>5 DEF MaySend
  <2>7. [k \in Keys |-> Phase(k)]' = [[k \in Keys |-> Phase(k)] EXCEPT ![h] = "closed"]
    <3>1. ASSUME NEW k \in Keys, k = h PROVE Phase(k)' = "closed"
      BY <2>1, <2>2, <2>6, <3>1 DEF Phase, Offered, MaySend
    <3> QED BY <2>3, <3>1
  <2>8. Promise!Deliver(h)
    BY <2>1, <2>2, <2>4, <2>7 DEF Promise!Deliver
  <2> QED BY <2>1, <2>8 DEF Promise!Next
<1>8. ASSUME NEW s \in Senders,
             Refuse(s) \/ SendNothing(s) \/ CloseScope(s) \/ AbandonScope(s)
      PROVE  Promise!Next
  <2> DEFINE h == scopes[s].key
  <2>1. Open(s) /\ h \in Keys /\ events[h].state \in {"sending", "unknown"}
    BY <1>8 DEF Refuse, SendNothing, CloseScope, AbandonScope, ScopesHoldClaims, Open, Held
  <2>2. /\ UNCHANGED sends
        /\ \A k \in Keys : k # h => events'[k] = events[k]
        /\ events'[h].state \notin {"absent", "pending"}
    BY <1>8, <2>1 DEF Refuse, SendNothing, CloseScope, AbandonScope, SetEvent, Held
  <2>3. /\ \A t \in Senders : t # s => scopes'[t] = scopes[t]
        /\ scopes'[s].step \notin {"claimed", "open"}
    BY <1>8 DEF Refuse, SendNothing, CloseScope, AbandonScope, LeaveScope, ScopeGoes,
       IdleScope, Held
  <2> QED BY <2>1, <2>2, <2>3, ScopeMovesOn DEF Held
<1>9. CASE UNCHANGED journalVars
  BY <1>9 DEF journalVars, Phase, Offered, MaySend
<1> QED BY <1>1, <1>2, <1>3, <1>4, <1>5, <1>6, <1>7, <1>8, <1>9 DEF JournalNext

\* The journal keeps the promise of OnceOnly: each notification is offered once
\* and ends in one send or in none.
THEOREM JournalImplementsOnceOnly == JournalSpec => ImplementsOnceOnly
<1>1. JournalInit => Promise!Init
  BY DEF JournalInit, Promise!Init, Phase
<1>2. JournalInv /\ JournalInv' /\ [JournalNext]_journalVars
        => [Promise!Next]_<<[k \in Keys |-> Phase(k)], sends>>
  BY JournalStepRefines
<1> QED BY <1>1, <1>2, JournalInvariance, PTL
        DEF JournalSpec, ImplementsOnceOnly, Promise!Spec
=============================================================================
