-------------------------- MODULE NotificationStore --------------------------
(***************************************************************************)
(* The journal of outgoing notifications in telegram_bot/search_delivery.py:*)
(* the SQLite table "events" of class NotificationStore, and the scopes    *)
(* (context manager delivery_scope) in which processes serve its rows.     *)
(* Each operator is one transaction, or one call of the messenger.         *)
(*                                                                         *)
(* "expires" and "updated" are compared with the clock only while a row is *)
(* pending, respectively sending; the model keeps the row's age instead.   *)
(***************************************************************************)
EXTENDS Naturals

CONSTANTS
    Keys,         \* event_key of every notification
    Senders,      \* processes that serve events
    NoKeyHeld,    \* a scope that is not open holds no event
    Ttl,          \* 3600 s for a search result, 300 s for a daily notice
    SendLease     \* 300 s: an older send is taken for lost

ASSUME JournalAssumption ==
    /\ Ttl \in [Keys -> Nat]
    /\ SendLease \in Nat
    /\ NoKeyHeld \notin Keys

VARIABLES
    events,       \* the table, by key
    scopes,       \* delivery_scope of each process
    sends         \* history: deliveries that reached the recipient

journalVars == <<events, scopes, sends>>

EventStates == {"absent", "pending", "sending", "sent", "unknown", "cancelled",
                "expired"}

\* claimed: not validated yet; open: about to send; done, failed: the body of
\* the scope has ended, finish() is still to come.
ScopeSteps == {"idle", "claimed", "open", "done", "failed"}

JournalTypeOK ==
    /\ events \in [Keys -> [state: EventStates, age: Nat]]
    /\ scopes \in [Senders -> [step: ScopeSteps, key: Keys \cup {NoKeyHeld}]]
    /\ sends \in [Keys -> Nat]

IdleScope == [step |-> "idle", key |-> NoKeyHeld]

JournalInit ==
    /\ events = [k \in Keys |-> [state |-> "absent", age |-> 0]]
    /\ scopes = [s \in Senders |-> IdleScope]
    /\ sends = [k \in Keys |-> 0]

SetEvent(k, state) ==
    events' = [events EXCEPT ![k] = [state |-> state, age |-> 0]]

Held(s) == scopes[s].key

ScopeGoes(s, step) ==
    scopes' = [scopes EXCEPT ![s] = [step |-> step, key |-> Held(s)]]

LeaveScope(s) == scopes' = [scopes EXCEPT ![s] = IdleScope]

Late(k) == events[k].age > Ttl[k]

-----------------------------------------------------------------------------
\* issue(): INSERT OR IGNORE.
IssueEvent(k) ==
    /\ events' = IF events[k].state = "absent"
                 THEN [events EXCEPT ![k] = [state |-> "pending", age |-> 0]]
                 ELSE events
    /\ UNCHANGED <<scopes, sends>>

\* Mutant: an interrupted send is put on offer again.
SweptToPending(k) ==
    IF events[k].state = "sending" /\ events[k].age > SendLease
    THEN [state |-> "pending", age |-> 0]
    ELSE events[k]

\* Mutant: interrupted sends are forgotten.
SweptPendingOnly(k) ==
    IF events[k].state = "pending" /\ Late(k)
    THEN [state |-> "expired", age |-> 0]
    ELSE events[k]

\* A row after the two UPDATEs every NotificationStore() begins with.
Swept(k) ==
    CASE events[k].state = "sending" /\ events[k].age > SendLease
             -> [state |-> "unknown", age |-> 0]
      [] events[k].state = "pending" /\ Late(k)
             -> [state |-> "expired", age |-> 0]
      [] OTHER -> events[k]

Sweep ==
    /\ events' = [k \in Keys |-> Swept(k)]
    /\ UNCHANGED <<scopes, sends>>

\* Mutant: an event in doubt may be claimed again.
ClaimDoubtful(s, k) ==
    /\ scopes[s].step = "idle"
    /\ events[k].state \in {"pending", "unknown"} /\ ~Late(k)
    /\ SetEvent(k, "sending")
    /\ scopes' = [scopes EXCEPT ![s] = [step |-> "claimed", key |-> k]]
    /\ UNCHANGED sends

\* claim(): a pending event becomes this scope's, in one transaction.
ClaimEvent(s, k) ==
    /\ scopes[s].step = "idle"
    /\ events[k].state = "pending" /\ ~Late(k)
    /\ SetEvent(k, "sending")
    /\ scopes' = [scopes EXCEPT ![s] = [step |-> "claimed", key |-> k]]
    /\ UNCHANGED sends

\* claim() of an event past its time.
ClaimTooLate(s, k) ==
    /\ scopes[s].step = "idle"
    /\ events[k].state = "pending" /\ Late(k)
    /\ SetEvent(k, "expired")
    /\ UNCHANGED <<scopes, sends>>

\* valid_event(): the request still stands.
Accept(s) ==
    /\ scopes[s].step = "claimed"
    /\ ScopeGoes(s, "open")
    /\ UNCHANGED <<events, sends>>

\* valid_event() says no: finish(key, 'cancelled').
Refuse(s) ==
    /\ scopes[s].step = "claimed"
    /\ SetEvent(Held(s), "cancelled")
    /\ LeaveScope(s)
    /\ UNCHANGED sends

\* The body of the scope: the recipient gets the message, and yet the body may
\* raise (a lost answer of the messenger, a later card, mark_seen).
Send(s) ==
    /\ scopes[s].step = "open"
    /\ sends' = [sends EXCEPT ![Held(s)] = @ + 1]
    /\ \E outcome \in {"done", "failed"} : ScopeGoes(s, outcome)
    /\ UNCHANGED events

\* The body raises before anything is sent.
SendNothing(s) ==
    /\ scopes[s].step = "open"
    /\ ScopeGoes(s, "failed")
    /\ UNCHANGED <<events, sends>>

\* Mutant: an exception is taken for a proof that nothing was sent.
CloseAsCancelled(s) ==
    /\ scopes[s].step \in {"done", "failed"}
    /\ SetEvent(Held(s), IF scopes[s].step = "done" THEN "sent" ELSE "cancelled")
    /\ LeaveScope(s)
    /\ UNCHANGED sends

\* Mutant: the journal records the outcome in words it does not know.
CloseAsFailed(s) ==
    /\ scopes[s].step \in {"done", "failed"}
    /\ SetEvent(Held(s), scopes[s].step)
    /\ LeaveScope(s)
    /\ UNCHANGED sends

\* finish(key, 'sent') or finish(key, 'unknown'), whatever the row says by now.
CloseScope(s) ==
    /\ scopes[s].step \in {"done", "failed"}
    /\ SetEvent(Held(s), IF scopes[s].step = "done" THEN "sent" ELSE "unknown")
    /\ LeaveScope(s)
    /\ UNCHANGED sends

\* The process dies, or an exception other than the body's leaves the scope.
AbandonScope(s) ==
    /\ scopes[s].step # "idle"
    /\ LeaveScope(s)
    /\ UNCHANGED <<events, sends>>

OlderEvent(k) ==
    IF \/ events[k].state = "pending" /\ ~Late(k)
       \/ events[k].state = "sending" /\ events[k].age <= SendLease
    THEN [state |-> events[k].state, age |-> events[k].age + 1]
    ELSE events[k]

JournalElapse ==
    /\ events' = [k \in Keys |-> OlderEvent(k)]
    /\ UNCHANGED <<scopes, sends>>

JournalNext ==
    \/ \E k \in Keys : IssueEvent(k)
    \/ Sweep
    \/ JournalElapse
    \/ \E s \in Senders :
          \/ \E k \in Keys : ClaimEvent(s, k) \/ ClaimTooLate(s, k)
          \/ Accept(s) \/ Refuse(s) \/ Send(s) \/ SendNothing(s)
          \/ CloseScope(s) \/ AbandonScope(s)

JournalSpec == JournalInit /\ [][JournalNext]_journalVars

\* Constructors run again and again, time passes, a scope once entered is left.
JournalFairness ==
    /\ WF_journalVars(Sweep)
    /\ WF_journalVars(JournalElapse)

FairJournal == JournalSpec /\ JournalFairness

-----------------------------------------------------------------------------
\* The scope of s may still send event k.
MaySend(s, k) == scopes[s].key = k /\ scopes[s].step \in {"claimed", "open"}

\* No recipient gets a notification twice, however scopes interleave with
\* sweeps, crashes and late finishes (docs/TELEGRAM_STABILITY_PHASES.md:8-9).
AtMostOnce == \A k \in Keys : sends[k] <= 1

\* The journal never lies: a final state other than "unknown" says whether the
\* recipient got the notification, and a pending or expired one was never sent.
JournalIsTruthful ==
    \A k \in Keys :
        /\ events[k].state = "sent" => sends[k] = 1
        /\ events[k].state \in {"absent", "pending", "expired", "cancelled"}
             => sends[k] = 0

\* Once claimed, an event is never on offer again: doubt is not retried.
ClaimIsForEver ==
    [][\A k \in Keys :
          events[k].state \notin {"absent", "pending"}
              => events'[k].state \notin {"absent", "pending"}]_events

\* No event stays pending or sending for ever.
EventsSettle ==
    \A k \in Keys :
        events[k].state \in {"pending", "sending"}
            ~> events[k].state \in {"sent", "unknown", "cancelled", "expired"}

-----------------------------------------------------------------------------
(***************************************************************************)
(* Refinement: an event is on offer while it is pending or a scope may     *)
(* still send it.                                                          *)
(***************************************************************************)
Offered(k) == events[k].state = "pending" \/ \E s \in Senders : MaySend(s, k)

Phase(k) ==
    IF events[k].state = "absent" THEN "none"
    ELSE IF Offered(k) THEN "offered" ELSE "closed"

Promise == INSTANCE OnceOnly WITH phase <- [k \in Keys |-> Phase(k)]

ImplementsOnceOnly == Promise!Spec
=============================================================================
