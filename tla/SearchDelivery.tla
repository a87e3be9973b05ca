--------------------------- MODULE SearchDelivery ---------------------------
(***************************************************************************)
(* The whole of a customer's search: the workflow of the bot and the       *)
(* extraction worker (SearchWorkflow), the journal of notifications        *)
(* (NotificationStore), and the third process of the bot layer,            *)
(*                                                                         *)
(*   ops     telegram_bot.operations: notification_tick, one step per      *)
(*           transaction; in the Tehran hour from 10 to 11 it queues the   *)
(*           daily searches and issues the daily notices, and at any time  *)
(*           it serves the pending notices.                                *)
(*                                                                         *)
(* The bot subscribes the customer and issues one search_result event per  *)
(* confirmed job; the worker serves it when run_job ends.                  *)
(***************************************************************************)
EXTENDS SearchWorkflow, NotificationStore

CONSTANTS
    Worker, Operations,   \* the processes that open delivery scopes
    DailyKey,             \* request_key='daily:<date>'
    Nothing,              \* no subscription, no grant, no answer
    DailyDays             \* days on which operations runs in the hour of notices

SearchEvent(i) == <<"search", i>>
DailyEvent(l, d) == <<"daily", l, d>>

SearchEvents == {SearchEvent(i) : i \in 1..MaxJobs}
DailyEvents == {DailyEvent(l, d) : l \in Leads, d \in 1..MaxDay}

Grant == [lead: Leads, fp: Criteria]

ASSUME DeliveryAssumption ==
    /\ Keys = SearchEvents \cup DailyEvents
    /\ Worker # Operations /\ Senders = {Worker, Operations}
    /\ DailyKey \in RequestKeys \ {NoKey}
    /\ \A m \in Confirmations : m.key # DailyKey
    /\ Nothing \notin [fp: Criteria, enabled: BOOLEAN] \cup Grant \cup JobStates
    /\ DailyDays \subseteq 1..MaxDay

VARIABLES
    subs,      \* the table "subscriptions": one row per recipient
    grants,    \* lead and fingerprint columns of the issued events
    ops,       \* the tick under way
    todo,      \* events the worker has listed and not served yet
    told       \* history: queue.status() as last told in a search result

deliveryVars == <<workflowVars, journalVars, subs, grants, ops, todo, told>>

IdleOps == [step |-> "idle", left |-> {}, sub |-> Nothing, list |-> {}]

DeliveryTypeOK ==
    /\ WorkflowTypeOK /\ JournalTypeOK
    /\ subs \in [Leads -> [fp: Criteria, enabled: BOOLEAN] \cup {Nothing}]
    /\ grants \in [Keys -> Grant \cup {Nothing}]
    /\ ops \in [step: {"idle", "prepare", "match", "serve"}, left: SUBSET Grant,
                sub: Grant \cup {Nothing}, list: SUBSET DailyEvents]
    /\ todo \subseteq SearchEvents
    /\ told \in [Keys -> JobStates \cup {Nothing}]

DeliveryInit ==
    /\ WorkflowInit /\ JournalInit
    /\ subs = [l \in Leads |-> Nothing]
    /\ grants = [k \in Keys |-> Nothing]
    /\ ops = IdleOps /\ todo = {}
    /\ told = [k \in Keys |-> Nothing]

\* The parts of the state an action leaves alone.
JournalUntouched == UNCHANGED <<journalVars, grants, told>>

\* INSERT OR IGNORE with the recipient's lead and the fingerprint fp.
Grants(k, l, fp) ==
    /\ IssueEvent(k)
    /\ grants' = IF events[k].state = "absent"
                 THEN [grants EXCEPT ![k] = [lead |-> l, fp |-> fp]]
                 ELSE grants

Subscribed(l) == subs[l] # Nothing /\ subs[l].enabled

\* valid_event() on lead and client rows of criteria crit and stage closed.
StandsFor(k, crit, closed) ==
    /\ crit = grants[k].fp /\ ~closed
    /\ CaseEnabled(crm[grants[k].lead])
    /\ k \in DailyEvents =>
          Subscribed(grants[k].lead) /\ subs[grants[k].lead].fp = grants[k].fp

\* valid_event() on the rows as the database has them now.
StandsNow(k) ==
    LET row == crm[grants[k].lead] IN StandsFor(k, row.crit, row.closed)

-----------------------------------------------------------------------------
(***************************************************************************)
(* The bot: the last two steps of a confirmation, and "daily off".         *)
(***************************************************************************)
SubscribeCustomer ==
    /\ BotSubscribe
    /\ Sweep
    /\ subs' = [subs EXCEPT ![bot.req.lead] =
                  [fp |-> crm[bot.req.lead].crit, enabled |-> TRUE]]
    /\ UNCHANGED <<grants, ops, todo, told>>

IssueSearchEvent ==
    /\ BotIssue
    /\ IF bot.job = 0
       THEN UNCHANGED <<journalVars, grants>>
       ELSE Grants(SearchEvent(bot.job), bot.req.lead, subs[bot.req.lead].fp)
    /\ UNCHANGED <<subs, ops, todo, told>>

DailyOff(l) ==
    /\ bot.step = "idle"
    /\ subs[l] # Nothing
    /\ subs' = [subs EXCEPT ![l].enabled = FALSE]
    /\ Sweep
    /\ UNCHANGED <<workflowVars, grants, ops, todo, told>>

\* Any other handler that opens the journal (the matching panel, telemetry).
OpenJournal ==
    /\ Sweep
    /\ UNCHANGED <<workflowVars, subs, grants, ops, todo, told>>

-----------------------------------------------------------------------------
(***************************************************************************)
(* The worker: deliver_search_result.                                      *)
(***************************************************************************)
\* Mutant: the pending events of every kind and job.
ListAllEvents ==
    /\ WorkerList
    /\ Sweep
    /\ todo' = {k \in Keys : Swept(k).state = "pending"}
    /\ UNCHANGED <<subs, grants, ops, told>>

ListSearchEvents ==
    /\ WorkerList
    /\ Sweep
    /\ todo' = {k \in {SearchEvent(worker.job)} : Swept(k).state = "pending"}
    /\ UNCHANGED <<subs, grants, ops, told>>

Serving == worker.step = "delivering"

\* claim() of the next listed event; one that is no longer pending is skipped.
ClaimSearchEvent ==
    /\ Serving /\ scopes[Worker].step = "idle"
    /\ \E k \in todo :
          /\ \/ ClaimEvent(Worker, k) \/ ClaimTooLate(Worker, k)
             \/ events[k].state # "pending" /\ UNCHANGED journalVars
          /\ todo' = todo \ {k}
    /\ UNCHANGED <<workflowVars, subs, grants, ops, told>>

\* own_lead() finds the rows run_job holds in the session, as run_job last
\* loaded them; only the rollback after a failure makes them be read again.
SearchEventStands(k) ==
    IF worker.crit = NoCriteria THEN StandsNow(k)
    ELSE StandsFor(k, worker.crit, worker.closed)

JudgeSearchEvent ==
    /\ Serving /\ scopes[Worker].step = "claimed"
    /\ IF SearchEventStands(Held(Worker)) THEN Accept(Worker) ELSE Refuse(Worker)
    /\ UNCHANGED <<workflowVars, subs, grants, ops, todo, told>>

\* The text of the answer is chosen by queue.status() of the job.
SendSearchResult ==
    /\ Serving
    /\ Send(Worker)
    /\ told' = [told EXCEPT ![Held(Worker)] = HeldJob.state]
    /\ UNCHANGED <<workflowVars, subs, grants, ops, todo>>

FailSearchResult ==
    /\ Serving
    /\ SendNothing(Worker)
    /\ UNCHANGED <<workflowVars, subs, grants, ops, todo, told>>

\* Mutant: after an exception the event is put on offer again.
CloseForRetry ==
    /\ Serving /\ scopes[Worker].step \in {"done", "failed"}
    /\ SetEvent(Held(Worker), IF scopes[Worker].step = "done" THEN "sent" ELSE "pending")
    /\ LeaveScope(Worker)
    /\ todo' = IF scopes[Worker].step = "failed" THEN {} ELSE todo
    /\ UNCHANGED <<workflowVars, sends, subs, grants, ops, told>>

\* An exception in the scope ends deliver_search_result: the rest is not served.
CloseSearchResult ==
    /\ Serving
    /\ CloseScope(Worker)
    /\ todo' = IF scopes[Worker].step = "failed" THEN {} ELSE todo
    /\ UNCHANGED <<workflowVars, subs, grants, ops, told>>

FinishDelivery ==
    /\ WorkerDelivered
    /\ todo = {} /\ scopes[Worker].step = "idle"
    /\ UNCHANGED <<journalVars, subs, grants, ops, todo, told>>

WorkerDies ==
    /\ WorkerCrash
    /\ todo' = {}
    /\ IF scopes[Worker].step = "idle"
       THEN UNCHANGED journalVars ELSE AbandonScope(Worker)
    /\ UNCHANGED <<subs, grants, ops, told>>

-----------------------------------------------------------------------------
(***************************************************************************)
(* Operations: notification_tick.                                          *)
(***************************************************************************)
\* subscriptions(): the rows prepare_daily works on, whatever becomes of them.
EnabledSubscriptions ==
    {[lead |-> l, fp |-> subs[l].fp] : l \in {x \in Leads : Subscribed(x)}}

DailyStands(sub) == SearchEnabled(sub.lead) /\ crm[sub.lead].crit = sub.fp

\* NotificationStore(), and the enabled subscriptions when the hour is come.
BeginTick ==
    /\ ops.step = "idle"
    /\ Sweep
    /\ \E left \in {{}} \cup {EnabledSubscriptions : d \in DailyDays \cap {day}} :
          ops' = [IdleOps EXCEPT !.step = "prepare", !.left = left]
    /\ UNCHANGED <<workflowVars, subs, grants, todo, told>>

\* prepare_daily for one subscription: pass over it, or queue today's search.
SkipDaily ==
    /\ ops.step = "prepare"
    /\ \E sub \in ops.left :
          /\ ~DailyStands(sub)
          /\ ops' = [ops EXCEPT !.left = @ \ {sub}]
    /\ UNCHANGED <<workflowVars, subs, todo>> /\ JournalUntouched

\* Mutant: the daily search is queued without its request key.
QueueDailyUnkeyed ==
    /\ ops.step = "prepare"
    /\ \E sub \in ops.left :
          /\ DailyStands(sub)
          /\ Enqueue([lead |-> sub.lead, crit |-> sub.fp, key |-> NoKey])
          /\ ops' = [ops EXCEPT !.step = "match", !.sub = sub, !.left = @ \ {sub}]
    /\ UNCHANGED <<day, crm, bot, worker, handled, faults, crawled, subs, todo>>
    /\ JournalUntouched

QueueDaily ==
    /\ ops.step = "prepare"
    /\ \E sub \in ops.left :
          /\ DailyStands(sub)
          /\ Enqueue([lead |-> sub.lead, crit |-> sub.fp, key |-> DailyKey])
          /\ ops' = [ops EXCEPT !.step = "match", !.sub = sub, !.left = @ \ {sub}]
    /\ UNCHANGED <<day, crm, bot, worker, handled, faults, crawled, subs, todo>>
    /\ JournalUntouched

\* Recommendations the customer has not seen: today's notice is issued.
IssueDaily ==
    /\ ops.step = "match"
    /\ \/ Grants(DailyEvent(ops.sub.lead, day), ops.sub.lead, ops.sub.fp)
       \/ UNCHANGED <<journalVars, grants>>
    /\ ops' = [ops EXCEPT !.step = "prepare", !.sub = Nothing]
    /\ UNCHANGED <<workflowVars, subs, todo, told>>

PendingNotices == {k \in DailyEvents : events[k].state = "pending"}

\* pending(kind='daily_update'); the tick ends when there is none.
ListDaily ==
    /\ ops.step = "prepare" /\ ops.left = {}
    /\ ops' = IF PendingNotices = {} THEN IdleOps
              ELSE [IdleOps EXCEPT !.step = "serve", !.list = PendingNotices]
    /\ UNCHANGED <<workflowVars, subs, todo>> /\ JournalUntouched

ClaimDaily ==
    /\ ops.step = "serve" /\ scopes[Operations].step = "idle"
    /\ \E k \in ops.list :
          /\ \/ ClaimEvent(Operations, k) \/ ClaimTooLate(Operations, k)
             \/ events[k].state # "pending" /\ UNCHANGED journalVars
          /\ ops' = [ops EXCEPT !.list = @ \ {k}]
    /\ UNCHANGED <<workflowVars, subs, grants, todo, told>>

JudgeDaily ==
    /\ scopes[Operations].step = "claimed"
    /\ IF StandsNow(Held(Operations)) THEN Accept(Operations) ELSE Refuse(Operations)
    /\ UNCHANGED <<workflowVars, subs, grants, ops, todo, told>>

SendDaily ==
    /\ Send(Operations) \/ SendNothing(Operations)
    /\ UNCHANGED <<workflowVars, subs, grants, ops, todo, told>>

\* One notice per tick, and none after an exception.
CloseDaily ==
    /\ CloseScope(Operations)
    /\ ops' = IdleOps
    /\ UNCHANGED <<workflowVars, subs, grants, todo, told>>

EndTick ==
    /\ ops.step = "serve" /\ ops.list = {} /\ scopes[Operations].step = "idle"
    /\ ops' = IdleOps
    /\ UNCHANGED <<workflowVars, subs, todo>> /\ JournalUntouched

\* The process dies, or an exception ends the tick.
OpsDies ==
    /\ ops.step # "idle"
    /\ ops' = IdleOps
    /\ Fault
    /\ IF scopes[Operations].step = "idle"
       THEN UNCHANGED journalVars ELSE AbandonScope(Operations)
    /\ UNCHANGED <<jobs, day, crm, bot, worker, handled, crawled, subs, grants, todo, told>>

-----------------------------------------------------------------------------
TimePasses ==
    /\ JobsElapse /\ JournalElapse
    /\ UNCHANGED <<day, crm, bot, worker, handled, faults, crawled,
                   subs, grants, ops, todo, told>>

\* Midnight UTC is hours away from the hour of notices.
MidnightBetweenNotices == Midnight /\ ops.left = {} /\ ops.step # "match"

\* Steps of the workflow that do not concern notifications.
NoNotification == JournalUntouched /\ UNCHANGED <<subs, ops, todo>>

BotAlone ==
    /\ BotOpenCase \/ BotEnqueue \/ BotCloseForm \/ BotResumeEnqueue
    /\ NoNotification

WorkerAlone ==
    /\ \/ WorkerClaim \/ WorkerLoad \/ WorkerCheckStart \/ WorkerDrop
       \/ WorkerCheckLive \/ WorkerCrawl \/ WorkerCheckAfter \/ WorkerMatch
       \/ WorkerError \/ WorkerSettle
    /\ NoNotification

WorldAlone ==
    /\ \/ Customer \/ \E l \in Leads : AdviserMovesStage(l)
       \/ BotEnqueueFails \/ BotAborts \/ BotCrash \/ WorkerInterrupt
       \/ MidnightBetweenNotices
    /\ NoNotification

BotMoves == BotAlone \/ SubscribeCustomer \/ IssueSearchEvent

WorkerMoves ==
    \/ WorkerAlone
    \/ ListSearchEvents \/ ClaimSearchEvent \/ JudgeSearchEvent
    \/ SendSearchResult \/ FailSearchResult \/ CloseSearchResult \/ FinishDelivery

OpsMoves ==
    \/ BeginTick \/ SkipDaily \/ QueueDaily \/ IssueDaily \/ ListDaily
    \/ ClaimDaily \/ JudgeDaily \/ SendDaily \/ CloseDaily \/ EndTick

DeliveryNext ==
    \/ BotMoves \/ WorkerMoves \/ OpsMoves \/ TimePasses
    \/ WorldAlone
    \/ \E l \in Leads : DailyOff(l)
    \/ OpenJournal \/ WorkerDies \/ OpsDies

DeliverySpec == DeliveryInit /\ [][DeliveryNext]_deliveryVars

\* As in SearchWorkflow; operations ticks every ten seconds.
DeliveryFairness ==
    /\ WF_deliveryVars(BotMoves)
    /\ WF_deliveryVars(WorkerMoves)
    /\ WF_deliveryVars(OpsMoves)
    /\ WF_deliveryVars(TimePasses)

FairDelivery == DeliverySpec /\ DeliveryFairness

-----------------------------------------------------------------------------
(***************************************************************************)
(* Properties.                                                             *)
(***************************************************************************)

\* The right to one answer goes with a confirmed job, to the customer who
\* confirmed it and for the need confirmed, though the bot joins the id that
\* enqueue() returned with rows it reads anew four steps later.
GrantMatchesJob ==
    \A i \in 1..MaxJobs :
        events[SearchEvent(i)].state # "absent" =>
            /\ jobs[i].lead = grants[SearchEvent(i)].lead
            /\ jobs[i].crit = grants[SearchEvent(i)].fp
            /\ jobs[i].key \notin {NoKey, DailyKey}

\* A notice of the day is issued only beside a search of the day (prepare_daily).
NoticeFollowsSearch ==
    \A l \in Leads, d \in 1..MaxDay :
        events[DailyEvent(l, d)].state # "absent" =>
            \E i \in DOMAIN jobs :
                DedupKey(jobs[i]) = <<l, d, grants[DailyEvent(l, d)].fp, DailyKey>>

\* "Ready" and "nothing found" are told only of a job that finished a live
\* crawl, and stay true of it (deliver_search_result reads queue.status()).
TheAnswerIsLive ==
    \A i \in 1..MaxJobs :
        told[SearchEvent(i)] \in Answered
            => i \in crawled /\ jobs[i].state = told[SearchEvent(i)]

\* Without a fault nobody is told the end of a search that is still to run.
NoAnswerBeforeTheEnd ==
    faults = 0 =>
        \A i \in 1..MaxJobs : told[SearchEvent(i)] \notin {"queued", "running"}

\* A pending search event whose job is over is about to be served.
PendingGrantIsServed ==
    \A i \in DOMAIN jobs :
        /\ events[SearchEvent(i)].state = "pending"
        /\ jobs[i].state \in Answered \cup {"failed"}
        => worker.job = i /\ worker.step \in {"deliver", "delivering"}

\* "An expired or changed request cannot deliver" (the test of delivery_scope): the
\* worker opens a scope only while the customer's need is the one that was granted.
ChangedRequestIsRefused ==
    [][scopes[Worker].step = "claimed" /\ scopes'[Worker].step = "open"
          => LET grant == grants[Held(Worker)] IN crm[grant.lead].crit = grant.fp]_scopes

-----------------------------------------------------------------------------
(***************************************************************************)
(* The promise to the customers, as the tables keep it.                    *)
(***************************************************************************)
\* A verdict is an answer of the queue; every other state leaves the request open.
VerdictOf(state) == IF state \in Answered THEN state ELSE "open"

Asked == [i \in 1..MaxJobs |->
            IF i \in DOMAIN jobs THEN [lead |-> jobs[i].lead, fp |-> jobs[i].crit]
            ELSE Nothing]

Verdict == [i \in 1..MaxJobs |->
              IF i \in DOMAIN jobs THEN VerdictOf(jobs[i].state) ELSE "open"]

\* The recipient is the one the event was issued to, not the job's row.
AnswerGiven == [i \in 1..MaxJobs |->
                  IF told[SearchEvent(i)] = Nothing THEN Nothing
                  ELSE [to |-> grants[SearchEvent(i)],
                        says |-> VerdictOf(told[SearchEvent(i)])]]

Messages == [i \in 1..MaxJobs |-> sends[SearchEvent(i)]]

EndToEnd == INSTANCE SearchPromise
    WITH Requests <- 1..MaxJobs, Needs <- Grant, asked <- Asked, searched <- crawled,
         verdict <- Verdict, answer <- AnswerGiven, messages <- Messages

\* From the confirmation to the message, three processes and two databases with no
\* common transaction keep the promise of SearchPromise: a request is concluded once
\* and by a complete live search, and answered once, to the customer who asked, with
\* what it then was (enqueue, run_job, deliver_search_result).
ImplementsSearchPromise == EndToEnd!Spec
=============================================================================
