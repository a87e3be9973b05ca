------------------------ MODULE SearchDelivery_proofs ------------------------
(***************************************************************************)
(* The customer's whole search keeps what its parts promise: every step of *)
(* the three processes is a step of the journal, and the right to an       *)
(* answer, the answer told and the notice of the day belong to the search  *)
(* they name, for any customers, needs, events, deaths and days.           *)
(***************************************************************************)
EXTENDS SearchDelivery, SearchWorkflow_proofs, NotificationStore_proofs

\* The request a row of the queue stands for.
RequestOf(j) == [lead |-> j.lead, crit |-> j.crit, key |-> j.key]

\* A confirmation's job, which alone may have a search_result event.
OfConfirmation(j) == j.key \notin {NoKey, DailyKey}

\* What the handler carries from one transaction to the next is still so: the
\* lead's criteria, the row enqueue() returned, and the customer's subscription.
BotFollowsRequest ==
    /\ bot.step \in ConfirmingSteps => crm[bot.req.lead].crit = bot.req.crit
    /\ bot.step \notin {"enqueued", "formClosed", "subscribed"} => bot.job = 0
    /\ bot.job # 0 => bot.job \in DOMAIN jobs /\ RequestOf(jobs[bot.job]) = bot.req
    /\ bot.step = "resumed" => bot.req.key = NoKey
    /\ bot.step = "subscribed" =>
          subs[bot.req.lead] # Nothing /\ subs[bot.req.lead].fp = bot.req.crit

\* Every search_result event has its row, issued or told.
EventsHaveRows ==
    \A i \in 1..MaxJobs :
        \/ events[SearchEvent(i)].state # "absent"
        \/ told[SearchEvent(i)] # Nothing
        => i \in DOMAIN jobs

\* Between the two transactions of prepare_daily the search of the day is queued.
MatchFollowsSearch ==
    ops.step = "match" =>
        /\ ops.sub \in Grant
        /\ \E i \in DOMAIN jobs :
              DedupKey(jobs[i]) = <<ops.sub.lead, day, ops.sub.fp, DailyKey>>

\* The worker lists and serves events of the job in hand only.
WorkerServesItsJob ==
    /\ worker.step # "idle" => worker.job \in DOMAIN jobs
    /\ todo \subseteq {SearchEvent(worker.job)}
    /\ todo # {} \/ scopes[Worker].step # "idle" => worker.step = "delivering"
    /\ scopes[Worker].step # "idle" => Held(Worker) = SearchEvent(worker.job)

\* Without faults a confirmation is queued once, so that nothing restarts a job
\* whose result is being delivered.
ConfirmedOnce ==
    /\ bot.step \in {"saved", "opened", "enqueued"} => bot.req \notin handled
    /\ \A i \in DOMAIN jobs : OfConfirmation(jobs[i]) =>
          \/ RequestOf(jobs[i]) \in handled
          \/ bot.step = "enqueued" /\ RequestOf(jobs[i]) = bot.req
    /\ worker.step \in {"deliver", "delivering"} /\ OfConfirmation(HeldJob) =>
          HeldJob.state \notin {"queued", "running"}

DeliveryInv ==
    /\ DeliveryTypeOK
    /\ WorkflowInv
    /\ JournalInv
    /\ BotFollowsRequest
    /\ EventsHaveRows /\ GrantMatchesJob
    /\ MatchFollowsSearch /\ NoticeFollowsSearch
    /\ WorkerServesItsJob /\ TheAnswerIsLive
    /\ faults = 0 => ConfirmedOnce
    /\ NoAnswerBeforeTheEnd

\* Steps that issue no event: the journal only serves what it has.
ServesOnly ==
    \/ Sweep \/ JournalElapse \/ UNCHANGED journalVars
    \/ \E s \in Senders :
          \/ \E k \in Keys : ClaimEvent(s, k) \/ ClaimTooLate(s, k)
          \/ Accept(s) \/ Refuse(s) \/ Send(s) \/ SendNothing(s)
          \/ CloseScope(s) \/ AbandonScope(s)

-----------------------------------------------------------------------------
(***************************************************************************)
(* The constants, and the parts of the invariant as facts.                 *)
(***************************************************************************)
\* Every job has its event and every lead and day their notice, none of them shared.
LEMMA EventKeys ==
    /\ \A i \in 1..MaxJobs : SearchEvent(i) \in Keys /\ SearchEvent(i) \in SearchEvents
    /\ \A l \in Leads, d \in 1..MaxDay :
          DailyEvent(l, d) \in Keys /\ DailyEvent(l, d) \in DailyEvents
    /\ \A i, j : SearchEvent(i) = SearchEvent(j) => i = j
    /\ \A l, m, d, e : DailyEvent(l, d) = DailyEvent(m, e) => l = m /\ d = e
    /\ \A i, l, d : SearchEvent(i) # DailyEvent(l, d)
<1>1. \A i, j : SearchEvent(i) = SearchEvent(j) => i = j
  BY DEF SearchEvent
<1>2. \A l, m, d, e : DailyEvent(l, d) = DailyEvent(m, e) => l = m /\ d = e
  BY DEF DailyEvent
<1>3. \A i, l, d : SearchEvent(i) # DailyEvent(l, d)
  BY DEF SearchEvent, DailyEvent
<1> QED BY <1>1, <1>2, <1>3, DeliveryAssumption DEF SearchEvents, DailyEvents

\* The worker and operations are the senders, and two.
LEMMA TwoSenders ==
    /\ Worker \in Senders /\ Operations \in Senders /\ Worker # Operations
    /\ \A s \in Senders : s = Worker \/ s = Operations
BY DeliveryAssumption

\* Nothing is no subscription, no grant and no answer.
LEMMA NothingIsNothing ==
    /\ Nothing \notin [fp: Criteria, enabled: BOOLEAN]
    /\ Nothing \notin Grant /\ Nothing \notin JobStates
BY DeliveryAssumption

\* Two rows of one request agree on lead, day, criteria and key.
LEMMA SameRequestSameColumns ==
    ASSUME NEW j, NEW k, DedupKey(j) = DedupKey(k)
    PROVE  /\ j.lead = k.lead /\ j.crit = k.crit /\ j.key = k.key
           /\ RequestOf(j) = RequestOf(k) /\ (OfConfirmation(j) <=> OfConfirmation(k))
BY DEF DedupKey, RequestOf, OfConfirmation

-----------------------------------------------------------------------------
(***************************************************************************)
(* The journal.                                                            *)
(***************************************************************************)
\* Serving is a step of the journal, and issues nothing.
LEMMA ServingIssuesNothing ==
    ASSUME JournalInv, ServesOnly
    PROVE  /\ [JournalNext]_journalVars
           /\ \A k \in Keys : events'[k].state = "absent" <=> events[k].state = "absent"
<1>1. [JournalNext]_journalVars
  BY DEF ServesOnly, JournalNext
<1>2. ASSUME NEW k \in Keys
      PROVE  events'[k].state = "absent" <=> events[k].state = "absent"
  <2> USE DEF JournalInv, JournalTypeOK, SetEvent
  <2>1. CASE Sweep
    <3>1. Swept(k).state = "absent" <=> events[k].state = "absent"
      BY DEF Swept
    <3> QED BY <2>1, <3>1 DEF Sweep
  <2>2. CASE JournalElapse
    <3>1. OlderEvent(k).state = events[k].state
      BY DEF OlderEvent
    <3> QED BY <2>2, <3>1 DEF JournalElapse
  <2>3. CASE UNCHANGED journalVars
    BY <2>3 DEF journalVars
  <2>4. ASSUME NEW s \in Senders, NEW n \in Keys, ClaimEvent(s, n) \/ ClaimTooLate(s, n)
        PROVE  events'[k].state = "absent" <=> events[k].state = "absent"
    BY <2>4 DEF ClaimEvent, ClaimTooLate
  <2>5. ASSUME NEW s \in Senders, Refuse(s) \/ CloseScope(s)
        PROVE  events'[k].state = "absent" <=> events[k].state = "absent"
    <3>1. Held(s) \in Keys /\ events[Held(s)].state # "absent"
      BY <2>5 DEF Refuse, CloseScope, ScopesHoldClaims, Open
    <3> QED BY <2>5, <3>1 DEF Refuse, CloseScope
  <2>6. ASSUME NEW s \in Senders, Accept(s) \/ Send(s) \/ SendNothing(s) \/ AbandonScope(s)
        PROVE  events'[k].state = "absent" <=> events[k].state = "absent"
    BY <2>6 DEF Accept, Send, SendNothing, AbandonScope
  <2> QED BY <2>1, <2>2, <2>3, <2>4, <2>5, <2>6 DEF ServesOnly
<1> QED BY <1>1, <1>2

\* Only the bot's last step and the match of operations issue events; every other
\* step serves, and leaves the columns lead and fingerprint alone.
LEMMA StepsServeOrIssue ==
    ASSUME DeliveryInv, [DeliveryNext]_deliveryVars
    PROVE  \/ ServesOnly /\ UNCHANGED grants
           \/ IssueSearchEvent
           \/ IssueDaily
<1> USE TwoSenders DEF ServesOnly
<1>1. CASE BotMoves
  BY <1>1 DEF BotMoves, BotAlone, NoNotification, JournalUntouched, SubscribeCustomer
<1>2. CASE WorkerAlone \/ WorldAlone
  BY <1>2 DEF WorkerAlone, WorldAlone, NoNotification, JournalUntouched
<1>3. CASE ListSearchEvents
  BY <1>3 DEF ListSearchEvents
<1>4. CASE ClaimSearchEvent
  <2>1. todo \subseteq Keys
    BY EventKeys DEF DeliveryInv, DeliveryTypeOK, SearchEvents
  <2> QED BY <1>4, <2>1 DEF ClaimSearchEvent
<1>5. CASE JudgeSearchEvent \/ SendSearchResult \/ FailSearchResult \/ CloseSearchResult
  BY <1>5 DEF JudgeSearchEvent, SendSearchResult, FailSearchResult, CloseSearchResult
<1>6. CASE FinishDelivery \/ WorkerDies \/ OpsDies
  BY <1>6 DEF FinishDelivery, WorkerDies, OpsDies
<1>7. CASE BeginTick \/ SkipDaily \/ QueueDaily \/ ListDaily \/ EndTick
  BY <1>7 DEF BeginTick, SkipDaily, QueueDaily, ListDaily, EndTick, JournalUntouched
<1>8. CASE ClaimDaily
  <2>1. ops.list \subseteq Keys
    BY EventKeys DEF DeliveryInv, DeliveryTypeOK, DailyEvents
  <2> QED BY <1>8, <2>1 DEF ClaimDaily
<1>9. CASE JudgeDaily \/ SendDaily \/ CloseDaily
  BY <1>9 DEF JudgeDaily, SendDaily, CloseDaily
<1>10. CASE TimePasses \/ OpenJournal
  BY <1>10 DEF TimePasses, OpenJournal
<1>11. CASE \E l \in Leads : DailyOff(l)
  BY <1>11 DEF DailyOff
<1>12. CASE UNCHANGED deliveryVars
  BY <1>12 DEF deliveryVars
<1> QED
  BY <1>1, <1>2, <1>3, <1>4, <1>5, <1>6, <1>7, <1>8, <1>9, <1>10, <1>11, <1>12
  DEF DeliveryNext, WorkerMoves, OpsMoves

\* What the two issuing steps do: INSERT OR IGNORE of one event.
LEMMA IssueGrants ==
    ASSUME DeliveryInv, IssueSearchEvent \/ IssueDaily
    PROVE  \/ UNCHANGED <<journalVars, grants>>
           \/ /\ IssueSearchEvent /\ bot.job \in 1..MaxJobs
              /\ Grants(SearchEvent(bot.job), bot.req.lead, subs[bot.req.lead].fp)
           \/ /\ IssueDaily /\ ops.sub \in Grant /\ day \in 1..MaxDay
              /\ Grants(DailyEvent(ops.sub.lead, day), ops.sub.lead, ops.sub.fp)
<1>1. CASE IssueSearchEvent /\ bot.job # 0
  <2>1. bot.job \in 1..MaxJobs
    BY <1>1, TableIsFunction, JobsAssumption
    DEF DeliveryInv, BotFollowsRequest, WorkflowInv, WorkflowTypeOK,
       JobsTypeOK
  <2> QED BY <1>1, <2>1 DEF IssueSearchEvent
<1>2. CASE IssueSearchEvent /\ bot.job = 0
  BY <1>2 DEF IssueSearchEvent
<1>3. CASE IssueDaily
  <2>1. /\ ops.step = "match"
        /\ \/ Grants(DailyEvent(ops.sub.lead, day), ops.sub.lead, ops.sub.fp)
           \/ UNCHANGED <<journalVars, grants>>
    BY <1>3, Zenon DEF IssueDaily
  <2>2. ops.sub \in Grant /\ day \in 1..MaxDay
    BY <2>1 DEF DeliveryInv, MatchFollowsSearch, WorkflowInv, WorkflowTypeOK, JobsTypeOK
  <2> QED BY <1>3, <2>1, <2>2, Zenon
<1> QED BY <1>1, <1>2, <1>3

\* The handler that issues has the customer's lead and need in hand.
LEMMA IssuedForRequest ==
    ASSUME DeliveryInv, IssueSearchEvent
    PROVE  /\ bot.step = "subscribed" /\ bot.req \in Request
           /\ bot.req.lead \in Leads /\ bot.req.crit \in Criteria
           /\ subs[bot.req.lead].fp = bot.req.crit
<1>1. bot.step = "subscribed"
  BY DEF IssueSearchEvent, BotIssue
<1>2. bot.req \in Confirmations
  BY <1>1 DEF DeliveryInv, WorkflowInv, BotHasRequest, ConfirmingSteps
<1> QED BY <1>1, <1>2, ConfirmationsAreRequests DEF Request, DeliveryInv, BotFollowsRequest

\* An issued event stays issued, to whom and for what it was issued; a new one is
\* the bot's for the job in hand, or the notice of the day.
LEMMA EventsIssued ==
    ASSUME DeliveryInv, [DeliveryNext]_deliveryVars
    PROVE  /\ [JournalNext]_journalVars
           /\ grants' \in [Keys -> Grant \cup {Nothing}]
           /\ \A k \in Keys :
                 IF events[k].state # "absent"
                 THEN events'[k].state # "absent" /\ grants'[k] = grants[k]
                 ELSE events'[k].state # "absent" =>
                    \/ /\ IssueSearchEvent /\ bot.job \in 1..MaxJobs
                       /\ k = SearchEvent(bot.job)
                       /\ grants'[k] = [lead |-> bot.req.lead, fp |-> bot.req.crit]
                    \/ /\ IssueDaily /\ ops.sub \in Grant /\ day \in 1..MaxDay
                       /\ k = DailyEvent(ops.sub.lead, day)
                       /\ grants'[k] = [lead |-> ops.sub.lead, fp |-> ops.sub.fp]
<1>0. JournalInv /\ JournalTypeOK /\ grants \in [Keys -> Grant \cup {Nothing}]
  BY DEF DeliveryInv, DeliveryTypeOK
<1>1. CASE ServesOnly /\ UNCHANGED grants
  BY <1>0, <1>1, ServingIssuesNothing
<1>2. CASE UNCHANGED <<journalVars, grants>>
  BY <1>0, <1>2 DEF journalVars
<1>3. ASSUME NEW k \in Keys, NEW l \in Leads, NEW c \in Criteria, Grants(k, l, c)
      PROVE  /\ [JournalNext]_journalVars
             /\ grants' \in [Keys -> Grant \cup {Nothing}]
             /\ \A n \in Keys :
                   /\ n # k => events'[n] = events[n] /\ grants'[n] = grants[n]
                   /\ events[n].state # "absent" =>
                         events'[n] = events[n] /\ grants'[n] = grants[n]
             /\ events[k].state = "absent" => grants'[k] = [lead |-> l, fp |-> c]
  <2>1. IssueEvent(k)
        /\ grants' = IF events[k].state = "absent"
                     THEN [grants EXCEPT ![k] = [lead |-> l, fp |-> c]] ELSE grants
    BY <1>3 DEF Grants
  <2>2. [lead |-> l, fp |-> c] \in Grant
    BY DEF Grant
  <2>3. \A n \in Keys :
           /\ n # k => events'[n] = events[n]
           /\ events[n].state # "absent" => events'[n] = events[n]
    BY <1>0, <2>1 DEF IssueEvent, JournalTypeOK
  <2>4. [JournalNext]_journalVars
    BY <2>1 DEF JournalNext
  <2> QED BY <1>0, <2>1, <2>2, <2>3, <2>4
<1>4. CASE /\ IssueSearchEvent /\ bot.job \in 1..MaxJobs
           /\ Grants(SearchEvent(bot.job), bot.req.lead, subs[bot.req.lead].fp)
  <2>1. /\ SearchEvent(bot.job) \in Keys
        /\ Grants(SearchEvent(bot.job), bot.req.lead, bot.req.crit)
        /\ bot.req.lead \in Leads /\ bot.req.crit \in Criteria
    BY <1>4, IssuedForRequest, EventKeys
  <2> QED BY <1>3, <1>4, <2>1
<1>5. CASE /\ IssueDaily /\ ops.sub \in Grant /\ day \in 1..MaxDay
           /\ Grants(DailyEvent(ops.sub.lead, day), ops.sub.lead, ops.sub.fp)
  <2>1. /\ DailyEvent(ops.sub.lead, day) \in Keys
        /\ ops.sub.lead \in Leads /\ ops.sub.fp \in Criteria
    BY <1>5, EventKeys DEF Grant
  <2> QED BY <1>3, <1>5, <2>1
<1> QED BY <1>1, <1>2, <1>4, <1>5, StepsServeOrIssue, IssueGrants

\* The invariant of the journal is kept.
LEMMA JournalInvKept ==
    ASSUME DeliveryInv, [DeliveryNext]_deliveryVars
    PROVE  JournalInv'
BY EventsIssued, JournalInvStep DEF DeliveryInv

-----------------------------------------------------------------------------
(***************************************************************************)
(* The workflow.                                                           *)
(***************************************************************************)
\* The daily search prepare_daily queues is a request under the key of the day.
LEMMA QueueDailyRequests ==
    ASSUME DeliveryInv, QueueDaily
    PROVE  \E sub \in Grant :
              /\ sub \in ops.left /\ ops'.sub = sub /\ ops'.step = "match"
              /\ [lead |-> sub.lead, crit |-> sub.fp, key |-> DailyKey] \in Request
              /\ Enqueue([lead |-> sub.lead, crit |-> sub.fp, key |-> DailyKey])
              /\ UNCHANGED <<day, crm, bot, worker, handled, faults, crawled, subs, todo>>
<1>1. PICK sub \in ops.left :
         /\ Enqueue([lead |-> sub.lead, crit |-> sub.fp, key |-> DailyKey])
         /\ ops' = [ops EXCEPT !.step = "match", !.sub = sub, !.left = @ \ {sub}]
  BY Zenon DEF QueueDaily
<1>2. ops \in [step: {"idle", "prepare", "match", "serve"}, left: SUBSET Grant,
               sub: Grant \cup {Nothing}, list: SUBSET DailyEvents]
  BY DEF DeliveryInv, DeliveryTypeOK
<1>3. ops'.sub = sub /\ ops'.step = "match"
  BY <1>1, <1>2, Zenon
<1>4. sub \in Grant
  BY <1>2
<1>5. [lead |-> sub.lead, crit |-> sub.fp, key |-> DailyKey] \in Request
  BY <1>4, DeliveryAssumption DEF Grant, Request
<1>6. UNCHANGED <<day, crm, bot, worker, handled, faults, crawled, subs, todo>>
  BY Zenon DEF QueueDaily
<1>7. Enqueue([lead |-> sub.lead, crit |-> sub.fp, key |-> DailyKey])
  BY <1>1, Zenon
<1> QED BY <1>3, <1>4, <1>5, <1>6, <1>7, Zenon

\* Every step is one of the workflow, but for the search operations queue and the
\* faults of operations.
LEMMA StepsOfWorkflow ==
    ASSUME [DeliveryNext]_deliveryVars
    PROVE  \/ [WorkflowNext]_workflowVars
           \/ QueueDaily
           \/ Fault /\ UNCHANGED <<jobs, day, crm, bot, worker, handled, crawled>>
<1>1. CASE BotMoves
  BY <1>1 DEF BotMoves, BotAlone, SubscribeCustomer, IssueSearchEvent, WorkflowNext, BotStep
<1>2. CASE WorkerAlone
  BY <1>2 DEF WorkerAlone, WorkflowNext, WorkerStep
<1>3. CASE WorldAlone
  BY <1>3 DEF WorldAlone, MidnightBetweenNotices, WorkflowNext
<1>4. CASE ListSearchEvents \/ FinishDelivery \/ WorkerDies
  BY <1>4 DEF ListSearchEvents, FinishDelivery, WorkerDies, WorkflowNext, WorkerStep
<1>5. CASE ClaimSearchEvent \/ JudgeSearchEvent \/ SendSearchResult \/ FailSearchResult
           \/ CloseSearchResult
  BY <1>5 DEF ClaimSearchEvent, JudgeSearchEvent, SendSearchResult, FailSearchResult,
     CloseSearchResult
<1>6. CASE BeginTick \/ SkipDaily \/ IssueDaily \/ ListDaily \/ ClaimDaily
           \/ JudgeDaily \/ SendDaily \/ CloseDaily \/ EndTick
  BY <1>6, Zenon DEF BeginTick, SkipDaily, IssueDaily, ListDaily, ClaimDaily, JudgeDaily,
     SendDaily, CloseDaily, EndTick
<1>7. CASE QueueDaily
  BY <1>7
<1>8. CASE TimePasses
  BY <1>8 DEF TimePasses, Elapse, WorkflowNext
<1>9. CASE OpenJournal \/ \E l \in Leads : DailyOff(l)
  BY <1>9, Zenon DEF OpenJournal, DailyOff
<1>10. CASE OpsDies
  BY <1>10 DEF OpsDies
<1>11. CASE UNCHANGED deliveryVars
  BY <1>11 DEF deliveryVars
<1> QED
  BY <1>1, <1>2, <1>3, <1>4, <1>5, <1>6, <1>7, <1>8, <1>9, <1>10, <1>11
  DEF DeliveryNext, WorkerMoves, OpsMoves

\* The workflow keeps its invariant though operations add to its queue.
LEMMA WorkflowInvKept ==
    ASSUME DeliveryInv, [DeliveryNext]_deliveryVars
    PROVE  WorkflowInv'
<1>0. WorkflowInv
  BY DEF DeliveryInv
<1>1. CASE [WorkflowNext]_workflowVars
  BY <1>0, <1>1, WorkflowInvStep
<1>2. CASE QueueDaily
  <2>1. PICK sub \in Grant :
           /\ [lead |-> sub.lead, crit |-> sub.fp, key |-> DailyKey] \in Request
           /\ Enqueue([lead |-> sub.lead, crit |-> sub.fp, key |-> DailyKey])
    BY <1>2, QueueDailyRequests
  <2>2. UNCHANGED <<day, crm, bot, worker, handled, faults, crawled>>
    BY <1>2, QueueDailyRequests
  <2>3. JobsTypeOK /\ JobsInv
    BY <1>0 DEF WorkflowInv, WorkflowTypeOK
  <2>4. JobsTypeOK' /\ JobsInv'
    BY <2>1, <2>2, <2>3, EnqueueKeeps, OthersKeepJobs
  <2> QED BY <1>0, <2>2, <2>4
          DEF WorkflowInv, WorkflowTypeOK, CrmTypeOK, OnlyLatestCaseIsLive, BotHasRequest
<1>3. CASE Fault /\ UNCHANGED <<jobs, day, crm, bot, worker, handled, crawled>>
  <2>1. faults' \in 0..MaxFaults
    BY <1>0, <1>3, WorkflowAssumption DEF Fault, WorkflowInv, WorkflowTypeOK
  <2> QED BY <1>0, <1>3, <2>1, JobsUntouched
          DEF WorkflowInv, WorkflowTypeOK, JobsTypeOK, CrmTypeOK, OnlyLatestCaseIsLive,
              BotHasRequest
<1> QED BY <1>1, <1>2, <1>3, StepsOfWorkflow

\* Nothing is deleted from the queue, a row stays the row of its request, and an
\* answer stays one of a live crawl.
LEMMA RowsKept ==
    ASSUME DeliveryInv, [DeliveryNext]_deliveryVars
    PROVE  /\ DOMAIN jobs \subseteq DOMAIN jobs'
           /\ \A i \in DOMAIN jobs : DedupKey(jobs'[i]) = DedupKey(jobs[i])
           /\ \A i \in DOMAIN jobs : jobs[i].state \in Answered =>
                 /\ jobs'[i].state = jobs[i].state
                 /\ i \in crawled => i \in crawled'
<1>0. WorkflowInv /\ JobsTypeOK
  BY DEF DeliveryInv, WorkflowInv, WorkflowTypeOK
<1>1. CASE UNCHANGED <<jobs, crawled>>
  BY <1>1
<1>2. ASSUME NEW r \in Request, Enqueue(r), UNCHANGED <<day, crawled>>
      PROVE  /\ DOMAIN jobs \subseteq DOMAIN jobs'
             /\ \A i \in DOMAIN jobs : DedupKey(jobs'[i]) = DedupKey(jobs[i])
             /\ \A i \in DOMAIN jobs : jobs[i].state \in Answered =>
                   /\ jobs'[i].state = jobs[i].state
                   /\ i \in crawled => i \in crawled'
  BY <1>0, <1>2, EnqueueFindsRequest, EnqueueKeeps DEF Answered
<1>3. CASE BotEnqueue \/ BotResumeEnqueue
  <2>1. bot.req \in Request
    BY <1>0, <1>3, ConfirmationsAreRequests
    DEF BotEnqueue, BotResumeEnqueue, WorkflowInv, BotHasRequest, ConfirmingSteps
  <2> QED BY <1>2, <1>3, <2>1 DEF BotEnqueue, BotResumeEnqueue
<1>4. CASE QueueDaily
  <2>1. PICK sub \in Grant :
           /\ [lead |-> sub.lead, crit |-> sub.fp, key |-> DailyKey] \in Request
           /\ Enqueue([lead |-> sub.lead, crit |-> sub.fp, key |-> DailyKey])
           /\ UNCHANGED <<day, crawled>>
    BY <1>4, QueueDailyRequests
  <2> QED BY <1>2, <2>1
<1>5. CASE WorkerClaim
  <2>1. PICK i : Claim(i) /\ crawled' = crawled \ {i} /\ UNCHANGED day
    BY <1>5 DEF WorkerClaim
  <2> QED BY <1>0, <2>1, RowsKeepRequest, ClaimKeeps DEF Answered
<1>6. CASE WorkerDrop \/ WorkerCrawl \/ WorkerSettle
  <2>1. worker.job \in DOMAIN jobs /\ HeldJob.state = "running"
    BY <1>0, <1>6, HeldJobIsRow DEF WorkerDrop, WorkerCrawl, WorkerSettle, HoldingSteps, TrySteps
  <2>2. PICK s \in JobStates : Finish(worker.job, s)
    BY <1>0, <1>6
    DEF WorkerDrop, WorkerCrawl, WorkerSettle, WorkflowInv, WorkflowTypeOK, JobStates
  <2>3. UNCHANGED day /\ crawled \subseteq crawled'
    BY <1>6 DEF WorkerDrop, WorkerCrawl, WorkerSettle
  <2> QED BY <1>0, <2>1, <2>2, <2>3, RowsKeepRequest, FinishKeeps DEF HeldJob, Answered
<1>7. CASE Elapse
  BY <1>0, <1>7, RowsKeepRequest, ElapseKeeps DEF Elapse
<1> QED BY <1>1, <1>3, <1>4, <1>5, <1>6, <1>7, QueueSteps, StepsOfWorkflow

-----------------------------------------------------------------------------
(***************************************************************************)
(* The rights to an answer and the notices of the day.                     *)
(***************************************************************************)
\* The events still have their rows, and the grants the requests of those rows.
LEMMA GrantsKept ==
    ASSUME DeliveryInv, [DeliveryNext]_deliveryVars, NEW i \in 1..MaxJobs,
           events'[SearchEvent(i)].state # "absent"
    PROVE  /\ i \in DOMAIN jobs
           /\ jobs'[i].lead = grants'[SearchEvent(i)].lead
           /\ jobs'[i].crit = grants'[SearchEvent(i)].fp
           /\ jobs'[i].key \notin {NoKey, DailyKey}
<1> DEFINE k == SearchEvent(i)
<1>1. k \in Keys
  BY EventKeys
<1>2. i \in DOMAIN jobs =>
        /\ jobs'[i].lead = jobs[i].lead /\ jobs'[i].crit = jobs[i].crit
        /\ jobs'[i].key = jobs[i].key
  BY RowsKept, SameRequestSameColumns
<1>3. CASE events[k].state # "absent"
  <2>1. grants'[k] = grants[k]
    BY <1>1, <1>3, EventsIssued
  <2>2. /\ i \in DOMAIN jobs
        /\ jobs[i].lead = grants[k].lead /\ jobs[i].crit = grants[k].fp
        /\ jobs[i].key \notin {NoKey, DailyKey}
    BY <1>3 DEF DeliveryInv, EventsHaveRows, GrantMatchesJob
  <2> QED BY <1>2, <2>1, <2>2
<1>4. CASE events[k].state = "absent"
  <2>1. /\ IssueSearchEvent /\ bot.job = i
        /\ grants'[k] = [lead |-> bot.req.lead, fp |-> bot.req.crit]
    BY <1>1, <1>4, EventsIssued, EventKeys
  <2>2. bot.req \in Confirmations
    BY <2>1 DEF IssueSearchEvent, BotIssue, DeliveryInv, WorkflowInv, BotHasRequest,
       ConfirmingSteps
  <2>3. bot.req.key \notin {NoKey, DailyKey}
    BY <2>2, WorkflowAssumption, DeliveryAssumption
  <2>4. i \in DOMAIN jobs /\ RequestOf(jobs[i]) = bot.req
    BY <2>1 DEF DeliveryInv, BotFollowsRequest
  <2>5. /\ jobs[i].lead = bot.req.lead /\ jobs[i].crit = bot.req.crit
        /\ jobs[i].key = bot.req.key
    BY <2>4 DEF RequestOf
  <2> QED BY <1>2, <2>1, <2>3, <2>4, <2>5
<1> QED BY <1>3, <1>4

\* A notice of the day keeps its search, and a new one has it by prepare_daily.
LEMMA NoticesKept ==
    ASSUME DeliveryInv, [DeliveryNext]_deliveryVars
    PROVE  NoticeFollowsSearch'
<1> SUFFICES ASSUME NEW l \in Leads, NEW d \in 1..MaxDay,
                    events'[DailyEvent(l, d)].state # "absent"
             PROVE  \E i \in DOMAIN jobs' :
                       DedupKey(jobs'[i]) = <<l, d, grants'[DailyEvent(l, d)].fp, DailyKey>>
  BY DEF NoticeFollowsSearch, DedupKey
<1> DEFINE k == DailyEvent(l, d)
<1>1. k \in Keys
  BY EventKeys
<1>2. CASE events[k].state # "absent"
  <2>1. grants'[k] = grants[k]
    BY <1>1, <1>2, EventsIssued
  <2>2. PICK i \in DOMAIN jobs : DedupKey(jobs[i]) = <<l, d, grants[k].fp, DailyKey>>
    BY <1>2 DEF DeliveryInv, NoticeFollowsSearch
  <2> QED BY <2>1, <2>2, RowsKept
<1>3. CASE events[k].state = "absent"
  <2>1. /\ IssueDaily /\ ops.sub.lead = l /\ day = d
        /\ grants'[k].fp = ops.sub.fp
    BY <1>1, <1>3, EventsIssued, EventKeys
  <2>2. ops.step = "match"
    BY <2>1, Zenon DEF IssueDaily
  <2>3. PICK i \in DOMAIN jobs : DedupKey(jobs[i]) = <<l, d, ops.sub.fp, DailyKey>>
    BY <2>1, <2>2 DEF DeliveryInv, MatchFollowsSearch
  <2> QED BY <2>1, <2>3, RowsKept
<1> QED BY <1>2, <1>3

-----------------------------------------------------------------------------
(***************************************************************************)
(* Operations.                                                             *)
(***************************************************************************)
OpsRecord == [step: {"idle", "prepare", "match", "serve"}, left: SUBSET Grant,
              sub: Grant \cup {Nothing}, list: SUBSET DailyEvents]

\* The enabled subscriptions are grants-to-be.
LEMMA SubscriptionsAreGrants ==
    ASSUME DeliveryInv
    PROVE  EnabledSubscriptions \subseteq Grant
<1>1. subs \in [Leads -> [fp: Criteria, enabled: BOOLEAN] \cup {Nothing}]
  BY DEF DeliveryInv, DeliveryTypeOK
<1>2. \A l \in Leads : Subscribed(l) => subs[l].fp \in Criteria
  BY <1>1 DEF Subscribed
<1> QED BY <1>2 DEF EnabledSubscriptions, Grant

\* The tick keeps its type, and reaches the match only through the queue.
LEMMA OpsSteps ==
    ASSUME DeliveryInv, [DeliveryNext]_deliveryVars
    PROVE  /\ ops' \in OpsRecord
           /\ ops'.step = "match" => QueueDaily \/ (UNCHANGED ops /\ UNCHANGED day)
<1>0. ops \in OpsRecord /\ IdleOps \in OpsRecord /\ IdleOps.step = "idle"
  BY DEF DeliveryInv, DeliveryTypeOK, OpsRecord, IdleOps
<1>1. CASE UNCHANGED ops /\ (UNCHANGED day \/ ops.step # "match")
  BY <1>0, <1>1
<1>2. CASE BeginTick
  <2>1. PICK left \in {{}} \cup {EnabledSubscriptions : d \in DailyDays \cap {day}} :
           ops' = [IdleOps EXCEPT !.step = "prepare", !.left = left]
    BY <1>2, Zenon DEF BeginTick
  <2>2. left \in SUBSET Grant
    BY SubscriptionsAreGrants
  <2>3. ops' = [step |-> "prepare", left |-> left, sub |-> Nothing, list |-> {}]
    BY <2>1, Zenon DEF IdleOps
  <2> QED BY <2>2, <2>3 DEF OpsRecord
<1>3. CASE SkipDaily
  <2>1. PICK sub \in ops.left : ops' = [ops EXCEPT !.left = @ \ {sub}]
    BY <1>3, Zenon DEF SkipDaily
  <2>2. ops' \in OpsRecord /\ ops'.step = ops.step
    BY <1>0, <2>1 DEF OpsRecord
  <2> QED BY <1>3, <2>2 DEF SkipDaily
<1>4. CASE QueueDaily
  <2>1. PICK sub \in ops.left :
           ops' = [ops EXCEPT !.step = "match", !.sub = sub, !.left = @ \ {sub}]
    BY <1>4, Zenon DEF QueueDaily
  <2>2. sub \in Grant /\ ops.left \ {sub} \in SUBSET Grant
    BY <1>0 DEF OpsRecord
  <2>3. ops' = [step |-> "match", left |-> ops.left \ {sub}, sub |-> sub, list |-> ops.list]
    BY <1>0, <2>1, Zenon DEF OpsRecord
  <2> QED BY <1>0, <1>4, <2>2, <2>3 DEF OpsRecord
<1>5. CASE IssueDaily
  <2>1. ops' = [ops EXCEPT !.step = "prepare", !.sub = Nothing]
    BY <1>5, Zenon DEF IssueDaily
  <2>2. ops' = [step |-> "prepare", left |-> ops.left, sub |-> Nothing, list |-> ops.list]
    BY <1>0, <2>1, Zenon DEF OpsRecord
  <2> QED BY <1>0, <2>2 DEF OpsRecord
<1>6. CASE ListDaily
  <2>1. ops' = IF PendingNotices = {} THEN IdleOps
               ELSE [IdleOps EXCEPT !.step = "serve", !.list = PendingNotices]
    BY <1>6, Zenon DEF ListDaily
  <2>2. PendingNotices \in SUBSET DailyEvents
    BY DEF PendingNotices
  <2>3. \/ ops' = IdleOps
        \/ ops' = [step |-> "serve", left |-> {}, sub |-> Nothing, list |-> PendingNotices]
    BY <2>1, Zenon DEF IdleOps
  <2> QED BY <1>0, <2>2, <2>3 DEF OpsRecord
<1>7. CASE ClaimDaily
  <2>1. PICK k \in ops.list : ops' = [ops EXCEPT !.list = @ \ {k}]
    BY <1>7, Zenon DEF ClaimDaily
  <2>2. ops.step = "serve"
    BY <1>7, Zenon DEF ClaimDaily
  <2>3. ops' \in OpsRecord /\ ops'.step = ops.step
    BY <1>0, <2>1 DEF OpsRecord
  <2> QED BY <2>2, <2>3
<1>8. CASE CloseDaily \/ EndTick \/ OpsDies
  <2>1. ops' = IdleOps
    BY <1>8, Zenon DEF CloseDaily, EndTick, OpsDies
  <2> QED BY <1>0, <2>1
<1>9. BotMoves \/ WorkerMoves \/ TimePasses \/ OpenJournal \/ WorkerDies =>
        UNCHANGED ops /\ UNCHANGED day
  BY Zenon
  DEF BotMoves, BotAlone, SubscribeCustomer, IssueSearchEvent, WorkerMoves, WorkerAlone,
      ListSearchEvents, ClaimSearchEvent, JudgeSearchEvent, SendSearchResult,
      FailSearchResult, CloseSearchResult, FinishDelivery, TimePasses, OpenJournal,
      WorkerDies, NoNotification, BotOpenCase, BotEnqueue, BotCloseForm, BotResumeEnqueue,
      BotSubscribe, BotIssue, WorkerClaim, WorkerLoad, WorkerCheckStart, WorkerDrop,
      WorkerCheckLive, WorkerCrawl, WorkerCheckAfter, WorkerMatch, WorkerError, WorkerSettle,
      WorkerList, WorkerDelivered, WorkerCrash, workflowVars
<1>10. WorldAlone => UNCHANGED ops /\ (UNCHANGED day \/ ops.step # "match")
  BY Zenon
  DEF WorldAlone, NoNotification, Customer, BotSaveLead, BotPause, BotResume,
      AdviserMovesStage, BotEnqueueFails, BotAborts, BotCrash, WorkerInterrupt,
      MidnightBetweenNotices
<1>11. (\E l \in Leads : DailyOff(l)) \/ JudgeDaily \/ SendDaily =>
         UNCHANGED ops /\ UNCHANGED day
  BY Zenon DEF DailyOff, JudgeDaily, SendDaily, workflowVars
<1>12. UNCHANGED deliveryVars => UNCHANGED ops /\ UNCHANGED day
  BY DEF deliveryVars, workflowVars
<1> QED
  BY <1>1, <1>2, <1>3, <1>4, <1>5, <1>6, <1>7, <1>8, <1>9, <1>10, <1>11, <1>12, Zenon
  DEF DeliveryNext, OpsMoves

\* Whatever happens between the two transactions of prepare_daily, the search the
\* notice goes with is queued.
LEMMA MatchKept ==
    ASSUME DeliveryInv, [DeliveryNext]_deliveryVars
    PROVE  MatchFollowsSearch'
<1>1. CASE QueueDaily
  <2>1. PICK sub \in Grant :
           /\ ops'.sub = sub
           /\ [lead |-> sub.lead, crit |-> sub.fp, key |-> DailyKey] \in Request
           /\ Enqueue([lead |-> sub.lead, crit |-> sub.fp, key |-> DailyKey])
           /\ UNCHANGED day
    BY <1>1, QueueDailyRequests
  <2> DEFINE r == [lead |-> sub.lead, crit |-> sub.fp, key |-> DailyKey]
  <2>2. r.lead = sub.lead /\ r.crit = sub.fp /\ r.key = DailyKey
    OBVIOUS
  <2>3. r \in Request /\ Enqueue(r)
    BY <2>1
  <2> HIDE DEF r
  <2>4. JobsTypeOK
    BY DEF DeliveryInv, WorkflowInv, WorkflowTypeOK
  <2>5. /\ DedupKey(jobs'[EnqueuedId(r)]) = <<r.lead, day, r.crit, r.key>>
        /\ EnqueuedId(r) \in DOMAIN jobs'
    BY <2>1, <2>3, <2>4, EnqueueFindsRequest, EnqueueKeeps
  <2> QED BY <2>1, <2>2, <2>5 DEF MatchFollowsSearch, DedupKey
<1>2. CASE ops'.step = "match" /\ UNCHANGED ops /\ UNCHANGED day
  <2>1. PICK i \in DOMAIN jobs :
           DedupKey(jobs[i]) = <<ops.sub.lead, day, ops.sub.fp, DailyKey>>
    BY <1>2 DEF DeliveryInv, MatchFollowsSearch
  <2>2. i \in DOMAIN jobs' /\ DedupKey(jobs'[i]) = DedupKey(jobs[i])
    BY <2>1, RowsKept
  <2>3. ops.sub \in Grant
    BY <1>2 DEF DeliveryInv, MatchFollowsSearch
  <2> QED BY <1>2, <2>1, <2>2, <2>3 DEF MatchFollowsSearch, DedupKey
<1>3. CASE ops'.step # "match"
  BY <1>3 DEF MatchFollowsSearch
<1> QED BY <1>1, <1>2, <1>3, OpsSteps

-----------------------------------------------------------------------------
(***************************************************************************)
(* The worker.                                                             *)
(***************************************************************************)
\* Steps of the bot, of operations and of the world: nothing of the worker changes.
WorkerRests == /\ UNCHANGED <<worker, todo, told>>
               /\ scopes'[Worker] = scopes[Worker]

\* Steps of run_job outside deliver_search_result.
WorkerRuns ==
    /\ WorkerAlone \/ WorkerInterrupt
    /\ UNCHANGED <<todo, told, scopes>>

\* Worker and operations serve in scopes of their own.
LEMMA ScopesApart ==
    ASSUME DeliveryInv, NEW s \in Senders, NEW t \in Senders, s # t,
           \/ \E k \in Keys : ClaimEvent(s, k) \/ ClaimTooLate(s, k)
           \/ Accept(s) \/ Refuse(s) \/ Send(s) \/ SendNothing(s)
           \/ CloseScope(s) \/ AbandonScope(s)
    PROVE  scopes'[t] = scopes[t]
<1>1. scopes \in [Senders -> [step: ScopeSteps, key: Keys \cup {NoKeyHeld}]]
  BY DEF DeliveryInv, DeliveryTypeOK, JournalTypeOK
<1>2. \/ UNCHANGED scopes
      \/ \E new : scopes' = [scopes EXCEPT ![s] = new]
  BY Zenon DEF ClaimEvent, ClaimTooLate, Accept, Refuse, Send, SendNothing, CloseScope,
     AbandonScope, ScopeGoes, LeaveScope
<1> QED BY <1>1, <1>2

\* Every step is one of the worker, or leaves it alone.
LEMMA WorkerStepsApart ==
    ASSUME DeliveryInv, [DeliveryNext]_deliveryVars
    PROVE  \/ WorkerRests \/ WorkerRuns \/ ListSearchEvents \/ ClaimSearchEvent
           \/ JudgeSearchEvent \/ SendSearchResult \/ FailSearchResult
           \/ CloseSearchResult \/ FinishDelivery \/ WorkerDies
<1> USE TwoSenders DEF WorkerRests
<1>1. BotMoves => WorkerRests
  BY Zenon
  DEF BotMoves, BotAlone, SubscribeCustomer, IssueSearchEvent, NoNotification,
      JournalUntouched, journalVars, Grants, IssueEvent, Sweep, BotOpenCase, BotEnqueue,
      BotCloseForm, BotResumeEnqueue, BotSubscribe, BotIssue
<1>2. WorkerAlone => WorkerRuns
  BY Zenon DEF WorkerAlone, WorkerRuns, NoNotification, JournalUntouched, journalVars
<1>3. WorldAlone => WorkerRests \/ WorkerRuns
  BY Zenon
  DEF WorldAlone, WorkerRuns, NoNotification, JournalUntouched, journalVars, Customer,
      BotSaveLead, BotPause, BotResume, AdviserMovesStage, BotEnqueueFails, BotAborts,
      BotCrash, MidnightBetweenNotices, Midnight
<1>4. TimePasses \/ OpenJournal \/ (\E l \in Leads : DailyOff(l)) => WorkerRests
  BY Zenon DEF TimePasses, JournalElapse, OpenJournal, DailyOff, Sweep, workflowVars
<1>5. BeginTick \/ SkipDaily \/ QueueDaily \/ IssueDaily \/ ListDaily \/ EndTick => WorkerRests
  BY Zenon
  DEF BeginTick, SkipDaily, QueueDaily, IssueDaily, ListDaily, EndTick, Sweep,
      JournalUntouched, journalVars, workflowVars, Grants, IssueEvent
<1>6. ASSUME ClaimDaily \/ JudgeDaily \/ SendDaily \/ CloseDaily \/ OpsDies PROVE WorkerRests
  <2>1. UNCHANGED <<worker, todo, told>>
    BY <1>6, Zenon DEF ClaimDaily, JudgeDaily, SendDaily, CloseDaily, OpsDies, workflowVars
  <2>2. ops.list \subseteq Keys
    BY EventKeys DEF DeliveryInv, DeliveryTypeOK, DailyEvents
  <2>3. \/ UNCHANGED scopes
        \/ \E k \in Keys : ClaimEvent(Operations, k) \/ ClaimTooLate(Operations, k)
        \/ Accept(Operations) \/ Refuse(Operations)
        \/ Send(Operations) \/ SendNothing(Operations)
        \/ CloseScope(Operations) \/ AbandonScope(Operations)
    BY <1>6, <2>2, Zenon DEF ClaimDaily, JudgeDaily, SendDaily, CloseDaily, OpsDies, journalVars
  <2>4. scopes'[Worker] = scopes[Worker]
    BY <2>3, ScopesApart
  <2> QED BY <2>1, <2>4, Zenon
<1>7. UNCHANGED deliveryVars => WorkerRests
  BY Zenon DEF deliveryVars, workflowVars, journalVars
<1> QED
  BY <1>1, <1>2, <1>3, <1>4, <1>5, <1>6, <1>7, Zenon
  DEF DeliveryNext, WorkerMoves, OpsMoves

\* Outside deliver_search_result the worker keeps to its job or takes a new one.
LEMMA WorkerRunsOn ==
    ASSUME DeliveryInv, [DeliveryNext]_deliveryVars, WorkerRuns
    PROVE  /\ worker.step # "delivering" /\ worker'.step # "delivering"
           /\ worker'.step # "idle" => worker'.job \in DOMAIN jobs
           /\ worker'.step = "deliver" =>
                 \/ WorkerInterrupt
                 \/ WorkerSettle /\ worker.step = "settle" /\ worker'.job = worker.job
<1> USE DEF WorkerGoes, WorkerRules, WorkerAt
<1>1. /\ worker.step # "idle" => worker.job \in DOMAIN jobs
        /\ worker \in [step: WorkerSteps, job: Nat, crit: Criteria \cup {NoCriteria},
                     closed: BOOLEAN, verdict: JobStates]
  BY DEF DeliveryInv, WorkerServesItsJob, WorkflowInv, WorkflowTypeOK
<1>2. CASE WorkerClaim
  BY <1>2 DEF WorkerClaim
<1>3. CASE WorkerLoad \/ WorkerCheckStart \/ WorkerCrawl \/ WorkerError
  BY <1>1, <1>3 DEF WorkerLoad, WorkerCheckStart, WorkerCrawl, WorkerError, TrySteps
<1>4. CASE WorkerCheckLive \/ WorkerCheckAfter \/ WorkerMatch
  BY <1>1, <1>4 DEF WorkerCheckLive, WorkerCheckAfter, WorkerMatch
<1>5. CASE WorkerDrop
  BY <1>1, <1>5 DEF WorkerDrop, IdleWorker
<1>6. CASE WorkerSettle \/ WorkerInterrupt
  BY <1>1, <1>6 DEF WorkerSettle, WorkerInterrupt, TrySteps
<1> QED BY <1>2, <1>3, <1>4, <1>5, <1>6 DEF WorkerRuns, WorkerAlone

\* The worker's scope and its list are those of the job in hand.
LEMMA WorkerKept ==
    ASSUME DeliveryInv, [DeliveryNext]_deliveryVars
    PROVE  WorkerServesItsJob'
<1>0. /\ WorkerServesItsJob /\ DOMAIN jobs \subseteq DOMAIN jobs'
      /\ Worker \in Senders
      /\ scopes \in [Senders -> [step: ScopeSteps, key: Keys \cup {NoKeyHeld}]]
  BY RowsKept, TwoSenders DEF DeliveryInv, DeliveryTypeOK, JournalTypeOK
<1> USE DEF WorkerServesItsJob, Held
<1>1. CASE WorkerRests
  BY <1>0, <1>1 DEF WorkerRests
<1>2. CASE WorkerRuns
  BY <1>0, <1>2, WorkerRunsOn DEF WorkerRuns
<1>3. CASE ListSearchEvents
  <2>1. /\ worker.step = "deliver" /\ worker'.step = "delivering" /\ worker'.job = worker.job
        /\ UNCHANGED scopes
    BY <1>3 DEF ListSearchEvents, WorkerList, WorkerGoes, WorkerAt, Sweep
  <2>2. todo' \subseteq {SearchEvent(worker.job)}
    BY <1>3, Zenon DEF ListSearchEvents
  <2> QED BY <1>0, <2>1, <2>2
<1>4. CASE ClaimSearchEvent
  <2>1. PICK k \in todo :
           /\ \/ ClaimEvent(Worker, k) \/ ClaimTooLate(Worker, k)
              \/ events[k].state # "pending" /\ UNCHANGED journalVars
           /\ todo' = todo \ {k}
    BY <1>4 DEF ClaimSearchEvent
  <2>2. k = SearchEvent(worker.job) /\ worker.step = "delivering" /\ UNCHANGED worker
    BY <1>0, <1>4, <2>1 DEF ClaimSearchEvent, Serving, workflowVars
  <2>3. \/ UNCHANGED scopes
        \/ scopes' = [scopes EXCEPT ![Worker] = [step |-> "claimed", key |-> k]]
    BY <2>1 DEF ClaimEvent, ClaimTooLate, journalVars
  <2> QED BY <1>0, <2>1, <2>2, <2>3
<1>5. CASE JudgeSearchEvent \/ SendSearchResult \/ FailSearchResult
  <2>1. UNCHANGED <<worker, todo>> /\ worker.step = "delivering"
    BY <1>5, Zenon
    DEF JudgeSearchEvent, SendSearchResult, FailSearchResult, Serving, workflowVars
  <2>2. \/ scopes' = [scopes EXCEPT ![Worker] = IdleScope]
        \/ \E step : scopes' = [scopes EXCEPT ![Worker] = [step |-> step, key |-> Held(Worker)]]
    BY <1>5, Zenon
    DEF JudgeSearchEvent, SendSearchResult, FailSearchResult, Accept, Refuse, Send,
        SendNothing, ScopeGoes, LeaveScope, Held
  <2>3. scopes[Worker].step # "idle"
    BY <1>5
    DEF JudgeSearchEvent, SendSearchResult, FailSearchResult, Send, SendNothing
  <2> QED BY <1>0, <2>1, <2>2, <2>3 DEF IdleScope
<1>6. CASE CloseSearchResult
  <2>1. /\ UNCHANGED worker /\ worker.step = "delivering" /\ todo' \subseteq todo
        /\ scopes' = [scopes EXCEPT ![Worker] = IdleScope]
    BY <1>6 DEF CloseSearchResult, Serving, workflowVars, CloseScope, LeaveScope
  <2> QED BY <1>0, <2>1 DEF IdleScope
<1>7. CASE FinishDelivery
  BY <1>0, <1>7 DEF FinishDelivery, WorkerDelivered, IdleWorker, journalVars
<1>8. CASE WorkerDies
  <2>1. /\ worker' = IdleWorker /\ todo' = {}
        /\ \/ scopes[Worker].step = "idle" /\ UNCHANGED scopes
           \/ scopes' = [scopes EXCEPT ![Worker] = IdleScope]
    BY <1>8 DEF WorkerDies, WorkerCrash, AbandonScope, LeaveScope, journalVars
  <2> QED BY <1>0, <2>1 DEF IdleWorker, IdleScope
<1> QED
  BY <1>1, <1>2, <1>3, <1>4, <1>5, <1>6, <1>7, <1>8, WorkerStepsApart

\* Only a search result tells a state: that of the job in hand, a confirmed one.
LEMMA ToldSteps ==
    ASSUME DeliveryInv, [DeliveryNext]_deliveryVars
    PROVE  \/ UNCHANGED told
           \/ /\ worker.step = "delivering"
              /\ worker.job \in DOMAIN jobs /\ worker.job \in 1..MaxJobs
              /\ OfConfirmation(HeldJob)
              /\ told' = [told EXCEPT ![SearchEvent(worker.job)] = HeldJob.state]
              /\ UNCHANGED <<jobs, crawled, faults>>
<1>1. CASE SendSearchResult
  <2>1. /\ scopes[Worker].step # "idle"
        /\ told' = [told EXCEPT ![Held(Worker)] = HeldJob.state]
        /\ UNCHANGED <<jobs, crawled, faults>>
    BY <1>1 DEF SendSearchResult, Send, workflowVars
  <2>2. /\ worker.step = "delivering" /\ Held(Worker) = SearchEvent(worker.job)
        /\ worker.job \in DOMAIN jobs
    BY <2>1 DEF DeliveryInv, WorkerServesItsJob
  <2>3. worker.job \in 1..MaxJobs
    BY <2>2, TableIsFunction, JobsAssumption
    DEF DeliveryInv, WorkflowInv, WorkflowTypeOK, JobsTypeOK
  <2>4. events[SearchEvent(worker.job)].state # "absent"
    BY <2>1, <2>2, TwoSenders DEF DeliveryInv, JournalInv, ScopesHoldClaims, Open
  <2>5. OfConfirmation(HeldJob)
    BY <2>3, <2>4 DEF DeliveryInv, GrantMatchesJob, OfConfirmation, HeldJob
  <2> QED BY <2>1, <2>2, <2>3, <2>5
<1>2. \/ WorkerRests \/ WorkerRuns \/ ListSearchEvents \/ ClaimSearchEvent
      \/ JudgeSearchEvent \/ FailSearchResult \/ CloseSearchResult \/ FinishDelivery
      \/ WorkerDies
      => UNCHANGED told
  BY Zenon
  DEF WorkerRests, WorkerRuns, ListSearchEvents, ClaimSearchEvent, JudgeSearchEvent,
      FailSearchResult, CloseSearchResult, FinishDelivery, WorkerDies
<1> QED BY <1>1, <1>2, WorkerStepsApart

\* What was told stays true, and was true of a live search when it was told.
LEMMA AnswersKeptLive ==
    ASSUME DeliveryInv, [DeliveryNext]_deliveryVars
    PROVE  TheAnswerIsLive' /\ EventsHaveRows'
<1>0. told \in [Keys -> JobStates \cup {Nothing}]
  BY DEF DeliveryInv, DeliveryTypeOK
<1>1. ASSUME NEW i \in 1..MaxJobs
      PROVE  /\ told'[SearchEvent(i)] \in Answered =>
                    i \in crawled' /\ jobs'[i].state = told'[SearchEvent(i)]
             /\ told'[SearchEvent(i)] # Nothing => i \in DOMAIN jobs'
  <2> DEFINE k == SearchEvent(i)
  <2>1. k \in Keys /\ DOMAIN jobs \subseteq DOMAIN jobs'
    BY EventKeys, RowsKept
  <2>2. CASE told'[k] = told[k]
    <3>1. /\ told[k] # Nothing => i \in DOMAIN jobs
          /\ told[k] \in Answered => i \in crawled /\ jobs[i].state = told[k]
      BY DEF DeliveryInv, EventsHaveRows, TheAnswerIsLive
    <3>2. told[k] \in Answered => told[k] # Nothing
      BY NothingIsNothing DEF Answered, JobStates
    <3> QED BY <2>1, <2>2, <3>1, <3>2, RowsKept
  <2>3. CASE told'[k] # told[k]
    <3>1. /\ worker.job = i /\ i \in DOMAIN jobs
          /\ told'[k] = jobs[i].state /\ UNCHANGED <<jobs, crawled>>
      BY <1>0, <2>1, <2>3, ToldSteps, EventKeys DEF HeldJob
    <3>2. jobs[i].state \in Answered => i \in crawled
      BY <3>1 DEF DeliveryInv, WorkflowInv, JobsInv, AnswerFollowsLiveCrawl
    <3> QED BY <3>1, <3>2
  <2> QED BY <2>2, <2>3
<1>2. ASSUME NEW i \in 1..MaxJobs, events'[SearchEvent(i)].state # "absent"
      PROVE  i \in DOMAIN jobs'
  BY <1>2, GrantsKept, RowsKept
<1> QED BY <1>1, <1>2 DEF TheAnswerIsLive, EventsHaveRows

-----------------------------------------------------------------------------
(***************************************************************************)
(* The bot.                                                                *)
(***************************************************************************)
\* Steps of the worker, of operations and of the world: the handler's request, the
\* lead's need and the subscription it goes with are left alone.
BotRests ==
    /\ UNCHANGED <<bot, handled>>
    /\ \A l \in Leads : crm'[l].crit = crm[l].crit
    /\ \A l \in Leads : subs[l] # Nothing =>
          subs'[l] # Nothing /\ subs'[l].fp = subs[l].fp

\* Every step is one of the handler, or leaves what it works on alone.
LEMMA BotStepsApart ==
    ASSUME DeliveryInv, [DeliveryNext]_deliveryVars
    PROVE  \/ BotRests
           \/ BotAlone \/ SubscribeCustomer \/ IssueSearchEvent
           \/ Customer \/ BotEnqueueFails \/ BotAborts \/ BotCrash
<1>0. /\ subs \in [Leads -> [fp: Criteria, enabled: BOOLEAN] \cup {Nothing}]
      /\ CrmTypeOK
  BY DEF DeliveryInv, DeliveryTypeOK, WorkflowTypeOK
<1>1. UNCHANGED <<bot, handled, crm, subs>> => BotRests
  BY DEF BotRests
<1>2. \/ WorkerAlone
      \/ (WorkerInterrupt \/ MidnightBetweenNotices) /\ NoNotification
      => UNCHANGED <<bot, handled, crm, subs>>
  BY Zenon
  DEF WorkerAlone, WorkerInterrupt, MidnightBetweenNotices, Midnight, NoNotification,
      WorkerClaim, WorkerLoad, WorkerCheckStart, WorkerDrop, WorkerCheckLive, WorkerCrawl,
      WorkerCheckAfter, WorkerMatch, WorkerError, WorkerSettle
<1>3. \/ ListSearchEvents \/ ClaimSearchEvent \/ JudgeSearchEvent \/ SendSearchResult
      \/ FailSearchResult \/ CloseSearchResult \/ FinishDelivery \/ WorkerDies
      => UNCHANGED <<bot, handled, crm, subs>>
  BY Zenon
  DEF ListSearchEvents, ClaimSearchEvent, JudgeSearchEvent, SendSearchResult,
      FailSearchResult, CloseSearchResult, FinishDelivery, WorkerDies, WorkerList,
      WorkerDelivered, WorkerCrash, workflowVars
<1>4. OpsMoves \/ OpsDies \/ TimePasses \/ OpenJournal => UNCHANGED <<bot, handled, crm, subs>>
  BY Zenon
  DEF OpsMoves, BeginTick, SkipDaily, QueueDaily, IssueDaily, ListDaily, ClaimDaily,
      JudgeDaily, SendDaily, CloseDaily, EndTick, OpsDies, TimePasses, OpenJournal,
      workflowVars
<1>5. ASSUME NEW l \in Leads, AdviserMovesStage(l), NoNotification PROVE BotRests
  <2>1. UNCHANGED <<bot, handled, subs>>
    BY <1>5, Zenon DEF AdviserMovesStage, NoNotification
  <2>2. \A x \in Leads : crm'[x].crit = crm[x].crit
    BY <1>0, <1>5, CommitsKeepNeed DEF AdviserMovesStage
  <2> QED BY <2>1, <2>2 DEF BotRests
<1>6. ASSUME NEW l \in Leads, DailyOff(l) PROVE BotRests
  <2>1. UNCHANGED <<bot, handled, crm>>
    BY <1>6, Zenon DEF DailyOff, workflowVars
  <2>2. subs[l] # Nothing /\ subs' = [subs EXCEPT ![l].enabled = FALSE]
    BY <1>6, Zenon DEF DailyOff
  <2>3. subs[l] \in [fp: Criteria, enabled: BOOLEAN]
    BY <1>0, <2>2
  <2>4. subs'[l].fp = subs[l].fp /\ subs'[l] \in [fp: Criteria, enabled: BOOLEAN]
    BY <1>0, <2>2, <2>3, Zenon
  <2>5. \A x \in Leads : x # l => subs'[x] = subs[x]
    BY <1>0, <2>2, Zenon
  <2> QED BY <2>1, <2>4, <2>5, NothingIsNothing DEF BotRests
<1>7. UNCHANGED deliveryVars => UNCHANGED <<bot, handled, crm, subs>>
  BY Zenon DEF deliveryVars, workflowVars
<1>8. WorldAlone => BotRests \/ Customer \/ BotEnqueueFails \/ BotAborts \/ BotCrash
  BY <1>1, <1>2, <1>5 DEF WorldAlone
<1> QED
  BY <1>1, <1>2, <1>3, <1>4, <1>6, <1>7, <1>8 DEF DeliveryNext, BotMoves, WorkerMoves

\* A request is what its three columns say.
LEMMA RequestColumns ==
    ASSUME NEW r \in Request, NEW j, NEW d,
           DedupKey(j) = <<r.lead, d, r.crit, r.key>>
    PROVE  RequestOf(j) = r
BY DEF DedupKey, RequestOf, Request

\* The handler's request is one, and its lead's row has the need confirmed.
LEMMA HandlersRequest ==
    ASSUME DeliveryInv
    PROVE  /\ bot.step \in ConfirmingSteps =>
                 /\ bot.req \in Confirmations /\ bot.req \in Request
                 /\ bot.req.lead \in Leads /\ bot.req.key \notin {NoKey, DailyKey}
                 /\ crm[bot.req.lead].crit = bot.req.crit
           /\ bot.step = "resumed" => bot.req \in Request /\ bot.req.key = NoKey
<1>1. /\ bot.step \in ConfirmingSteps => bot.req \in Confirmations
      /\ bot.step = "resumed" => bot.req \in Request
  BY DEF DeliveryInv, WorkflowInv, BotHasRequest
<1>2. \A m \in Confirmations : m \in Request /\ m.lead \in Leads /\ m.key \notin {NoKey, DailyKey}
  BY ConfirmationsAreRequests, WorkflowAssumption, DeliveryAssumption DEF Request
<1> QED BY <1>1, <1>2 DEF DeliveryInv, BotFollowsRequest

\* From one transaction of the handler to the next, nobody changes what it carries.
LEMMA BotKept ==
    ASSUME DeliveryInv, [DeliveryNext]_deliveryVars
    PROVE  BotFollowsRequest'
<1>0. /\ BotFollowsRequest /\ CrmTypeOK /\ JobsTypeOK
      /\ bot \in [step: BotSteps, req: Request \cup {NoRequest}, job: Nat]
      /\ subs \in [Leads -> [fp: Criteria, enabled: BOOLEAN] \cup {Nothing}]
  BY DEF DeliveryInv, DeliveryTypeOK, WorkflowTypeOK
<1>1. \A i \in DOMAIN jobs : i \in DOMAIN jobs' /\ RequestOf(jobs'[i]) = RequestOf(jobs[i])
  BY RowsKept, SameRequestSameColumns
<1> USE DEF BotFollowsRequest, ConfirmingSteps
<1>2. CASE BotRests
  BY <1>0, <1>1, <1>2, HandlersRequest DEF BotRests
<1>3. ASSUME NEW m \in Confirmations, BotSaveLead(m)
      PROVE  BotFollowsRequest'
  <2>1. bot' = [step |-> "saved", req |-> m, job |-> 0] /\ SaveLead(m.lead, m.crit)
    BY <1>3 DEF BotSaveLead
  <2>2. m.lead \in Leads
    BY WorkflowAssumption
  <2>3. crm' = [crm EXCEPT ![m.lead] = [crm[m.lead] EXCEPT !.crit = m.crit]]
    BY <2>1, Zenon DEF SaveLead, SetRow
  <2>4. crm'[m.lead].crit = m.crit
    BY <1>0, <2>2, <2>3, Zenon DEF CrmTypeOK, LeadRow
  <2>5. bot'.step = "saved" /\ bot'.req = m /\ bot'.job = 0
    BY <2>1
  <2> QED BY <2>4, <2>5
<1>4. ASSUME NEW l \in Leads, BotPause(l) \/ BotResume(l)
      PROVE  BotFollowsRequest'
  BY <1>0, <1>4 DEF BotPause, BotResume
<1>5. CASE BotOpenCase
  <2>1. \A x \in Leads : crm'[x].crit = crm[x].crit
    BY <1>0, <1>5, HandlersRequest, CommitsKeepNeed DEF BotOpenCase
  <2>2. bot.step = "saved" /\ bot'.step = "opened" /\ bot'.req = bot.req /\ bot'.job = bot.job
    BY <1>0, <1>5 DEF BotOpenCase, BotGoes
  <2> QED BY <1>0, <2>1, <2>2, HandlersRequest
<1>6. CASE BotEnqueue
  <2>1. /\ bot.step = "opened" /\ Enqueue(bot.req) /\ UNCHANGED <<day, crm>>
        /\ bot'.step = "enqueued" /\ bot'.req = bot.req /\ bot'.job = EnqueuedId(bot.req)
    BY <1>6 DEF BotEnqueue
  <2>2. bot.req \in Request
    BY <2>1, HandlersRequest
  <2>3. /\ EnqueuedId(bot.req) \in DOMAIN jobs'
        /\ RequestOf(jobs'[EnqueuedId(bot.req)]) = bot.req
    BY <1>0, <2>1, <2>2, EnqueueKeeps, EnqueueFindsRequest, RequestColumns
  <2> QED BY <1>0, <2>1, <2>3
<1>7. CASE BotCloseForm \/ BotEnqueueFails
  BY <1>0, <1>7 DEF BotCloseForm, BotEnqueueFails, BotGoes
<1>8. CASE SubscribeCustomer
  <2>1. /\ bot.step = "formClosed" /\ bot'.step = "subscribed" /\ bot'.req = bot.req
        /\ bot'.job = bot.job /\ UNCHANGED <<jobs, crm>>
    BY <1>0, <1>8 DEF SubscribeCustomer, BotSubscribe, BotGoes
  <2> DEFINE new == [fp |-> crm[bot.req.lead].crit, enabled |-> TRUE]
  <2>2. subs' = [subs EXCEPT ![bot.req.lead] = new]
    BY <1>8 DEF SubscribeCustomer
  <2>3. /\ bot.req.lead \in Leads /\ bot.req \in Request
        /\ crm[bot.req.lead].crit = bot.req.crit
    BY <2>1, HandlersRequest
  <2>4. new.fp = bot.req.crit /\ new \in [fp: Criteria, enabled: BOOLEAN]
    BY <2>3 DEF Request
  <2> HIDE DEF new
  <2>5. subs'[bot.req.lead] = new
    BY <1>0, <2>2, <2>3
  <2>6. new # Nothing
    BY <2>4, NothingIsNothing
  <2> QED BY <1>0, <2>1, <2>3, <2>4, <2>5, <2>6
<1>9. CASE IssueSearchEvent \/ BotResumeEnqueue \/ BotAborts \/ BotCrash
  <2>1. bot' = IdleBot
    BY <1>9 DEF IssueSearchEvent, BotIssue, BotResumeEnqueue, BotAborts, BotCrash
  <2> QED BY <2>1 DEF IdleBot
<1> QED
  BY <1>2, <1>3, <1>4, <1>5, <1>6, <1>7, <1>8, <1>9, BotStepsApart DEF BotAlone, Customer

-----------------------------------------------------------------------------
(***************************************************************************)
(* Without faults.                                                         *)
(***************************************************************************)
\* A fault is never forgotten.
LEMMA FaultsAreCounted ==
    ASSUME DeliveryInv, [DeliveryNext]_deliveryVars, faults' = 0
    PROVE  /\ faults = 0
           /\ ~Fault
<1>1. faults \in Nat
  BY WorkflowAssumption DEF DeliveryInv, WorkflowInv, WorkflowTypeOK
<1>2. ~Fault
  BY <1>1 DEF Fault
<1>3. UNCHANGED faults \/ Fault
  <2>1. [WorkflowNext]_workflowVars => UNCHANGED faults \/ Fault
    BY Zenon
    DEF WorkflowNext, Customer, BotStep, WorkerStep, BotSaveLead, BotPause, BotResume,
        BotOpenCase, BotEnqueue, BotCloseForm, BotSubscribe, BotIssue, BotResumeEnqueue,
        WorkerClaim, WorkerLoad, WorkerCheckStart, WorkerDrop, WorkerCheckLive,
        WorkerCrawl, WorkerCheckAfter, WorkerMatch, WorkerError, WorkerSettle, WorkerList,
        WorkerDelivered, AdviserMovesStage, BotEnqueueFails, BotAborts, BotCrash,
        WorkerInterrupt, WorkerCrash, Elapse, Midnight, workflowVars
  <2>2. QueueDaily => UNCHANGED faults
    BY Zenon DEF QueueDaily
  <2> QED BY <2>1, <2>2, StepsOfWorkflow
<1> QED BY <1>1, <1>2, <1>3

\* Nothing restarts a confirmed job while its result is delivered.
LEMMA DeliveredJobRests ==
    ASSUME DeliveryInv, [DeliveryNext]_deliveryVars, ConfirmedOnce, ~Fault,
           worker.step \in {"deliver", "delivering"},
           worker.job \in DOMAIN jobs, OfConfirmation(HeldJob)
    PROVE  jobs'[worker.job].state = HeldJob.state
<1>0. JobsTypeOK
  BY DEF DeliveryInv, WorkflowInv, WorkflowTypeOK
<1> USE DEF HeldJob
<1>1. ASSUME NEW r \in Request, Enqueue(r), UNCHANGED day, r # RequestOf(HeldJob)
      PROVE  jobs'[worker.job].state = HeldJob.state
  BY <1>0, <1>1, EnqueueFindsRequest, RequestColumns
<1>2. CASE BotEnqueue
  <2>1. bot.step = "opened" /\ Enqueue(bot.req) /\ UNCHANGED day /\ bot.req \in Request
    BY <1>2, HandlersRequest DEF BotEnqueue, ConfirmingSteps
  <2>2. bot.req \notin handled /\ RequestOf(HeldJob) \in handled
    BY <2>1 DEF ConfirmedOnce
  <2> QED BY <1>1, <2>1, <2>2
<1>3. CASE BotResumeEnqueue
  <2>1. Enqueue(bot.req) /\ UNCHANGED day /\ bot.req \in Request /\ bot.req.key = NoKey
    BY <1>3, HandlersRequest DEF BotResumeEnqueue
  <2>2. bot.req # RequestOf(HeldJob)
    BY <2>1 DEF RequestOf, OfConfirmation
  <2> QED BY <1>1, <2>1, <2>2
<1>4. CASE QueueDaily
  <2>1. PICK sub \in Grant :
           /\ [lead |-> sub.lead, crit |-> sub.fp, key |-> DailyKey] \in Request
           /\ Enqueue([lead |-> sub.lead, crit |-> sub.fp, key |-> DailyKey])
           /\ UNCHANGED day
    BY <1>4, QueueDailyRequests
  <2>2. [lead |-> sub.lead, crit |-> sub.fp, key |-> DailyKey] # RequestOf(HeldJob)
    BY DEF RequestOf, OfConfirmation
  <2> QED BY <1>1, <2>1, <2>2
<1>5. ~(WorkerClaim \/ WorkerDrop \/ WorkerCrawl \/ WorkerSettle)
  BY DEF WorkerClaim, WorkerDrop, WorkerCrawl, WorkerSettle
<1>6. CASE Elapse
  BY <1>0, <1>6, ElapseKeeps DEF Elapse
<1>7. CASE UNCHANGED jobs
  BY <1>7
<1> QED BY <1>2, <1>3, <1>4, <1>5, <1>6, <1>7, QueueSteps, StepsOfWorkflow

\* A confirmation is handled once, and its job is not started again behind the
\* worker's back.
LEMMA ConfirmedOnceKept ==
    ASSUME DeliveryInv, [DeliveryNext]_deliveryVars, ConfirmedOnce, ~Fault
    PROVE  ConfirmedOnce'
<1>0. /\ JobsTypeOK /\ handled \subseteq Confirmations
      /\ bot \in [step: BotSteps, req: Request \cup {NoRequest}, job: Nat]
      /\ worker \in [step: WorkerSteps, job: Nat, crit: Criteria \cup {NoCriteria},
                     closed: BOOLEAN, verdict: JobStates]
  BY DEF DeliveryInv, WorkflowInv, WorkflowTypeOK
<1>1. \A i \in DOMAIN jobs :
         /\ i \in DOMAIN jobs' /\ RequestOf(jobs'[i]) = RequestOf(jobs[i])
         /\ OfConfirmation(jobs'[i]) <=> OfConfirmation(jobs[i])
  BY RowsKept, SameRequestSameColumns
<1>2. bot'.step \in {"saved", "opened", "enqueued"} => bot'.req \notin handled'
  <2> USE DEF ConfirmedOnce
  <2>1. CASE BotRests
    BY <2>1 DEF BotRests
  <2>2. CASE BotOpenCase \/ BotEnqueue
    BY <1>0, <2>2 DEF BotOpenCase, BotEnqueue, BotGoes
  <2>3. CASE BotCloseForm \/ SubscribeCustomer
    BY <1>0, <2>3 DEF BotCloseForm, SubscribeCustomer, BotSubscribe, BotGoes
  <2>4. CASE IssueSearchEvent \/ BotResumeEnqueue
    BY <2>4 DEF IssueSearchEvent, BotIssue, BotResumeEnqueue, IdleBot
  <2>5. CASE Customer
    BY <2>5 DEF Customer, BotSaveLead, BotPause, BotResume
  <2>6. ~(BotEnqueueFails \/ BotAborts \/ BotCrash)
    BY DEF BotEnqueueFails, BotAborts, BotCrash
  <2> QED BY <2>1, <2>2, <2>3, <2>4, <2>5, <2>6, BotStepsApart DEF BotAlone
<1>3. ASSUME NEW i \in DOMAIN jobs', OfConfirmation(jobs'[i])
      PROVE  \/ RequestOf(jobs'[i]) \in handled'
             \/ bot'.step = "enqueued" /\ RequestOf(jobs'[i]) = bot'.req
  <2>1. handled \subseteq handled'
    BY BotStepsApart, Zenon
    DEF BotRests, BotAlone, BotOpenCase, BotEnqueue, BotCloseForm, BotResumeEnqueue,
        SubscribeCustomer, BotSubscribe, IssueSearchEvent, BotIssue, Customer, BotSaveLead,
        BotPause, BotResume, BotEnqueueFails, BotAborts, BotCrash
  <2>2. ASSUME i \in DOMAIN jobs, bot.step = "enqueued", RequestOf(jobs'[i]) = bot.req
        PROVE  \/ RequestOf(jobs'[i]) \in handled'
               \/ bot'.step = "enqueued" /\ RequestOf(jobs'[i]) = bot'.req
    <3>1. CASE BotRests
      BY <2>2, <3>1 DEF BotRests
    <3>2. CASE BotCloseForm
      BY <2>2, <3>2 DEF BotCloseForm
    <3>3. ~(BotOpenCase \/ BotEnqueue \/ BotResumeEnqueue \/ SubscribeCustomer
            \/ IssueSearchEvent \/ Customer)
      BY <2>2 DEF BotOpenCase, BotEnqueue, BotResumeEnqueue, SubscribeCustomer, BotSubscribe,
         IssueSearchEvent, BotIssue, Customer, BotSaveLead, BotPause, BotResume, PauseSearch
    <3>4. ~(BotEnqueueFails \/ BotAborts \/ BotCrash)
      BY DEF BotEnqueueFails, BotAborts, BotCrash
    <3> QED BY <3>1, <3>2, <3>3, <3>4, BotStepsApart DEF BotAlone
  <2>3. CASE i \in DOMAIN jobs
    BY <1>1, <1>3, <2>1, <2>2, <2>3 DEF ConfirmedOnce
  <2>4. CASE i \notin DOMAIN jobs
    <3>1. CASE BotEnqueue
      <4>1. /\ bot.req \in Request /\ Enqueue(bot.req) /\ UNCHANGED day
            /\ bot'.step = "enqueued" /\ bot'.req = bot.req
        BY <3>1, HandlersRequest DEF BotEnqueue, ConfirmingSteps
      <4> QED BY <1>0, <2>4, <4>1, EnqueueFindsRequest, RequestColumns
    <3>2. CASE BotResumeEnqueue
      <4>1. /\ bot.req \in Request /\ Enqueue(bot.req) /\ UNCHANGED day
            /\ bot.req.key = NoKey
        BY <3>2, HandlersRequest DEF BotResumeEnqueue
      <4>2. DedupKey(jobs'[i]) = <<bot.req.lead, day, bot.req.crit, bot.req.key>>
        BY <1>0, <2>4, <4>1, EnqueueFindsRequest
      <4> QED BY <1>3, <4>1, <4>2 DEF DedupKey, OfConfirmation
    <3>3. CASE QueueDaily
      <4>1. PICK sub \in Grant :
               /\ [lead |-> sub.lead, crit |-> sub.fp, key |-> DailyKey] \in Request
               /\ Enqueue([lead |-> sub.lead, crit |-> sub.fp, key |-> DailyKey])
               /\ UNCHANGED day
        BY <3>3, QueueDailyRequests
      <4> DEFINE r == [lead |-> sub.lead, crit |-> sub.fp, key |-> DailyKey]
      <4>2. r.key = DailyKey
        OBVIOUS
      <4> HIDE DEF r
      <4>3. DedupKey(jobs'[i]) = <<r.lead, day, r.crit, r.key>>
        BY <1>0, <2>4, <4>1, EnqueueFindsRequest DEF r
      <4> QED BY <1>3, <4>2, <4>3 DEF DedupKey, OfConfirmation
    <3>4. CASE WorkerClaim
      BY <1>0, <2>4, <3>4, RowsKeepRequest DEF WorkerClaim
    <3>5. CASE WorkerDrop \/ WorkerCrawl \/ WorkerSettle
      BY <2>4, <3>5 DEF WorkerDrop, WorkerCrawl, WorkerSettle, Finish
    <3>6. CASE Elapse
      BY <1>0, <2>4, <3>6, RowsKeepRequest DEF Elapse
    <3>7. CASE UNCHANGED jobs
      BY <2>4, <3>7
    <3> QED BY <3>1, <3>2, <3>3, <3>4, <3>5, <3>6, <3>7, QueueSteps, StepsOfWorkflow
  <2> QED BY <2>3, <2>4
<1>4. ASSUME worker'.step \in {"deliver", "delivering"}, OfConfirmation(jobs'[worker'.job])
      PROVE  jobs'[worker'.job].state \notin {"queued", "running"}
  <2>1. ASSUME worker.step \in {"deliver", "delivering"}, worker'.job = worker.job
        PROVE  jobs'[worker'.job].state \notin {"queued", "running"}
    <3>1. worker.job \in DOMAIN jobs
      BY <2>1 DEF DeliveryInv, WorkerServesItsJob
    <3>2. OfConfirmation(HeldJob)
      BY <1>1, <1>4, <2>1, <3>1 DEF HeldJob
    <3>3. HeldJob.state \notin {"queued", "running"}
      BY <2>1, <3>2 DEF ConfirmedOnce
    <3> QED BY <2>1, <3>1, <3>2, <3>3, DeliveredJobRests
  <2>2. CASE WorkerRests
    BY <1>4, <2>1, <2>2 DEF WorkerRests
  <2>3. CASE WorkerRuns
    <3>1. WorkerSettle /\ worker.step = "settle" /\ worker'.job = worker.job
      BY <1>4, <2>3, WorkerRunsOn DEF WorkerInterrupt
    <3>2. worker.job \in DOMAIN jobs /\ worker.verdict \notin {"queued", "running"}
      BY <3>1 DEF DeliveryInv, WorkerServesItsJob, WorkflowInv, JobsInv, CrawlPrecedesVerdict
    <3>3. jobs'[worker.job].state = worker.verdict
      BY <1>0, <3>1, <3>2, FinishKeeps DEF WorkerSettle
    <3> QED BY <3>1, <3>2, <3>3
  <2>4. CASE ListSearchEvents
    BY <2>1, <2>4 DEF ListSearchEvents, WorkerList, WorkerGoes, WorkerAt
  <2>5. CASE \/ ClaimSearchEvent \/ JudgeSearchEvent \/ SendSearchResult
             \/ FailSearchResult \/ CloseSearchResult
    <3>1. UNCHANGED worker
      BY <2>5, Zenon DEF ClaimSearchEvent, JudgeSearchEvent, SendSearchResult,
         FailSearchResult, CloseSearchResult, workflowVars
    <3> QED BY <1>4, <2>1, <3>1
  <2>6. CASE FinishDelivery \/ WorkerDies
    <3>1. worker' = IdleWorker
      BY <2>6, Zenon DEF FinishDelivery, WorkerDelivered, WorkerDies, WorkerCrash
    <3> QED BY <1>4, <3>1 DEF IdleWorker
  <2> QED BY <2>2, <2>3, <2>4, <2>5, <2>6, WorkerStepsApart
<1> QED BY <1>2, <1>3, <1>4 DEF ConfirmedOnce, HeldJob

-----------------------------------------------------------------------------
(***************************************************************************)
(* The theorems.                                                           *)
(***************************************************************************)
\* The bot, the worker and operations start on empty tables.
LEMMA DeliveryInvInit == DeliveryInit => DeliveryInv
<1> SUFFICES ASSUME DeliveryInit PROVE DeliveryInv
  OBVIOUS
<1>1. WorkflowInv /\ JournalInv
  BY WorkflowInvInit, JournalInvInit DEF DeliveryInit
<1>2. /\ subs \in [Leads -> [fp: Criteria, enabled: BOOLEAN] \cup {Nothing}]
      /\ grants \in [Keys -> Grant \cup {Nothing}] /\ todo \subseteq SearchEvents
      /\ told \in [Keys -> JobStates \cup {Nothing}]
  BY DEF DeliveryInit
<1>3. ops \in OpsRecord /\ ops.step = "idle"
  BY DEF DeliveryInit, IdleOps, OpsRecord
<1>4. DeliveryTypeOK
  BY <1>1, <1>2, <1>3 DEF DeliveryTypeOK, OpsRecord, WorkflowInv, JournalInv
<1>5. bot.step = "idle" /\ bot.job = 0 /\ worker.step = "idle" /\ jobs = << >>
      /\ todo = {} /\ scopes[Worker].step = "idle"
  BY TwoSenders DEF DeliveryInit, WorkflowInit, JobsInit, JournalInit, IdleBot, IdleWorker,
     IdleScope
<1>6. /\ \A k \in Keys : events[k].state = "absent" /\ told[k] = Nothing
  BY DEF DeliveryInit, JournalInit
<1>7. BotFollowsRequest /\ WorkerServesItsJob /\ MatchFollowsSearch
  BY <1>3, <1>5 DEF BotFollowsRequest, WorkerServesItsJob, MatchFollowsSearch, ConfirmingSteps
<1>8. EventsHaveRows /\ GrantMatchesJob /\ NoticeFollowsSearch
  BY <1>6, EventKeys DEF EventsHaveRows, GrantMatchesJob, NoticeFollowsSearch
<1>9. TheAnswerIsLive /\ NoAnswerBeforeTheEnd
  <2>1. \A i \in 1..MaxJobs : told[SearchEvent(i)] \notin JobStates
    BY <1>6, EventKeys, NothingIsNothing
  <2> QED BY <2>1 DEF TheAnswerIsLive, NoAnswerBeforeTheEnd, JobStates, Answered
<1>10. ConfirmedOnce
  <2>1. DOMAIN jobs = {}
    BY <1>5
  <2> QED BY <1>5, <2>1 DEF ConfirmedOnce
<1> QED BY <1>1, <1>4, <1>7, <1>8, <1>9, <1>10 DEF DeliveryInv

\* The tables, the tick and the histories keep their types.
LEMMA DeliveryTypeKept ==
    ASSUME DeliveryInv, [DeliveryNext]_deliveryVars
    PROVE  DeliveryTypeOK'
<1>0. /\ subs \in [Leads -> [fp: Criteria, enabled: BOOLEAN] \cup {Nothing}]
      /\ told \in [Keys -> JobStates \cup {Nothing}] /\ todo \subseteq SearchEvents
  BY DEF DeliveryInv, DeliveryTypeOK
<1>1. WorkflowTypeOK' /\ JournalTypeOK'
  BY WorkflowInvKept, JournalInvKept DEF WorkflowInv, JournalInv
<1>2. grants' \in [Keys -> Grant \cup {Nothing}] /\ ops' \in OpsRecord
  BY EventsIssued, OpsSteps
<1>3. told' \in [Keys -> JobStates \cup {Nothing}]
  <2>1. worker.job \in DOMAIN jobs => HeldJob.state \in JobStates
    BY TableIsFunction DEF DeliveryInv, WorkflowInv, WorkflowTypeOK, HeldJob, Job
  <2> QED BY <1>0, <2>1, ToldSteps
<1>4. todo' \subseteq SearchEvents
  <2>1. todo' \subseteq todo \/ ListSearchEvents
    BY WorkerStepsApart, Zenon
    DEF WorkerRests, WorkerRuns, ClaimSearchEvent, JudgeSearchEvent, SendSearchResult,
        FailSearchResult, CloseSearchResult, FinishDelivery, WorkerDies
  <2>2. ASSUME ListSearchEvents PROVE todo' \subseteq {SearchEvent(worker.job)}
    BY <2>2, Zenon DEF ListSearchEvents
  <2>3. ASSUME ListSearchEvents PROVE worker.job \in 1..MaxJobs
    BY <2>3, TableIsFunction, JobsAssumption
    DEF ListSearchEvents, WorkerList, DeliveryInv, WorkerServesItsJob, WorkflowInv,
        WorkflowTypeOK, JobsTypeOK
  <2> QED BY <1>0, <2>1, <2>2, <2>3, EventKeys
<1>5. subs' \in [Leads -> [fp: Criteria, enabled: BOOLEAN] \cup {Nothing}]
  <2>1. CASE UNCHANGED subs
    BY <1>0, <2>1
  <2>2. CASE SubscribeCustomer
    <3>1. bot.req.lead \in Leads /\ crm[bot.req.lead].crit \in Criteria
      BY <2>2, HandlersRequest
      DEF SubscribeCustomer, BotSubscribe, ConfirmingSteps, Request
    <3> QED BY <1>0, <2>2, <3>1 DEF SubscribeCustomer
  <2>3. ASSUME NEW l \in Leads, DailyOff(l)
        PROVE  subs' \in [Leads -> [fp: Criteria, enabled: BOOLEAN] \cup {Nothing}]
    <3>1. subs[l] # Nothing /\ subs' = [subs EXCEPT ![l].enabled = FALSE]
      BY <2>3, Zenon DEF DailyOff
    <3>2. subs[l] \in [fp: Criteria, enabled: BOOLEAN]
      BY <1>0, <3>1
    <3> DEFINE off == [subs[l] EXCEPT !.enabled = FALSE]
    <3>3. off \in [fp: Criteria, enabled: BOOLEAN]
      BY <3>2, Zenon
    <3>4. subs' = [subs EXCEPT ![l] = off]
      BY <3>1, Zenon
    <3> HIDE DEF off
    <3> QED BY <1>0, <3>3, <3>4
  <2>4. UNCHANGED subs \/ SubscribeCustomer \/ \E l \in Leads : DailyOff(l)
    BY Zenon
    DEF DeliveryNext, BotMoves, WorkerMoves, OpsMoves, BotAlone, WorkerAlone, WorldAlone,
        NoNotification, IssueSearchEvent, ListSearchEvents, ClaimSearchEvent,
        JudgeSearchEvent, SendSearchResult, FailSearchResult, CloseSearchResult,
        FinishDelivery, WorkerDies, BeginTick, SkipDaily, QueueDaily, IssueDaily, ListDaily,
        ClaimDaily, JudgeDaily, SendDaily, CloseDaily, EndTick, OpsDies, TimePasses,
        OpenJournal, deliveryVars
  <2> QED BY <2>1, <2>2, <2>3, <2>4
<1> QED BY <1>1, <1>2, <1>3, <1>4, <1>5 DEF DeliveryTypeOK, OpsRecord

\* Without faults nobody is told "queued" or "running".
LEMMA NoEarlyAnswer ==
    ASSUME DeliveryInv, [DeliveryNext]_deliveryVars
    PROVE  NoAnswerBeforeTheEnd'
<1> SUFFICES ASSUME faults' = 0, NEW i \in 1..MaxJobs
             PROVE  told'[SearchEvent(i)] \notin {"queued", "running"}
  BY DEF NoAnswerBeforeTheEnd
<1>1. faults = 0 /\ told \in [Keys -> JobStates \cup {Nothing}] /\ SearchEvent(i) \in Keys
  BY FaultsAreCounted, EventKeys DEF DeliveryInv, DeliveryTypeOK
<1>2. ConfirmedOnce /\ told[SearchEvent(i)] \notin {"queued", "running"}
  BY <1>1 DEF DeliveryInv, NoAnswerBeforeTheEnd
<1> QED BY <1>1, <1>2, ToldSteps DEF ConfirmedOnce

\* Every step of the three processes and of the world keeps the invariant.
LEMMA DeliveryInvStep ==
    ASSUME DeliveryInv, [DeliveryNext]_deliveryVars
    PROVE  DeliveryInv'
<1>1. GrantMatchesJob'
  BY GrantsKept DEF GrantMatchesJob
<1>2. faults' = 0 => ConfirmedOnce'
  BY FaultsAreCounted, ConfirmedOnceKept DEF DeliveryInv
<1> QED BY <1>1, <1>2, DeliveryTypeKept, WorkflowInvKept, JournalInvKept, BotKept, WorkerKept,
           AnswersKeptLive, MatchKept, NoticesKept, NoEarlyAnswer DEF DeliveryInv

\* DeliveryInv is an invariant of the customer's whole search.
THEOREM DeliveryInvariance == DeliverySpec => []DeliveryInv
BY DeliveryInvInit, DeliveryInvStep, PTL DEF DeliverySpec

\* The tables, processes and histories keep their types, for any customers, needs,
\* confirmations, events, faults and days.
THEOREM DeliveryTypeCorrect == DeliverySpec => []DeliveryTypeOK
<1>1. DeliveryInv => DeliveryTypeOK
  BY DEF DeliveryInv
<1> QED BY <1>1, DeliveryInvariance, PTL

\* Every step of the bot, the worker and operations is a step of the journal.
THEOREM DeliveryImplementsJournal == DeliverySpec => JournalSpec
<1>1. DeliveryInit => JournalInit
  BY DEF DeliveryInit
<1>2. DeliveryInv /\ [DeliveryNext]_deliveryVars => [JournalNext]_journalVars
  BY EventsIssued
<1> QED BY <1>1, <1>2, DeliveryInvariance, PTL DEF DeliverySpec, JournalSpec

\* In the whole system no customer gets a result or a notice twice.
THEOREM CustomersNotifiedOnce == DeliverySpec => []AtMostOnce
BY DeliveryImplementsJournal, NotificationsAtMostOnce, PTL

\* In the whole system the worker's job stays "running" until run_job settles it,
\* though operations queue searches too.
THEOREM DeliveryKeepsWorkflow == DeliverySpec => []WorkflowInv
<1>1. DeliveryInv => WorkflowInv
  BY DEF DeliveryInv
<1> QED BY <1>1, DeliveryInvariance, PTL

\* The right to one answer goes with a confirmed job, to the customer who confirmed
\* it and for the need confirmed, whatever fails between the transactions.
THEOREM GrantsMatchJobs == DeliverySpec => []GrantMatchesJob
<1>1. DeliveryInv => GrantMatchesJob
  BY DEF DeliveryInv
<1> QED BY <1>1, DeliveryInvariance, PTL

\* A notice of the day is issued only beside a search of the day.
THEOREM NoticesFollowSearches == DeliverySpec => []NoticeFollowsSearch
<1>1. DeliveryInv => NoticeFollowsSearch
  BY DEF DeliveryInv
<1> QED BY <1>1, DeliveryInvariance, PTL

\* "Ready" and "nothing found" are told of finished live crawls, and stay true.
THEOREM AnswersToldAreLive == DeliverySpec => []TheAnswerIsLive
<1>1. DeliveryInv => TheAnswerIsLive
  BY DEF DeliveryInv
<1> QED BY <1>1, DeliveryInvariance, PTL

\* As long as no process dies nobody is told the end of a search still to run.
THEOREM NobodyAnsweredEarly == DeliverySpec => []NoAnswerBeforeTheEnd
<1>1. DeliveryInv => NoAnswerBeforeTheEnd
  BY DEF DeliveryInv
<1> QED BY <1>1, DeliveryInvariance, PTL

\* All that the journal promises alone it promises of the whole system: what was sent
\* is what it says, doubt is not retried, and each notification is offered once.
THEOREM DeliveryKeepsPromises ==
    DeliverySpec => []JournalIsTruthful /\ ClaimIsForEver /\ ImplementsOnceOnly
BY DeliveryImplementsJournal, JournalTellsTheTruth, DoubtIsNotRetried,
   JournalImplementsOnceOnly, PTL

\* An answered job keeps its answer, though operations queue searches too.
THEOREM AnswersKeptInDelivery == DeliverySpec => AnswersAreFinal
<1>1. DeliveryInv /\ [DeliveryNext]_deliveryVars =>
        [\A i \in DOMAIN jobs :
            jobs[i].state \in Answered => jobs'[i].state = jobs[i].state]_jobs
  BY RowsKept
<1> QED BY <1>1, DeliveryInvariance, PTL DEF DeliverySpec, AnswersAreFinal

\* A step of the system makes an orphan only by a fault, and keeps the bound on them.
LEMMA DeliveryCountsOrphans ==
    ASSUME DeliveryInv, OrphansComeFromFaults, [DeliveryNext]_deliveryVars
    PROVE  OrphansComeFromFaults'
<1>1. WorkflowInv /\ WorkflowInv'
  BY WorkflowInvKept DEF DeliveryInv
<1>2. CASE [WorkflowNext]_workflowVars
  BY <1>1, <1>2, OrphansBoundKept
<1>3. CASE QueueDaily
  <2>1. PICK r \in Request : Enqueue(r) /\ UNCHANGED <<day, worker, faults>>
    BY <1>3, QueueDailyRequests
  <2> QED BY <1>1, <2>1, QueueMakesNoOrphan, OrphansCounted
<1>4. CASE Fault /\ UNCHANGED <<jobs, day, crm, bot, worker, handled, crawled>>
  <2>1. Orphans' \subseteq Orphans \cup {0}
    BY <1>4 DEF Orphans
  <2> QED BY <1>1, <1>4, <2>1, OrphansCounted
<1> QED BY <1>2, <1>3, <1>4, StepsOfWorkflow

\* The searches of the day leave no row behind either: the rows "running" with nobody
\* at work on them are at most as many as the faults.
THEOREM DeliveryLeavesNoOrphan == DeliverySpec => []OrphansComeFromFaults
<1>1. DeliveryInit => OrphansComeFromFaults
  BY NoOrphanAtFirst DEF DeliveryInit
<1>2. DeliveryInv /\ OrphansComeFromFaults /\ [DeliveryNext]_deliveryVars
        => OrphansComeFromFaults'
  BY DeliveryCountsOrphans
<1> QED BY <1>1, <1>2, DeliveryInvariance, PTL DEF DeliverySpec

-----------------------------------------------------------------------------
(***************************************************************************)
(* The promise to the customers.                                           *)
(***************************************************************************)
\* Operations serve notices of the day, so that results are the worker's alone.
OpsServeNotices == scopes[Operations].step # "idle" => Held(Operations) \in DailyEvents

\* A result is told in the one message that reached the customer, and of an event
\* that was issued.
AnswersCounted ==
    \A i \in 1..MaxJobs :
        /\ told[SearchEvent(i)] = Nothing <=> sends[SearchEvent(i)] = 0
        /\ told[SearchEvent(i)] # Nothing => events[SearchEvent(i)].state # "absent"

\* An issued event has its recipient.
GrantIsMade ==
    \A i \in 1..MaxJobs :
        events[SearchEvent(i)].state # "absent" => grants[SearchEvent(i)] # Nothing

AnswerInv == OpsServeNotices /\ AnswersCounted /\ GrantIsMade

\* Only the worker's send reaches a customer with a result.
LEMMA ResultsSentByWorker ==
    ASSUME DeliveryInv, OpsServeNotices, [DeliveryNext]_deliveryVars, ~SendSearchResult
    PROVE  /\ UNCHANGED told
           /\ \A i \in 1..MaxJobs : sends'[SearchEvent(i)] = sends[SearchEvent(i)]
<1>1. UNCHANGED told
  BY Zenon
  DEF DeliveryNext, BotMoves, WorkerMoves, OpsMoves, BotAlone, WorkerAlone, WorldAlone,
      NoNotification, JournalUntouched, SubscribeCustomer, IssueSearchEvent,
      ListSearchEvents, ClaimSearchEvent, JudgeSearchEvent, FailSearchResult,
      CloseSearchResult, FinishDelivery, WorkerDies, BeginTick, SkipDaily, QueueDaily,
      IssueDaily, ListDaily, ClaimDaily, JudgeDaily, SendDaily, CloseDaily, EndTick, OpsDies,
      TimePasses, OpenJournal, DailyOff, deliveryVars
<1>2. UNCHANGED sends \/ SendDaily
  BY Zenon
  DEF DeliveryNext, BotMoves, WorkerMoves, OpsMoves, BotAlone, WorkerAlone, WorldAlone,
      NoNotification, JournalUntouched, SubscribeCustomer, IssueSearchEvent,
      ListSearchEvents, ClaimSearchEvent, JudgeSearchEvent, FailSearchResult,
      CloseSearchResult, FinishDelivery, WorkerDies, BeginTick, SkipDaily, QueueDaily,
      IssueDaily, ListDaily, ClaimDaily, JudgeDaily, CloseDaily, EndTick, OpsDies,
      TimePasses, OpenJournal, DailyOff, deliveryVars, journalVars, Grants, IssueEvent,
      Sweep, JournalElapse, ClaimEvent, ClaimTooLate, Accept, Refuse, SendNothing,
      CloseScope, AbandonScope
<1>3. CASE SendDaily
  <2>1. \/ UNCHANGED sends
        \/ /\ scopes[Operations].step = "open"
           /\ sends' = [sends EXCEPT ![Held(Operations)] = @ + 1]
    BY <1>3, Zenon DEF SendDaily, Send, SendNothing
  <2>2. scopes[Operations].step = "open" => Held(Operations) \in DailyEvents
    BY DEF OpsServeNotices
  <2>3. sends \in [Keys -> Nat] /\ \A i \in 1..MaxJobs : SearchEvent(i) \in Keys
    BY EventKeys DEF DeliveryInv, DeliveryTypeOK, JournalTypeOK
  <2>4. \A i \in 1..MaxJobs : SearchEvent(i) \notin DailyEvents
    BY EventKeys DEF DailyEvents
  <2> QED BY <1>1, <2>1, <2>2, <2>3, <2>4
<1> QED BY <1>1, <1>2, <1>3

\* The worker's send: one message, to the customer the event was issued to, with
\* the state of the customer's job.
LEMMA ResultSent ==
    ASSUME DeliveryInv, AnswersCounted, SendSearchResult
    PROVE  \E i \in 1..MaxJobs :
              /\ i \in DOMAIN jobs /\ UNCHANGED <<jobs, crawled, grants, events>>
              /\ told[SearchEvent(i)] = Nothing /\ sends[SearchEvent(i)] = 0
              /\ events[SearchEvent(i)].state # "absent"
              /\ jobs[i].state \in JobStates
              /\ told' = [told EXCEPT ![SearchEvent(i)] = jobs[i].state]
              /\ sends' = [sends EXCEPT ![SearchEvent(i)] = 1]
<1>1. /\ scopes[Worker].step = "open"
      /\ told' = [told EXCEPT ![Held(Worker)] = HeldJob.state]
      /\ sends' = [sends EXCEPT ![Held(Worker)] = @ + 1]
      /\ UNCHANGED <<jobs, crawled, grants, events>>
  BY DEF SendSearchResult, Send, workflowVars
<1>2. Held(Worker) = SearchEvent(worker.job) /\ worker.job \in DOMAIN jobs
  BY <1>1 DEF DeliveryInv, WorkerServesItsJob
<1>3. worker.job \in 1..MaxJobs /\ HeldJob.state \in JobStates
  BY <1>2, TableIsFunction, JobsAssumption
  DEF DeliveryInv, WorkflowInv, WorkflowTypeOK, JobsTypeOK, HeldJob, Job
<1>4. sends[Held(Worker)] = 0 /\ events[Held(Worker)].state # "absent"
  BY <1>1, TwoSenders DEF DeliveryInv, JournalInv, ScopesTellSends, ScopesHoldClaims, Open
<1>5. told[SearchEvent(worker.job)] = Nothing
  BY <1>2, <1>3, <1>4 DEF AnswersCounted
<1>6. /\ told' = [told EXCEPT ![SearchEvent(worker.job)] = jobs[worker.job].state]
      /\ sends' = [sends EXCEPT ![SearchEvent(worker.job)] = 1]
  BY <1>1, <1>2, <1>4 DEF HeldJob
<1> QED BY <1>1, <1>2, <1>3, <1>4, <1>5, <1>6 DEF HeldJob

\* The scope of operations is theirs, and holds notices of the day.
LEMMA NoticesServed ==
    ASSUME DeliveryInv, OpsServeNotices, [DeliveryNext]_deliveryVars
    PROVE  OpsServeNotices'
<1>0. /\ Worker \in Senders /\ Operations \in Senders /\ Worker # Operations
      /\ scopes \in [Senders -> [step: ScopeSteps, key: Keys \cup {NoKeyHeld}]]
  BY TwoSenders DEF DeliveryInv, DeliveryTypeOK, JournalTypeOK
<1>1. CASE scopes'[Operations] = scopes[Operations]
  BY <1>1 DEF OpsServeNotices, Held
<1>2. CASE \/ ClaimSearchEvent \/ JudgeSearchEvent \/ SendSearchResult \/ FailSearchResult
           \/ CloseSearchResult \/ WorkerDies
  <2>1. todo \subseteq Keys
    BY EventKeys DEF DeliveryInv, DeliveryTypeOK, SearchEvents
  <2>2. \/ UNCHANGED scopes
        \/ \E k \in Keys : ClaimEvent(Worker, k) \/ ClaimTooLate(Worker, k)
        \/ Accept(Worker) \/ Refuse(Worker) \/ Send(Worker) \/ SendNothing(Worker)
        \/ CloseScope(Worker) \/ AbandonScope(Worker)
    BY <1>2, <2>1, Zenon
    DEF ClaimSearchEvent, JudgeSearchEvent, SendSearchResult, FailSearchResult,
        CloseSearchResult, WorkerDies, journalVars
  <2>3. scopes'[Operations] = scopes[Operations]
    BY <1>0, <2>2, ScopesApart
  <2> QED BY <1>1, <2>3
<1>3. CASE ClaimDaily
  <2>1. PICK k \in ops.list : \/ UNCHANGED scopes
                              \/ scopes' = [scopes EXCEPT ![Operations] =
                                              [step |-> "claimed", key |-> k]]
    BY <1>3, Zenon DEF ClaimDaily, ClaimEvent, ClaimTooLate, journalVars
  <2>2. k \in DailyEvents
    BY DEF DeliveryInv, DeliveryTypeOK
  <2> QED BY <1>0, <1>1, <2>1, <2>2 DEF OpsServeNotices, Held
<1>4. CASE JudgeDaily \/ SendDaily \/ CloseDaily \/ OpsDies
  <2>1. \/ UNCHANGED scopes
        \/ scopes' = [scopes EXCEPT ![Operations] = IdleScope]
        \/ /\ scopes[Operations].step # "idle"
           /\ \E step : scopes' = [scopes EXCEPT ![Operations] =
                                     [step |-> step, key |-> Held(Operations)]]
    <3>1. CASE JudgeDaily
      <4>1. scopes[Operations].step = "claimed" /\ (Accept(Operations) \/ Refuse(Operations))
        BY <3>1, Zenon DEF JudgeDaily
      <4> QED BY <4>1 DEF Accept, Refuse, ScopeGoes, LeaveScope
    <3>2. CASE SendDaily
      <4>1. Send(Operations) \/ SendNothing(Operations)
        BY <3>2, Zenon DEF SendDaily
      <4>2. scopes[Operations].step = "open"
        BY <4>1 DEF Send, SendNothing
      <4> QED BY <4>1, <4>2 DEF Send, SendNothing, ScopeGoes
    <3>3. CASE CloseDaily \/ OpsDies
      <4>1. CloseScope(Operations) \/ AbandonScope(Operations) \/ UNCHANGED journalVars
        BY <3>3, Zenon DEF CloseDaily, OpsDies
      <4> QED BY <4>1 DEF CloseScope, AbandonScope, LeaveScope, journalVars
    <3> QED BY <1>4, <3>1, <3>2, <3>3
  <2>2. OpsServeNotices /\ IdleScope.step = "idle"
    BY DEF IdleScope
  <2> QED BY <1>0, <2>1, <2>2 DEF OpsServeNotices, Held
<1>5. \/ UNCHANGED scopes
      \/ ClaimSearchEvent \/ JudgeSearchEvent \/ SendSearchResult \/ FailSearchResult
      \/ CloseSearchResult \/ WorkerDies
      \/ ClaimDaily \/ JudgeDaily \/ SendDaily \/ CloseDaily \/ OpsDies
  BY Zenon
  DEF DeliveryNext, BotMoves, WorkerMoves, OpsMoves, BotAlone, WorkerAlone, WorldAlone,
      NoNotification, JournalUntouched, SubscribeCustomer, IssueSearchEvent,
      ListSearchEvents, FinishDelivery, BeginTick, SkipDaily, QueueDaily, IssueDaily,
      ListDaily, EndTick, TimePasses, OpenJournal, DailyOff, deliveryVars, journalVars,
      Grants, IssueEvent, Sweep, JournalElapse
<1> QED BY <1>1, <1>2, <1>3, <1>4, <1>5

\* Each message is counted with what it told.
LEMMA AnswerInvStep ==
    ASSUME DeliveryInv, AnswerInv, [DeliveryNext]_deliveryVars
    PROVE  AnswerInv'
<1>1. OpsServeNotices' /\ OpsServeNotices /\ AnswersCounted
  BY NoticesServed DEF AnswerInv
<1>2. ASSUME NEW i \in 1..MaxJobs, events[SearchEvent(i)].state # "absent"
      PROVE  events'[SearchEvent(i)].state # "absent"
  BY <1>2, EventsIssued, EventKeys
<1>3. ASSUME SendSearchResult PROVE AnswersCounted'
  <2>1. PICK i \in 1..MaxJobs :
           /\ events[SearchEvent(i)].state # "absent"
           /\ jobs[i].state \in JobStates
           /\ told' = [told EXCEPT ![SearchEvent(i)] = jobs[i].state]
           /\ sends' = [sends EXCEPT ![SearchEvent(i)] = 1]
    BY <1>1, <1>3, ResultSent
  <2>2. told \in [Keys -> JobStates \cup {Nothing}] /\ sends \in [Keys -> Nat]
    BY DEF DeliveryInv, DeliveryTypeOK, JournalTypeOK
  <2>3. SearchEvent(i) \in Keys /\ jobs[i].state # Nothing
    BY <2>1, EventKeys, NothingIsNothing
  <2>4. \A n \in 1..MaxJobs :
           IF n = i THEN told'[SearchEvent(n)] # Nothing /\ sends'[SearchEvent(n)] = 1
           ELSE /\ told'[SearchEvent(n)] = told[SearchEvent(n)]
                /\ sends'[SearchEvent(n)] = sends[SearchEvent(n)]
    BY <2>1, <2>2, <2>3, EventKeys
  <2> QED BY <1>1, <1>2, <2>1, <2>4 DEF AnswersCounted
<1>4. ASSUME ~SendSearchResult PROVE AnswersCounted'
  BY <1>1, <1>2, <1>4, ResultsSentByWorker DEF AnswersCounted
<1>5. ASSUME NEW i \in 1..MaxJobs, events'[SearchEvent(i)].state # "absent"
      PROVE  grants'[SearchEvent(i)] # Nothing
  <2> DEFINE k == SearchEvent(i)
  <2>1. k \in Keys
    BY EventKeys
  <2>2. CASE events[k].state # "absent"
    BY <2>1, <2>2, EventsIssued DEF AnswerInv, GrantIsMade
  <2>3. CASE events[k].state = "absent"
    <3>1. /\ IssueSearchEvent
          /\ grants'[k] = [lead |-> bot.req.lead, fp |-> bot.req.crit]
      BY <1>5, <2>1, <2>3, EventsIssued, EventKeys
    <3>2. grants'[k] \in Grant
      BY <3>1, IssuedForRequest DEF Grant
    <3> QED BY <3>2, NothingIsNothing
  <2> QED BY <2>2, <2>3
<1> QED BY <1>1, <1>3, <1>4, <1>5 DEF AnswerInv, GrantIsMade

\* Nothing is told or sent at first.
LEMMA AnswerInvInit == DeliveryInit => AnswerInv
<1> SUFFICES ASSUME DeliveryInit PROVE AnswerInv
  OBVIOUS
<1>1. scopes[Operations].step = "idle"
  BY TwoSenders DEF DeliveryInit, JournalInit, IdleScope
<1>2. \A k \in Keys : told[k] = Nothing /\ sends[k] = 0
  BY DEF DeliveryInit, JournalInit
<1>3. \A k \in Keys : events[k].state = "absent"
  BY DEF DeliveryInit, JournalInit
<1> QED BY <1>1, <1>2, <1>3, EventKeys
        DEF AnswerInv, OpsServeNotices, AnswersCounted, GrantIsMade

\* The tables are read row by row.
LEMMA TablesAreFunctions ==
    /\ Asked = [i \in 1..MaxJobs |-> Asked[i]]
    /\ Verdict = [i \in 1..MaxJobs |-> Verdict[i]]
    /\ Asked' = [i \in 1..MaxJobs |-> Asked'[i]]
    /\ Verdict' = [i \in 1..MaxJobs |-> Verdict'[i]]
BY DEF Asked, Verdict

\* A row of the queue keeps its request, so that what was asked is not changed.
LEMMA AskedKept ==
    ASSUME DeliveryInv, [DeliveryNext]_deliveryVars
    PROVE  /\ \A i \in 1..MaxJobs : i \in DOMAIN jobs => Asked'[i] = Asked[i]
           /\ DOMAIN jobs' = DOMAIN jobs => Asked' = Asked
<1>1. \A i \in DOMAIN jobs :
         /\ i \in DOMAIN jobs'
         /\ jobs'[i].lead = jobs[i].lead /\ jobs'[i].crit = jobs[i].crit
  BY RowsKept, SameRequestSameColumns
<1> QED BY <1>1 DEF Asked

\* enqueue() asks at most one new request, which is open, and reopens none that has
\* its verdict.
LEMMA EnqueueAsks ==
    ASSUME DeliveryInv, [DeliveryNext]_deliveryVars,
           NEW r \in Request, Enqueue(r), UNCHANGED day
    PROVE  /\ Verdict' = Verdict
           /\ \/ Asked' = Asked
              \/ \E i \in 1..MaxJobs, need \in Grant :
                    Asked[i] = Nothing /\ Asked' = [Asked EXCEPT ![i] = need]
<1>0. JobsTypeOK
  BY DEF DeliveryInv, WorkflowInv, WorkflowTypeOK
<1>1. /\ DOMAIN jobs \subseteq DOMAIN jobs'
      /\ \A i \in DOMAIN jobs' \ DOMAIN jobs : jobs'[i].state = "queued"
      /\ \A i \in DOMAIN jobs :
            /\ jobs'[i].state \in {jobs[i].state, "queued"}
            /\ jobs[i].state \in Answered => jobs'[i].state = jobs[i].state
  BY <1>0, EnqueueKeeps DEF Answered
<1>2. VerdictOf("queued") = "open"
  BY DEF VerdictOf, Answered
<1>3. \A i \in DOMAIN jobs : VerdictOf(jobs'[i].state) = VerdictOf(jobs[i].state)
  BY <1>1, <1>2 DEF VerdictOf
<1>4. Verdict' = Verdict
  BY <1>1, <1>2, <1>3 DEF Verdict
<1>5. CASE DOMAIN jobs' = DOMAIN jobs
  BY <1>4, <1>5, AskedKept
<1>6. CASE DOMAIN jobs' # DOMAIN jobs
  <2> DEFINE n == Len(jobs) + 1
             need == [lead |-> r.lead, fp |-> r.crit]
  <2>1. Len(jobs) < MaxJobs /\ jobs' = Append(jobs, NewJob(r)) /\ jobs \in Seq(Job)
    <3>1. \/ Len(jobs) < MaxJobs /\ jobs' = Append(jobs, NewJob(r))
          \/ jobs' = [i \in 1..Len(jobs) |->
                        IF i \in SameRequest(r) THEN Requeued(jobs[i]) ELSE jobs[i]]
      BY DEF Enqueue
    <3>2. DOMAIN jobs = 1..Len(jobs)
      BY <1>0, TableIsFunction
    <3> QED BY <1>0, <1>6, <3>1, <3>2 DEF JobsTypeOK
  <2>2. NewJob(r) \in Job /\ NewJob(r).lead = r.lead /\ NewJob(r).crit = r.crit
    BY <1>0, JobsAssumption DEF NewJob, Job, Request, JobsTypeOK, JobStates
  <2>3. /\ n \in 1..MaxJobs /\ DOMAIN jobs = 1..Len(jobs) /\ DOMAIN jobs' = 1..n
        /\ jobs'[n] = NewJob(r)
    BY <1>0, <2>1, <2>2, JobsAssumption, LenProperties, TableIsFunction
  <2>4. need \in Grant
    BY DEF Grant, Request
  <2>5. Asked[n] = Nothing /\ Asked'[n] = need
    BY <1>0, <2>2, <2>3 DEF Asked, JobsTypeOK
  <2>6. \A i \in 1..MaxJobs : i # n => Asked'[i] = Asked[i]
    <3>1. \A i \in 1..MaxJobs : i # n => i \in DOMAIN jobs \/ i \notin DOMAIN jobs'
      BY <1>0, <2>3 DEF JobsTypeOK
    <3>2. \A i \in 1..MaxJobs : i \notin DOMAIN jobs' => Asked'[i] = Asked[i]
      BY <1>1 DEF Asked
    <3> QED BY <3>1, <3>2, AskedKept
  <2>7. Asked' = [Asked EXCEPT ![n] = need]
    BY <2>3, <2>5, <2>6, TablesAreFunctions
  <2> QED BY <1>4, <2>3, <2>4, <2>5, <2>7
<1> QED BY <1>5, <1>6

\* A row's new state changes its own verdict only.
LEMMA RowSettled ==
    ASSUME DeliveryInv, [DeliveryNext]_deliveryVars,
           NEW i \in DOMAIN jobs, NEW s \in JobStates, Finish(i, s), UNCHANGED day,
           jobs[i].state = "running"
    PROVE  /\ i \in 1..MaxJobs /\ Asked[i] # Nothing /\ Verdict[i] = "open"
           /\ Asked' = Asked
           /\ Verdict' = [Verdict EXCEPT ![i] = VerdictOf(s)]
<1>0. JobsTypeOK
  BY DEF DeliveryInv, WorkflowInv, WorkflowTypeOK
<1>1. /\ DOMAIN jobs' = DOMAIN jobs /\ jobs'[i].state = s
      /\ \A n \in DOMAIN jobs : n # i => jobs'[n] = jobs[n]
  BY <1>0, FinishKeeps
<1>2. i \in 1..MaxJobs /\ jobs[i] \in Job
  BY <1>0, TableIsFunction, JobsAssumption DEF JobsTypeOK
<1>3. Asked[i] # Nothing
  BY <1>2, NothingIsNothing DEF Asked, Grant, Job
<1>4. Verdict[i] = "open"
  BY <1>2 DEF Verdict, VerdictOf, Answered
<1>5. Verdict' = [Verdict EXCEPT ![i] = VerdictOf(s)]
  BY <1>1, <1>2 DEF Verdict
<1> QED BY <1>1, <1>2, <1>3, <1>4, <1>5, AskedKept

\* Time, and claims by other workers, conclude nothing.
LEMMA RowsRest ==
    ASSUME DeliveryInv, [DeliveryNext]_deliveryVars, DOMAIN jobs' = DOMAIN jobs,
           \A i \in DOMAIN jobs :
              \/ jobs'[i].state = jobs[i].state
              \/ {jobs[i].state, jobs'[i].state} \subseteq {"queued", "running"}
    PROVE  Asked' = Asked /\ Verdict' = Verdict
<1>1. \A i \in DOMAIN jobs : VerdictOf(jobs'[i].state) = VerdictOf(jobs[i].state)
  BY DEF VerdictOf, Answered
<1>2. Verdict' = Verdict
  BY <1>1 DEF Verdict
<1> QED BY <1>2, AskedKept

\* What a step does to the tables is to ask a request, to search for one, to conclude
\* one, or nothing that is seen.
LEMMA TablesStep ==
    ASSUME DeliveryInv, [DeliveryNext]_deliveryVars
    PROVE  \/ UNCHANGED <<Asked, Verdict, crawled>>
           \/ \E i \in 1..MaxJobs, need \in Grant :
                 /\ Asked[i] = Nothing /\ Asked' = [Asked EXCEPT ![i] = need]
                 /\ UNCHANGED <<Verdict, crawled>>
           \/ \E i \in 1..MaxJobs :
                 /\ Asked[i] # Nothing /\ Verdict[i] = "open"
                 /\ crawled' \in {crawled \cup {i}, crawled \ {i}}
                 /\ UNCHANGED <<Asked, Verdict>>
           \/ \E i \in 1..MaxJobs, found \in {"ready", "empty"} :
                 /\ i \in crawled /\ Verdict[i] = "open"
                 /\ Verdict' = [Verdict EXCEPT ![i] = found]
                 /\ UNCHANGED <<Asked, crawled>>
<1>0. WorkflowInv /\ JobsTypeOK
  BY DEF DeliveryInv, WorkflowInv, WorkflowTypeOK
<1>1. CASE UNCHANGED <<jobs, crawled>>
  BY <1>1, RowsRest
<1>2. ASSUME NEW r \in Request, Enqueue(r), UNCHANGED <<day, crawled>>
      PROVE  \/ UNCHANGED <<Asked, Verdict, crawled>>
             \/ \E i \in 1..MaxJobs, need \in Grant :
                   /\ Asked[i] = Nothing /\ Asked' = [Asked EXCEPT ![i] = need]
                   /\ UNCHANGED <<Verdict, crawled>>
  BY <1>2, EnqueueAsks
<1>3. CASE BotEnqueue \/ BotResumeEnqueue
  <2>1. bot.req \in Request
    BY <1>3, HandlersRequest DEF BotEnqueue, BotResumeEnqueue, ConfirmingSteps
  <2> QED BY <1>2, <1>3, <2>1 DEF BotEnqueue, BotResumeEnqueue
<1>4. CASE QueueDaily
  <2>1. PICK sub \in Grant :
           /\ [lead |-> sub.lead, crit |-> sub.fp, key |-> DailyKey] \in Request
           /\ Enqueue([lead |-> sub.lead, crit |-> sub.fp, key |-> DailyKey])
           /\ UNCHANGED <<day, crawled>>
    BY <1>4, QueueDailyRequests
  <2> QED BY <1>2, <2>1
<1>5. CASE WorkerClaim
  <2>1. PICK i \in DOMAIN jobs : Claim(i) /\ crawled' = crawled \ {i} /\ UNCHANGED day
    BY <1>5 DEF WorkerClaim
  <2>2. /\ DOMAIN jobs' = DOMAIN jobs
        /\ jobs'[i].state = "running" /\ jobs[i].state \in {"queued", "running"}
        /\ \A n \in DOMAIN jobs : n # i =>
              \/ jobs'[n].state = jobs[n].state
              \/ jobs[n].state = "running" /\ jobs'[n].state = "queued"
    BY <1>0, <2>1, ClaimKeeps
  <2>3. UNCHANGED <<Asked, Verdict>>
    BY <2>2, RowsRest
  <2>4. i \in 1..MaxJobs /\ jobs[i] \in Job
    BY <1>0, <2>1, TableIsFunction, JobsAssumption DEF JobsTypeOK
  <2>5. Asked[i] # Nothing
    BY <2>1, <2>4, NothingIsNothing DEF Asked, Grant, Job
  <2>6. Verdict[i] = "open"
    BY <2>2, <2>4 DEF Verdict, VerdictOf, Answered
  <2> QED BY <2>1, <2>3, <2>4, <2>5, <2>6
<1>6. CASE WorkerDrop \/ WorkerCrawl \/ WorkerSettle
  <2> DEFINE i == worker.job
  <2>1. i \in DOMAIN jobs /\ jobs[i].state = "running"
    BY <1>0, <1>6, HeldJobIsRow
    DEF WorkerDrop, WorkerCrawl, WorkerSettle, HoldingSteps, TrySteps, HeldJob
  <2>2. ASSUME NEW s \in JobStates, Finish(i, s)
        PROVE  /\ i \in 1..MaxJobs /\ Asked[i] # Nothing /\ Verdict[i] = "open"
               /\ Asked' = Asked
               /\ Verdict' = [Verdict EXCEPT ![i] = VerdictOf(s)]
    <3>1. UNCHANGED day
      BY <1>6 DEF WorkerDrop, WorkerCrawl, WorkerSettle
    <3> QED BY <2>1, <2>2, <3>1, RowSettled
  <2>3. ASSUME Verdict[i] = "open", Verdict' = [Verdict EXCEPT ![i] = "open"]
        PROVE  Verdict' = Verdict
    BY <2>3, TablesAreFunctions
  <2>4. CASE WorkerDrop
    <3>1. Finish(i, "cancelled") /\ UNCHANGED crawled
      BY <2>4 DEF WorkerDrop
    <3>2. "cancelled" \in JobStates /\ VerdictOf("cancelled") = "open"
      BY DEF JobStates, VerdictOf, Answered
    <3> QED BY <2>2, <2>3, <3>1, <3>2
  <2>5. CASE WorkerCrawl
    <3>1. Finish(i, "running") /\ crawled' = crawled \cup {i}
      BY <2>5 DEF WorkerCrawl
    <3>2. "running" \in JobStates /\ VerdictOf("running") = "open"
      BY DEF JobStates, VerdictOf, Answered
    <3> QED BY <2>2, <2>3, <3>1, <3>2
  <2>6. CASE WorkerSettle
    <3>1. Finish(i, worker.verdict) /\ UNCHANGED crawled /\ worker.verdict \in JobStates
      BY <1>0, <2>6 DEF WorkerSettle, WorkflowInv, WorkflowTypeOK
    <3>2. CASE worker.verdict \in Answered
      <4>1. i \in crawled
        BY <1>0, <2>6, <3>2 DEF WorkerSettle, WorkflowInv, JobsInv, CrawlPrecedesVerdict
      <4>2. VerdictOf(worker.verdict) = worker.verdict /\ worker.verdict \in {"ready", "empty"}
        BY <3>2 DEF VerdictOf, Answered
      <4> QED BY <2>2, <3>1, <4>1, <4>2
    <3>3. CASE worker.verdict \notin Answered
      <4>1. VerdictOf(worker.verdict) = "open"
        BY <3>3 DEF VerdictOf
      <4> QED BY <2>2, <2>3, <3>1, <4>1
    <3> QED BY <3>2, <3>3
  <2> QED BY <1>6, <2>4, <2>5, <2>6
<1>7. CASE Elapse
  <2>1. /\ DOMAIN jobs' = DOMAIN jobs /\ UNCHANGED crawled
        /\ \A n \in DOMAIN jobs : jobs'[n].state = jobs[n].state
    BY <1>0, <1>7, ElapseKeeps DEF Elapse
  <2> QED BY <2>1, RowsRest
<1> QED BY <1>1, <1>3, <1>4, <1>5, <1>6, <1>7, QueueSteps, StepsOfWorkflow

\* A message answers its request as the tables have it, and once; every other step
\* answers nobody.
LEMMA AnswersStep ==
    ASSUME DeliveryInv, AnswerInv, [DeliveryNext]_deliveryVars
    PROVE  \/ UNCHANGED <<AnswerGiven, Messages>>
           \/ /\ UNCHANGED <<Asked, Verdict, crawled>>
              /\ \E i \in 1..MaxJobs :
                    /\ Asked[i] # Nothing /\ AnswerGiven[i] = Nothing /\ Messages[i] = 0
                    /\ AnswerGiven' = [AnswerGiven EXCEPT
                                         ![i] = [to |-> Asked[i], says |-> Verdict[i]]]
                    /\ Messages' = [Messages EXCEPT ![i] = 1]
<1>0. OpsServeNotices /\ AnswersCounted
  BY DEF AnswerInv
<1>1. CASE ~SendSearchResult
  <2>1. /\ UNCHANGED told
        /\ \A i \in 1..MaxJobs : sends'[SearchEvent(i)] = sends[SearchEvent(i)]
    BY <1>0, <1>1, ResultsSentByWorker
  <2>2. \A i \in 1..MaxJobs : told[SearchEvent(i)] # Nothing =>
           grants'[SearchEvent(i)] = grants[SearchEvent(i)]
    BY <1>0, EventsIssued, EventKeys DEF AnswersCounted
  <2>3. UNCHANGED Messages
    BY <2>1 DEF Messages
  <2>4. UNCHANGED AnswerGiven
    BY <2>1, <2>2 DEF AnswerGiven
  <2> QED BY <2>3, <2>4
<1>2. CASE SendSearchResult
  <2>1. PICK i \in 1..MaxJobs :
           /\ i \in DOMAIN jobs /\ UNCHANGED <<jobs, crawled, grants, events>>
           /\ told[SearchEvent(i)] = Nothing /\ sends[SearchEvent(i)] = 0
           /\ events[SearchEvent(i)].state # "absent"
           /\ jobs[i].state \in JobStates
           /\ told' = [told EXCEPT ![SearchEvent(i)] = jobs[i].state]
           /\ sends' = [sends EXCEPT ![SearchEvent(i)] = 1]
    BY <1>0, <1>2, ResultSent
  <2> DEFINE k == SearchEvent(i)
  <2>2. UNCHANGED <<Asked, Verdict, crawled>>
    BY <2>1 DEF Asked, Verdict
  <2>3. grants[k] \in Grant
    <3>1. grants[k] \in Grant \cup {Nothing} /\ k \in Keys
      BY EventKeys DEF DeliveryInv, DeliveryTypeOK
    <3>2. grants[k] # Nothing
      BY <2>1 DEF AnswerInv, GrantIsMade
    <3> QED BY <3>1, <3>2
  <2>4. Asked[i] = grants[k]
    <3>1. jobs[i].lead = grants[k].lead /\ jobs[i].crit = grants[k].fp
      BY <2>1 DEF DeliveryInv, GrantMatchesJob
    <3>2. Asked[i] = [lead |-> jobs[i].lead, fp |-> jobs[i].crit]
      BY <2>1 DEF Asked
    <3> QED BY <2>3, <3>1, <3>2 DEF Grant
  <2>5. Verdict[i] = VerdictOf(jobs[i].state)
    BY <2>1 DEF Verdict
  <2>6. \A n \in 1..MaxJobs : SearchEvent(n) \in Keys /\ (SearchEvent(n) = k => n = i)
    BY EventKeys
  <2>7. told \in [Keys -> JobStates \cup {Nothing}] /\ sends \in [Keys -> Nat]
    BY DEF DeliveryInv, DeliveryTypeOK, JournalTypeOK
  <2>8. Messages[i] = 0 /\ Messages' = [Messages EXCEPT ![i] = 1]
    BY <2>1, <2>6, <2>7 DEF Messages
  <2>9. jobs[i].state # Nothing
    BY <2>1, NothingIsNothing
  <2>10. AnswerGiven[i] = Nothing
    BY <2>1 DEF AnswerGiven
  <2>11. AnswerGiven' = [AnswerGiven EXCEPT ![i] = [to |-> Asked[i], says |-> Verdict[i]]]
    <3>1. told'[k] = jobs[i].state
          /\ \A n \in 1..MaxJobs : n # i => told'[SearchEvent(n)] = told[SearchEvent(n)]
      BY <2>1, <2>6, <2>7
    <3>2. /\ AnswerGiven'[i] = [to |-> Asked[i], says |-> Verdict[i]]
          /\ \A n \in 1..MaxJobs : n # i => AnswerGiven'[n] = AnswerGiven[n]
      BY <2>1, <2>4, <2>5, <2>9, <3>1 DEF AnswerGiven
    <3>3. /\ AnswerGiven = [n \in 1..MaxJobs |-> AnswerGiven[n]]
          /\ AnswerGiven' = [n \in 1..MaxJobs |-> AnswerGiven'[n]]
      BY DEF AnswerGiven
    <3> QED BY <3>2, <3>3
  <2> QED BY <2>2, <2>3, <2>4, <2>8, <2>10, <2>11, NothingIsNothing
<1> QED BY <1>1, <1>2

\* The steps that change the queue or its crawls send nothing.
LEMMA TablesAndAnswersApart ==
    ASSUME DeliveryInv, AnswerInv, [DeliveryNext]_deliveryVars
    PROVE  [EndToEnd!Next]_<<Asked, crawled, Verdict, AnswerGiven, Messages>>
<1>1. CASE UNCHANGED <<AnswerGiven, Messages>>
  BY <1>1, TablesStep
  DEF EndToEnd!Next, EndToEnd!Ask, EndToEnd!Search, EndToEnd!Conclude
<1>2. CASE ~UNCHANGED <<AnswerGiven, Messages>>
  BY <1>2, AnswersStep DEF EndToEnd!Next, EndToEnd!Answer
<1> QED BY <1>1, <1>2

\* From the confirmation to the message, and whatever dies between its transactions,
\* the system keeps the promise of SearchPromise: a request keeps its customer and
\* need, is concluded once and by a complete live search, and is answered in at most
\* one message, to the customer who asked, with what it then was.
THEOREM DeliveryKeepsSearchPromise == DeliverySpec => ImplementsSearchPromise
<1>1. DeliveryInit => EndToEnd!Init
  <2> SUFFICES ASSUME DeliveryInit PROVE EndToEnd!Init
    OBVIOUS
  <2>1. DOMAIN jobs = {} /\ crawled = {}
    BY DEF DeliveryInit, WorkflowInit, JobsInit
  <2>2. \A i \in 1..MaxJobs : told[SearchEvent(i)] = Nothing /\ sends[SearchEvent(i)] = 0
    BY EventKeys DEF DeliveryInit, JournalInit
  <2> QED BY <2>1, <2>2 DEF EndToEnd!Init, Asked, Verdict, AnswerGiven, Messages
<1>2. DeliveryInv /\ AnswerInv /\ [DeliveryNext]_deliveryVars => AnswerInv'
  BY AnswerInvStep
<1>3. DeliveryInv /\ AnswerInv /\ [DeliveryNext]_deliveryVars
        => [EndToEnd!Next]_<<Asked, crawled, Verdict, AnswerGiven, Messages>>
  BY TablesAndAnswersApart
<1> QED BY <1>1, <1>2, <1>3, AnswerInvInit, DeliveryInvariance, PTL
        DEF DeliverySpec, ImplementsSearchPromise, EndToEnd!Spec
=============================================================================
