--------------------------- MODULE SearchWorkflow ---------------------------
(***************************************************************************)
(* A search request from the customer's confirmation to the end of its     *)
(* live extraction.  Two processes share the queue and the CRM database:   *)
(*                                                                         *)
(*   bot     telegram_bot.runner, one handler at a time (threaded=False):  *)
(*           submit_request and set_search_active, one step per commit;    *)
(*   worker  telegram_bot.extraction_jobs, at most one because of          *)
(*           polling_lock: run_job, one step per database access.          *)
(*                                                                         *)
(* Either may die between two steps and is started again.  A Telegram      *)
(* update whose handler died is delivered again.                           *)
(***************************************************************************)
EXTENDS ExtractionJobs, SearchCase

CONSTANTS
    Confirmations,  \* "confirm" messages of customers: requests with a message id
    NoRequest,      \* the bot serves no update
    MaxFaults       \* bound on the faults of a behaviour

ASSUME WorkflowAssumption ==
    /\ Confirmations \subseteq [lead: Leads, crit: Criteria, key: RequestKeys \ {NoKey}]
    /\ NoRequest \notin Request
    /\ MaxFaults \in Nat

VARIABLES
    bot,       \* the handler under way
    worker,    \* run_job under way
    handled,   \* confirmations whose form has been put back to the menu
    faults,    \* process deaths and abandoned handlers so far
    crawled    \* history: jobs whose latest run finished its live crawl

workflowVars == <<jobs, day, crm, bot, worker, handled, faults, crawled>>

BotSteps == {"idle", "saved", "opened", "enqueued", "formClosed", "subscribed",
             "resumed"}
WorkerSteps == {"idle", "loadStart", "checkStart", "drop", "loadLive", "checkLive",
                "crawl", "loadAfter", "checkAfter", "match", "settle", "deliver",
                "delivering"}

IdleBot == [step |-> "idle", req |-> NoRequest, job |-> 0]
IdleWorker == [step |-> "idle", job |-> 0, crit |-> NoCriteria, closed |-> FALSE,
               verdict |-> "queued"]

WorkflowTypeOK ==
    /\ JobsTypeOK
    /\ CrmTypeOK
    /\ bot \in [step: BotSteps, req: Request \cup {NoRequest}, job: Nat]
    /\ worker \in [step: WorkerSteps, job: Nat, crit: Criteria \cup {NoCriteria},
                   closed: BOOLEAN, verdict: JobStates]
    /\ handled \subseteq Confirmations
    /\ faults \in 0..MaxFaults
    /\ crawled \subseteq Nat

WorkflowInit ==
    /\ JobsInit /\ CrmInit
    /\ bot = IdleBot /\ worker = IdleWorker
    /\ handled = {} /\ faults = 0 /\ crawled = {}

-----------------------------------------------------------------------------
(***************************************************************************)
(* The bot.                                                                *)
(***************************************************************************)
BotGoes(s) == bot' = [bot EXCEPT !.step = s]

\* The confirmation is taken up and the lead is saved (submit_request).
BotSaveLead(m) ==
    /\ bot.step = "idle" /\ m \in Confirmations \ handled
    /\ SaveLead(m.lead, m.crit)
    /\ bot' = [step |-> "saved", req |-> m, job |-> 0]
    /\ UNCHANGED <<jobs, day, worker, handled, faults, crawled>>

BotOpenCase ==
    /\ bot.step = "saved"
    /\ OpenCase(bot.req.lead)
    /\ BotGoes("opened")
    /\ UNCHANGED <<jobs, day, worker, handled, faults, crawled>>

\* Queue the extraction, the message id being the request key.
BotEnqueue ==
    /\ bot.step = "opened"
    /\ Enqueue(bot.req)
    /\ bot' = [step |-> "enqueued", req |-> bot.req, job |-> EnqueuedId(bot.req)]
    /\ UNCHANGED <<day, crm, worker, handled, faults, crawled>>

Fault == faults < MaxFaults /\ faults' = faults + 1

\* The queue is unavailable: the handler goes on without a job.
BotEnqueueFails ==
    /\ bot.step = "opened"
    /\ BotGoes("enqueued")
    /\ Fault
    /\ UNCHANGED <<jobs, day, crm, worker, handled, crawled>>

\* The form returns to the menu: the same update is no confirmation any more.
BotCloseForm ==
    /\ bot.step = "enqueued"
    /\ handled' = handled \cup {bot.req}
    /\ BotGoes("formClosed")
    /\ UNCHANGED <<jobs, day, crm, worker, faults, crawled>>

\* NotificationStore.subscribe and .issue follow (SearchDelivery).
BotSubscribe ==
    /\ bot.step = "formClosed"
    /\ BotGoes("subscribed")
    /\ UNCHANGED <<jobs, day, crm, worker, handled, faults, crawled>>

BotIssue ==
    /\ bot.step = "subscribed"
    /\ bot' = IdleBot
    /\ UNCHANGED <<jobs, day, crm, worker, handled, faults, crawled>>

BotPause(l) ==
    /\ bot.step = "idle"
    /\ PauseSearch(l)
    /\ UNCHANGED <<jobs, day, bot, worker, handled, faults, crawled>>

BotResume(l) ==
    /\ bot.step = "idle"
    /\ ResumeSearch(l)
    /\ bot' = [step |-> "resumed", job |-> 0,
               req |-> [lead |-> l, crit |-> crm[l].crit, key |-> NoKey]]
    /\ UNCHANGED <<jobs, day, worker, handled, faults, crawled>>

\* The job of a resumed search has no request key: one per day and criteria.
BotResumeEnqueue ==
    /\ bot.step = "resumed"
    /\ Enqueue(bot.req)
    /\ bot' = IdleBot
    /\ UNCHANGED <<day, crm, worker, handled, faults, crawled>>

\* An exception ends the handler (a Telegram or database call failed): its
\* update is consumed all the same.
BotAborts ==
    /\ bot.step # "idle"
    /\ bot' = IdleBot
    /\ handled' = handled \cup ({bot.req} \cap Confirmations)
    /\ Fault
    /\ UNCHANGED <<jobs, day, crm, worker, crawled>>

BotCrash ==
    /\ bot.step # "idle"
    /\ bot' = IdleBot
    /\ Fault
    /\ UNCHANGED <<jobs, day, crm, worker, handled, crawled>>

AdviserMovesStage(l) ==
    /\ \E closed \in BOOLEAN : MoveStage(l, closed)
    /\ UNCHANGED <<jobs, day, bot, worker, handled, faults, crawled>>

-----------------------------------------------------------------------------
(***************************************************************************)
(* The worker.  Its database session keeps the lead and client rows it has *)
(* loaded (worker.crit, worker.closed) until they are refreshed; only the  *)
(* case is read anew each time (populate_existing).                        *)
(***************************************************************************)
HeldJob == jobs[worker.job]

\* The next statement of run_job, with the rows the session holds and the verdict.
WorkerAt(s, crit, closed, v) ==
    worker' = [step |-> s, job |-> worker.job, crit |-> crit, closed |-> closed,
               verdict |-> v]

WorkerGoes(s) == WorkerAt(s, worker.crit, worker.closed, worker.verdict)

WorkerRules(s, v) == WorkerAt(s, worker.crit, worker.closed, v)

\* Steps in the try block of run_job, where an exception fails the job.
TrySteps == {"loadLive", "checkLive", "crawl", "loadAfter", "checkAfter", "match"}

WorkerClaim ==
    /\ worker.step = "idle"
    /\ \E i \in DOMAIN jobs :
          /\ Claim(i)
          /\ worker' = [step |-> "loadStart", job |-> i, crit |-> NoCriteria,
                        closed |-> FALSE, verdict |-> "queued"]
          /\ crawled' = crawled \ {i}
    /\ UNCHANGED <<day, crm, bot, handled, faults>>

\* session.get or session.refresh of the lead and its client.
WorkerLoad ==
    /\ worker.step \in {"loadStart", "loadLive", "loadAfter"}
    /\ WorkerAt(CASE worker.step = "loadStart" -> "checkStart"
                  [] worker.step = "loadLive"  -> "checkLive"
                  [] worker.step = "loadAfter" -> "checkAfter",
                crm[HeldJob.lead].crit, crm[HeldJob.lead].closed, worker.verdict)
    /\ UNCHANGED <<jobs, day, crm, bot, handled, faults, crawled>>

\* search_enabled(lead) and equality of the criteria, on the loaded rows.
RequestStands ==
    ~worker.closed /\ worker.crit = HeldJob.crit /\ CaseEnabled(crm[HeldJob.lead])

WorkerCheckStart ==
    /\ worker.step = "checkStart"
    /\ WorkerGoes(IF RequestStands THEN "loadLive" ELSE "drop")
    /\ UNCHANGED <<jobs, day, crm, bot, handled, faults, crawled>>

\* Mutant: run_job returns early without finish().
WorkerDropSilent ==
    /\ worker.step = "drop"
    /\ worker' = IdleWorker
    /\ UNCHANGED <<jobs, day, crm, bot, handled, faults, crawled>>

\* Cancelled before the try block: no delivery is attempted.
WorkerDrop ==
    /\ worker.step = "drop"
    /\ Finish(worker.job, "cancelled")
    /\ worker' = IdleWorker
    /\ UNCHANGED <<day, crm, bot, handled, faults, crawled>>

WorkerCheckLive ==
    /\ worker.step = "checkLive"
    /\ IF RequestStands THEN WorkerGoes("crawl") ELSE WorkerRules("settle", "cancelled")
    /\ UNCHANGED <<jobs, day, crm, bot, handled, faults, crawled>>

\* refresh_inventory returned a live report; finish(id, 'running') renews the lease.
WorkerCrawl ==
    /\ worker.step = "crawl"
    /\ Finish(worker.job, "running")
    /\ crawled' = crawled \cup {worker.job}
    /\ WorkerGoes("loadAfter")
    /\ UNCHANGED <<day, crm, bot, handled, faults>>

WorkerCheckAfter ==
    /\ worker.step = "checkAfter"
    /\ IF RequestStands THEN WorkerGoes("match") ELSE WorkerRules("settle", "cancelled")
    /\ UNCHANGED <<jobs, day, crm, bot, handled, faults, crawled>>

\* Mutant: the result is delivered before it is recorded.
WorkerMatchDelivers ==
    /\ worker.step = "match"
    /\ WorkerRules("deliver", "empty")
    /\ UNCHANGED <<jobs, day, crm, bot, handled, faults, crawled>>

\* recommendations() is empty as soon as the search is not enabled.
WorkerMatch ==
    /\ worker.step = "match"
    /\ \/ WorkerRules("settle", "empty")
       \/ /\ ~worker.closed /\ CaseEnabled(crm[HeldJob.lead])
          /\ WorkerRules("settle", "ready")
    /\ UNCHANGED <<jobs, day, crm, bot, handled, faults, crawled>>

\* Mutant: after a failed crawl the archive is presented as the result.
WorkerErrorFallsBack ==
    /\ worker.step \in TrySteps
    /\ WorkerRules("settle", "ready")
    /\ UNCHANGED <<jobs, day, crm, bot, handled, faults, crawled>>

\* Mutant: the state for jobs that fail while "delivering", a state none is in.
WorkerErrorUnknown ==
    /\ worker.step \in TrySteps
    /\ WorkerRules("settle", "delivery_unknown")
    /\ UNCHANGED <<jobs, day, crm, bot, handled, faults, crawled>>

\* An exception in the try block: an unverified crawl, a database error.  The
\* rollback makes the session forget its rows.  (The handler's own finish() is
\* taken to succeed.)
WorkerError ==
    /\ worker.step \in TrySteps \cup {"settle"}
    /\ worker.verdict # "failed"
    /\ WorkerAt("settle", NoCriteria, FALSE, "failed")
    /\ UNCHANGED <<jobs, day, crm, bot, handled, faults, crawled>>

WorkerSettle ==
    /\ worker.step = "settle"
    /\ Finish(worker.job, worker.verdict)
    /\ WorkerGoes("deliver")
    /\ UNCHANGED <<day, crm, bot, handled, faults, crawled>>

\* deliver_search_result: list the pending events of the job, then serve them
\* (SearchDelivery).
WorkerList ==
    /\ worker.step = "deliver"
    /\ WorkerGoes("delivering")
    /\ UNCHANGED <<jobs, day, crm, bot, handled, faults, crawled>>

WorkerDelivered ==
    /\ worker.step = "delivering"
    /\ worker' = IdleWorker
    /\ UNCHANGED <<jobs, day, crm, bot, handled, faults, crawled>>

\* KeyboardInterrupt passes the handler but not the finally clause: the result
\* of an unsettled job is delivered, then the process ends.
WorkerInterrupt ==
    /\ worker.step \in TrySteps \cup {"settle"}
    /\ WorkerGoes("deliver")
    /\ Fault
    /\ UNCHANGED <<jobs, day, crm, bot, handled, crawled>>

WorkerCrash ==
    /\ worker.step # "idle"
    /\ worker' = IdleWorker
    /\ Fault
    /\ UNCHANGED <<jobs, day, crm, bot, handled, crawled>>

-----------------------------------------------------------------------------
Elapse ==
    /\ JobsElapse
    /\ UNCHANGED <<day, crm, bot, worker, handled, faults, crawled>>

Midnight ==
    /\ NewDay
    /\ UNCHANGED <<jobs, crm, bot, worker, handled, faults, crawled>>

BotStep ==
    \/ BotOpenCase \/ BotEnqueue \/ BotCloseForm
    \/ BotSubscribe \/ BotIssue \/ BotResumeEnqueue

Customer ==
    \/ \E m \in Confirmations : BotSaveLead(m)
    \/ \E l \in Leads : BotPause(l) \/ BotResume(l)

WorkerStep ==
    \/ WorkerClaim \/ WorkerLoad \/ WorkerCheckStart \/ WorkerDrop
    \/ WorkerCheckLive \/ WorkerCrawl \/ WorkerCheckAfter \/ WorkerMatch
    \/ WorkerError \/ WorkerSettle \/ WorkerList \/ WorkerDelivered

WorkflowNext ==
    \/ Customer \/ BotStep \/ WorkerStep
    \/ \E l \in Leads : AdviserMovesStage(l)
    \/ BotEnqueueFails \/ BotAborts \/ BotCrash
    \/ WorkerInterrupt \/ WorkerCrash
    \/ Elapse \/ Midnight

WorkflowSpec == WorkflowInit /\ [][WorkflowNext]_workflowVars

(***************************************************************************)
(* The handler finishes, the worker loop goes on and time passes; nothing  *)
(* is assumed of customers, advisers, faults and midnight.                 *)
(***************************************************************************)
WorkflowFairness ==
    /\ WF_workflowVars(BotStep)
    /\ WF_workflowVars(WorkerStep)
    /\ WF_workflowVars(Elapse)

FairWorkflow == WorkflowSpec /\ WorkflowFairness

-----------------------------------------------------------------------------
(***************************************************************************)
(* Properties.                                                             *)
(***************************************************************************)

\* Steps at which the worker still owes its job a final state.
HoldingSteps == {"loadStart", "checkStart", "drop"} \cup TrySteps \cup {"settle"}

\* The job run_job works on is "running" until run_job itself settles it, though
\* finish() and the UPDATEs of enqueue() and claim() check no owner.
HeldJobIsRunning ==
    worker.step \in HoldingSteps =>
        worker.job \in DOMAIN jobs /\ HeldJob.state = "running"

\* Running rows nobody works on.
Orphans ==
    {i \in DOMAIN jobs : /\ jobs[i].state = "running"
                         /\ ~(worker.step \in HoldingSteps /\ worker.job = i)}

\* They are what faults left behind, never more: run_job itself settles its job on
\* every path (the finally clause of run_job, the lease of claim()).
OrphansComeFromFaults == Cardinality(Orphans) <= faults

\* "ready" and "empty" are claims about a live search: the job's latest run
\* finished its crawl (refresh_inventory raises otherwise).
AnswerFollowsLiveCrawl ==
    \A i \in DOMAIN jobs : jobs[i].state \in Answered => i \in crawled

\* An answered job keeps its answer: no later submission, resume, claim or
\* finish of another run overwrites it.
AnswersAreFinal ==
    [][\A i \in DOMAIN jobs :
          jobs[i].state \in Answered => jobs'[i].state = jobs[i].state]_jobs

Running(i) == i \in DOMAIN jobs /\ jobs[i].state = "running"

\* No job stays "running" for ever: it is settled, or taken again after its lease.
RunningIsLeft == \A i \in 1..MaxJobs : Running(i) ~> ~Running(i)

\* A resumed search is run: its keyless job of the day reaches a verdict on the
\* market, unless the search is stopped or changed again (set_search_active).
ResumedSearchRuns ==
    \A l \in Leads, c \in Criteria :
        (bot.step = "resumed" /\ bot.req.lead = l /\ bot.req.crit = c)
            ~> (\/ ~SearchEnabled(l) \/ crm[l].crit # c
                \/ \E i \in DOMAIN jobs :
                      /\ DedupKey(jobs[i]) = <<l, day, c, NoKey>>
                      /\ jobs[i].state \in Answered \cup {"failed"})
=============================================================================
