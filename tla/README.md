# Formal model of the Saghf bot layer

Saghf is a real-estate CRM: a Flask web application, crawlers for classified
sites, and messenger bots through which customers register what they look for.
This directory holds TLA+ specifications of the parts of it in which several
actors share durable state over many steps, the TLC configurations that check them on small
instances, and TLAPS proofs for any instance. Paths below are relative to `src/`.

## 1. Inventory

### 1.1 The customer's search (modelled)

Three operating-system processes serve Telegram customers. Each holds
`polling_lock` (`telegram_bot/runtime.py`), so there is at most one of each.

| process | code | what it does |
|---|---|---|
| bot | `telegram_bot/runner.py`, `bot.py`, `customer_flow.py` | one handler at a time (`threaded=False`): registers a need, pauses, resumes, turns notices off |
| worker | `telegram_bot/extraction_jobs.py` | every 3 s: claim a job, crawl, record the verdict, deliver the result |
| operations | `telegram_bot/operations.py` | every 10 s: `notification_tick`, which queues daily searches and serves daily notices |

They share three stores.

| store | state | operations |
|---|---|---|
| job queue, SQLite table `jobs` (`extraction_jobs.py`) | id, dedup hash, lead, criteria, state, `updated` | `enqueue`, `claim`, `finish`, `status` |
| CRM database (`workflow.py`, `services/crm_dual_store.py`) | criteria on the lead, the pipeline stage, versioned `SearchCase` rows | save a lead, `open_case`, `set_search_active`, `search_enabled`, stage moves |
| notification journal, SQLite tables `subscriptions` and `events` (`search_delivery.py`) | who is subscribed to what; per event: state, expiry, lead, fingerprint | `subscribe`, `disable`, `issue`, sweep, `claim`, `valid_event`, `finish`, `delivery_scope` |

A confirmation runs through all of them: the handler saves the lead, opens a
case, queues a job (each a commit of its own), puts the form back to the menu,
subscribes the customer, and issues a `search_result` event, the right to one
answer. The worker claims the job, checks three times that the request still
stands (before, just before and after the crawl), records `ready`, `empty`,
`failed` or `cancelled`, and serves the event. No transaction spans two steps
and no step is exclusive, so what makes this hard is: interleavings of the
three processes; processes that die between two steps; handlers abandoned by an
exception; Telegram updates delivered again; sends whose answer is lost; leases,
cooldowns and expiry racing with work still under way; and rows cached by the
worker's database session.

What must hold: an answer reports a live crawl of the request it is given for;
a recorded answer is never overwritten; nothing is sent twice, and the journal
says truthfully what was sent or that it does not know; an interrupted job or
event is eventually settled; case versions form a chain.

### 1.2 The other modelled components

**Owner phone verification** (`verification/workflow.py`). One row per listing goes
from human review over a live check of the listing to a code sent by SMS. The SMS
provider is called between two transactions, so its answer may come after a
withdrawal, a new review, a newer code, or never. What must hold: a phone counts as
verified only by the latest code, in time, on a fresh match, under the consent in force.

**Owner consent** (`verification/owner_consent.py`, `team_review.py` and their routes).
Two append-only registers in two files, each behind a form with the id of the event
it shows. Listing and ownership review are read before the append. What must
hold: consent in force rests on two people, on the present content and on an unexpired
record; nobody decides on a register that has moved since they saw it.

**Visits** (`workflow.py:181-278`, `office_flow.py`, `decision_support.py`,
`customer_panel.py`, `routes/crm.py`). A customer asks for a visit or for another time;
a member of the office offers one in a form with a one-use confirmation; the customer
accepts or declines. The bot serves one update at a time; the web application and the
clock go on meanwhile, and the web application sets any visit to any status, back to
`scheduled` included (`routes/crm.py:146-167`). What must hold: a request leads to one
visit, an offer of a former case is not accepted, and, as long as the web does not put
a visit back, no adviser is booked twice by the bot and a moved visit is given up.

**Accessible search runs** (`services/search_run_service.py`,
`crawler/divar_accessible_search.py`, `routes/crawler_api.py`). A thread walks the
pages of the targets of a run, commits every listing and after each a checkpoint,
and may be interrupted, fail, die, and run beside another thread on the same row.
What must hold: the checkpoint is never ahead of the persisted listings, and a
completed run has them all.

**Authenticated watch** (`crawler/authenticated_watch.py`). One process that starts,
continues and repeats such runs, with a state file; a restart may come with another
policy, whose filters the stored runs do not have. What must hold: only runs of the own
policy are carried on with, and as long as the policy stays, an unfinished head is not
forgotten and a backfill is finished before the next begins.

**Customer form and inline pickers** (`telegram_bot/customer_flow.py`,
`budget_picker.py`, `district_picker.py`, `feature_picker.py`). A row per customer,
saved before the step is shown; besides the answers, a typed or inline "edit my need" and a
suggestion of `decision_support.py` rewrite it at any step. The pickers' message is edited
under taps which are queued, doubled and stale. What must hold: a tap counts once; no
question, edit or resumption outlives the deal it depends on.

### 1.3 Not modelled

| component | hard behaviour | why it is left out |
|---|---|---|
| seen items, page order, `search_delivery.py:45-130` | read-modify-write by three processes | items are abstracted in the models of the delivery |
| regional engine, `crawler/regional_incremental_engine.py` | watermarks after partial failure | its poll is called by a sample script only; the seven-day path mixes naive and aware times and raises |
| quotas, `crawler/divar_quota_tracker.py`, `divar_session_pool.py` | unlocked read-modify-write of a file | the outcome (lost counts) is plain from the code |
| circuit breaker, `services/assistant/circuit_breaker.py` | half-open lets everybody through, contrary to the comment at line 199 | visible in one line |
| dispatcher, `services/omnichannel/dispatcher.py` | log read before the send, written after it | calls to external services; no promise about concurrency |
| rate limiter, `crawler/network/rate_limiter.py` | rate over real time | floating-point time |
| crawler manager, monitor | `is_running` tested and set apart | legacy crawlers, I/O |

Left aside as well: menus and cards of the Telegram and Bale bots; page rendering;
scraping and parsing of third-party sites; matching, scoring and valuation (pure
functions over floats); language, speech and messenger services; backups, heartbeat,
telemetry; most of the web application, which edits single rows in single requests.
These are the bulk of the repository: the models cover the protocols among its parts,
a few per cent of its lines. PROJECT.json lists each component with its reason,
and the hazards of the code with the properties that cover them.

## 2. Modules

```
Customers           Leads, Criteria
  ExtractionJobs    the job queue: one operator per method (= transaction)
  SearchCase        the CRM database: one action per commit
    SearchWorkflow  bot and worker over both, from confirmation to verdict
OnceOnly            abstract: a notification is offered once, sent at most once
NotificationStore   the journal and its delivery scopes; implements OnceOnly
SearchPromise       abstract: what a customer who confirms a search is promised
SearchDelivery      SearchWorkflow + NotificationStore + operations;
                    implements SearchPromise
VerificationCase    a row of verification_cases and the SMS under way
OwnerConsent        the two registers of a listing and the forms over them
VisitBook           abstract: requests settled by bookings in one step
VisitDesk           requests, office forms, offers, answers, visits;
                    implements VisitBook
SearchRuns          a search run, its threads and its checkpoint
AuthenticatedWatch  the watch over many runs
InlinePicker        one editable message and the taps on it
CustomerForm        the customer's need form
*_proofs            theorems and lemmas: SearchWorkflow_proofs is also about the
                    two tables below it, Verification_proofs about VerificationCase
                    and OwnerConsent, Dialogues_proofs about InlinePicker and
                    CustomerForm, the others about the module they name
MC*                 instances for TLC; MCOffice and MCDialogues put independent
                    components side by side in one run
```

**ExtractionJobs.** `jobs` is the table, a job's id its position. `Enqueue` is
`INSERT OR IGNORE` followed by the two conditional `UPDATE`s, `Claim` the requeue
of stale rows and the claim of the lowest queued id, `Finish` the unconditional
`UPDATE`. The dedup hash is the tuple it hashes. `updated` is only compared with
`now-300` (running) and `now-60` (failed), so a row carries an age in coarse
units that stops once the comparisons have come true.

**SearchCase.** `crm[l]` is the lead with its client: criteria, whether the stage
closes the file, and the case versions. `Opened` is `open_case`, `Paused` and
`ResumeSearch` are `set_search_active`.

**SearchWorkflow.** `bot` and `worker` are program counters with the values the
handler and `run_job` keep between database accesses. The worker keeps the lead and
client rows it loaded (`worker.crit`, `worker.closed`) because SQLAlchemy's
identity map does; the case row is read anew each time, as `populate_existing`
makes it. `WorkerError` is the `except` clause of `run_job`, with the rollback that empties
the session; `WorkerInterrupt` is `KeyboardInterrupt`, which passes that clause but not
`finally`. `BotAborts` is a handler ended by an exception, `BotCrash` the death of the
process, after which Telegram delivers the update again. `crawled` and `faults`
are history variables.

**NotificationStore.** A row's states are those of the column, plus `absent`.
`Sweep` is the pair of `UPDATE`s every `NotificationStore()` begins with. A
scope goes `claimed` (claim committed, request not validated), `open` (about to
send), then `done` or `failed` (the body returned or raised, `finish` still to come).
`Send` may end in `failed` although the recipient got the message. `sends`
counts what reached the recipient.

**SearchDelivery.** Conjoins the actions of the two specifications where the code
does both, adds `subscriptions`, the lead and fingerprint of events (`grants`)
and the tick of operations, one step per transaction. The journal's actions are
used as they are; that every step of the composition is a step of
`JournalSpec` is itself checked (property `JournalSpec`), so what is proved of the
journal alone holds in the composition.

**SearchPromise** is what the bot promises a customer: a request keeps its
customer and need, is searched, concluded once, and answered in one message to who
asked, which says how the request then stands. It has no queue, journal, lease
or process. `EndToEnd` (in `SearchDelivery`) maps the rows of the queue to requests: every
state that is not an answer is `open`, a request is searched when the crawl of its
present run is complete, and answered when the event issued for it has been sent,
to the customer of the event. `Answer` does not ask for a verdict: a failed search is
answered too, with "could not be verified".

**OnceOnly** is the promise of the journal. The mapping calls an event `offered` while it is
pending *or* a scope may still send it, because a sweep can mark a row
`unknown` under a live send; and `closed` afterwards.

**VerificationCase.** `row` is the table row, one action per method; `issue_otp` is
`ReserveOtp` and then `ConfirmOtp` or `FailOtp`, with `sending` the provider calls
under way. A digest is the number of its SMS. `SmsArrives` is independent of the
provider's answer. `accepted` is history.

**OwnerConsent.** A form (`sheet`) goes from rendered (`consent`, `review`) to read and
about to be appended (`posting`, `reviewing`). `MayRecord` is the check inside
the transaction, `PostConsent` the checks before it.

**VisitDesk.** `file` is what offers require of the rows outside the visits
(property, assignment, paused search). `token` is `OfficeAction`; `Confirm` claims it
and applies it in one commit. `answer_proposal` is in two steps, `AnswerCheck` and
`AnswerAccept`/`AnswerDecline`, because the web application writes in between.
`CaseChanges` is `open_case` as far as offers see it. `WebBooks`, `WebEnds` and
`WebReopens` are the routes of the web application, which check nothing about the visit;
a visit has `reopened` (history) once the web has put it back into the calendar, until it
ends again.

**VisitBook** sees only the tables of requests and visits. A booking is one step of it:
it settles an open request, at a time at which the bot has booked nobody (reopened visits
aside), and gives up the requester's former visit. What the web does to visits are steps of
their own. Offers, forms, terms and the interval inside
`answer_proposal` are hidden; the mapping (`Diary`) is the identity.

**SearchRuns.** A place is a target, a cursor (page number), the cursor behind it and
the candidates still to handle. Threads go step by step: check, begin, load, fetch, persist a
listing, save the checkpoint, end of page, end of target, recheck of heads, finish.
`LegFails` is the `except` clause, `LegAborts` an exception before the `try`.
`blind` records targets whose head came back empty, which the
crawler cannot tell from an empty target.

**AuthenticatedWatch.** `disk` is the state file, `mem` the dictionary; a run is its
row. A cycle is a sequence of tasks; each chooses a run, enters it, runs a leg. `policy` is
the one the process has read, and a row has the one it was created with; `Matches`
is `_matches_policy`, which drops heads from the queue and lets an unfinished run be
replaced. `WatchRestart` may bring another policy; `since` (history) is how many rows there were
when it last did.

**InlinePicker.** `draft` is the stored form as far as the picker goes, `screen` what
the message shows. `callback()` is `Serve`, then `Handle`, then `ShowPicker` or
`ShowElsewhere`; `ShowFails` and `Undo` are its `except` clause. Budget and district picker differ in
what a choice does, when the text is saved first and when the message closes: `picker`.

**CustomerForm.** One action per branch of `handle()`, and `ApplySuggestion` for
`decision_support.py:260-276`. Each ends in `Save`. What is shown after it may fail to be
sent, and every label may be typed, so the code takes a message at the stored step whatever
is on the screen; the screen therefore has no variable.

## 3. Runs

Two workers finish each in less than four minutes.

| run | instance | shows |
|---|---|---|
| `workflow_safety` | 1 lead, 2 needs, 2 confirmations, 2 jobs, 2 cases, 2 days, 1 fault | types; the job in hand is `running` (`HeldJobIsRunning`); orphaned running rows come from faults; verdicts follow live crawls; case versions form a chain; an answer is never overwritten |
| `journal` | 2 events with different lifetimes, 2 senders | types; `AtMostOnce`; `JournalIsTruthful`; `ClaimIsForEver`; `EventsSettle`; refinement of `OnceOnly` |
| `delivery_search` | 1 confirmation, 2 jobs, leases of 0 and 1 and a lifetime of 2 units, 1 fault | what is told is what a crawl showed; nobody is told the end of a running search unless a process was killed; journal protocol respected; the four parts together refine `SearchPromise` |
| `delivery_daily` | 1 confirmation, 2 jobs, the daily hour, no faults | types; a notice exists only beside a search of its day |
| `delivery_liveness` | 1 confirmation, 1 job, 2 days, 1 fault, fairness | every event settles, no job runs for ever |
| `office` | phone: 3 SMS, 2 attempts, 7 units of time; consent: 2 people, 1 of them a manager, 2 contents, 3 events, 2 days; search run: 2 threads, 2 targets of 2 and 1 pages, 2 listings, 1 published meanwhile; watch: 1 deal, 2 policies, 4 runs, 1 unit of time, a day of 1 | the phone is verified by a live code and under consent (`VerifiedByLiveCode`, `ConsentBehindState`), a stranded case only moves by review or withdrawal; consent rests on two (`EffectiveRestsOnTwo`) and nobody decides unseen; no listing is lost by any interruption (`CheckpointBehindItems`, `CompletedCoversSite`); under one policy no head is forgotten and backfills take turns, and no run of another policy is carried on with (`OwnFiltersOnly`) |
| `dialogues` | pickers: 2 sections of 1 button, 2 messages, 1 revision, 1 waiting tap; the form, to be resumed at 3 of its steps; visits: 1 customer, 2 requests, 2 offers, 3 visits, 1 of them by the web | a tap counts at most once; no step outlives its deal (`NoStepWithoutDeal`); one answer per request, and beside a web that books, ends and reopens visits no double booking by the bot, a moved visit is given up, acceptance is for the present case; refinement of `VisitBook` |
| `resume_lost`, `answer_lost`, `changed_request`, `failed_resume`, `stale_button` | violations | see 6 |

**Bounds.** Leads interact only through the order of claims: nothing in a row of
one lead is read for another, so one customer shows the races; what several do to
each other (waiting for the single worker) is not stated as a property. Two needs and
two confirmations are the least with which a request changes; two jobs hold both,
or one of them and the keyless job of a resumed search, and two days let a job
outlive its own. `MaxCases = 2` holds a superseded and a
current version. One fault separates a death from everything that follows; the
leases let the system recover from it. Ages count coarse units (`Lease`, `Ttl`,
`SendLease` of 0, 1 or 2); what matters is only which of two limits passes first
relative to other steps, and `Elapse` may happen between any two. Where an
instance sets them to 0, limits pass with the first unit. `MaxJobs` also bounds a
behaviour: an enqueue that would exceed it does not happen. One customer needs a
row per confirmation, and one a day for resumes and for the daily search.
`CHECK_DEADLOCK FALSE` is set for the workflow and delivery runs, where the system
does stop: no further message, no time that matters.

In `office` and `dialogues` a variable `focus` chooses at the start which
component moves: they share no state, so exploring their product would show nothing
more. `FormsClosedWhenFull` cuts off consent pages that can no longer be recorded, because
their registers have reached their bounds: what such a page could still do, be closed,
leads to a state that is explored anyway. `FewIdleDesks` does the same for the office's forms
whose request is settled, whose visit is over or for which there is no offer left; it also
leaves out the last unit of time but for an answer under way, changes of the file of a
customer who has asked for nothing, a second reopened visit beside the first, and visits
completed before their time. The theorems of section 4 have none of these bounds.
Three SMS are one confirmed, one failed and one stranded; the time limits (4, 2, 2, 1) keep
the order of the real ones. Two people are the least for approvals by another
person; two events in one register and one in the other are a record and its approval
beside a review. Two requests give a visit and its move; the web's visit is the
one the bot cannot exclude. Two pages of one target and a second target with a
repeated listing are the least with a cursor, an end of target and a duplicate; two threads
the least with a race. Four runs of one deal hold two heads and two backfills; two policies let a
restart leave the first and come back to it. One
button in each of two sections shows a tap in the wrong section; one revision and
two messages a stale one. The state of the form is finite;
`FewResumes` bounds the steps it waits to be resumed at to one that reads the deal
(the district), a budget that only a rent has, and the review.

**Fairness.** `WF` of the bot's handler steps (a handler is straight-line code), of
the worker's steps (a loop with a sleep of 3 s), of operations' steps (a tick every
10 s) and of time. For the journal alone, `WF` of `Sweep` is the constructor that each
tick runs and each time somebody opens the panel. Customers, advisers, faults and
midnight are not fair. A crawl may fail every time. The components of `office` and
`dialogues` have safety properties only: customers, staff and sites owe nothing.

**Liveness.** `RunningIsLeft` and `EventsSettle` (TLC only).

## 4. Proofs

`NotificationStore_proofs` proves, for any sets of keys and senders and any lifetimes:

| theorem | says |
|---|---|
| `JournalTypeCorrect` | `[]JournalTypeOK` |
| `NotificationsAtMostOnce` | `[]AtMostOnce` |
| `JournalTellsTheTruth` | `[]JournalIsTruthful` |
| `DoubtIsNotRetried` | `ClaimIsForEver`, an action property |
| `JournalImplementsOnceOnly` | `ImplementsOnceOnly`, the refinement |

They rest on `JournalInvariance`. None of the three invariants is inductive: a
second send would need a scope on an event already sent, and nothing in `AtMostOnce`
excludes that. `JournalInv` adds that a scope which is entered holds an event
whose row is `sending` or `unknown` (never pending, so it cannot be claimed again);
that no event is in two scopes; and that an event in a scope not yet past its body
has been sent zero times, in a finished one once. There is one lemma per
action. The refinement has one lemma per way a row changes phase. The only
assumption is `JournalAssumption` (lifetimes are natural numbers; "no event" is not
an event), which every run of a module that extends the journal evaluates.

`SearchWorkflow_proofs` proves, for any customers, needs, confirmations, request keys,
leases, deaths and days:

| theorem | says |
|---|---|
| `WorkflowTypeCorrect` | `[]WorkflowTypeOK` |
| `HeldJobStaysRunning` | `[]HeldJobIsRunning` |
| `AnswersAreLive` | `[]AnswerFollowsLiveCrawl` |
| `AnswersKept` | `AnswersAreFinal`, an action property |
| `CasesFormChain` | `[]OnlyLatestCaseIsLive` |
| `OrphansFromFaults` | `[]OrphansComeFromFaults` |

All follow from `WorkflowInvariance`, the invariance of `WorkflowInv`. To the
types and the three invariants it adds what they need of the program counters.
`CrawlPrecedesVerdict`: from the end of the crawl to `finish`, and at `finish` with
`ready` or `empty`, the job in hand has been crawled; without it nothing ties the row
that `finish` writes to a crawl. `BotHasRequest`: from the second commit of a
handler on, it serves a confirmation, and a resuming handler a request on registered
criteria, which makes what it enqueues a row of the table.
`AnswersKept` is a consequence of `HeldJobIsRunning`: `finish` overwrites any state,
and only because the row in hand is `running` is it never one with an answer.

`OrphansFromFaults` compares a count with another: a set of rows that is bounded by the faults
so far. `OrphansStep` shows that only a fault adds a row to that set, and one at most
(the job in hand); the worker on its way drops a job only after settling it.

The proof is in layers. Its first part states once what each method does to the
table of jobs (`EnqueueKeeps`: running and answered rows are left alone, new rows are
queued; `ClaimKeeps`, `FinishKeeps`, `ElapseKeeps`; rows keep the request they were made
for) and that each commit turns a chain of case versions into a chain. The second has a
lemma per action, or group of actions that write the same tables. The assumptions are
those of the modules (`JobsAssumption`, `CaseAssumption`, `WorkflowAssumption`: bounds
are naturals, a confirmation has a lead, criteria and a message id). The bounds
`MaxJobs`, `MaxCases`, `MaxFaults` and `MaxDay` are arbitrary.

`SearchDelivery_proofs` proves, for any customers, needs, confirmations, lifetimes, faults
and days, of bot, worker, operations and journal together:

| theorem | says |
|---|---|
| `DeliveryTypeCorrect` | `[]DeliveryTypeOK` |
| `DeliveryImplementsJournal` | `JournalSpec`: the composition is one of the journal's behaviours |
| `CustomersNotifiedOnce` | `[]AtMostOnce` in the composition |
| `DeliveryKeepsWorkflow` | `[]WorkflowInv` in the composition |
| `GrantsMatchJobs` | `[]GrantMatchesJob` (no run repeats it: with one customer and one need only the job could differ) |
| `NoticesFollowSearches` | `[]NoticeFollowsSearch` |
| `AnswersToldAreLive` | `[]TheAnswerIsLive` |
| `NobodyAnsweredEarly` | `[]NoAnswerBeforeTheEnd` |
| `DeliveryKeepsSearchPromise` | `ImplementsSearchPromise`: the four parts implement `SearchPromise` |
| `DeliveryKeepsPromises` | `[]JournalIsTruthful`, `ClaimIsForEver` and `ImplementsOnceOnly` in the composition |
| `AnswersKeptInDelivery` | `AnswersAreFinal` in the composition |
| `DeliveryLeavesNoOrphan` | `[]OrphansComeFromFaults` in the composition |

all from `DeliveryInvariance`. Every process here reads in one transaction and acts on
it in another, and `DeliveryInv` is mostly what stays true in between. `BotFollowsRequest`:
until the handler ends, the lead has the criteria it is confirming, the row that `enqueue()`
returned is that of the request, and the subscription is the customer's; an event is
issued from these three. `MatchFollowsSearch` says the same of the two transactions of
`prepare_daily`. `WorkerServesItsJob`: the events the worker listed and the one
it has in its scope are those of the job in hand, so what it tells is that job's verdict.
`ConfirmedOnce` is needed for `NoAnswerBeforeTheEnd` alone, and true only without a
fault: as no message of the customer is handled twice, a job of a confirmation whose answer is
being given is not queued again. Where a fault has happened the property claims
nothing, since a killed handler's message comes again and may requeue the job.
The refinement needs no mapping (the journal's variables are the composition's):
a step of a process is an action of the journal or leaves all its variables alone, so
the journal's theorems carry over (`CustomersNotifiedOnce`, `DeliveryKeepsPromises`). Those of
the workflow do not, as operations add to its queue: `AnswersKeptInDelivery` and
`DeliveryLeavesNoOrphan` consider the search of the day besides the workflow's steps.
`DeliveryKeepsSearchPromise` splits each step in two. What it does to the queue and
the crawls is `Ask`, `Search`, `Conclude` or a stutter (`TablesStep`): a row keeps its request, an
answered row is left alone, and only a row whose crawl is complete gets an answer. What it does to the journal and the deliveries
is `Answer` or a stutter (`AnswersStep`). A step does not do both (`TablesAndAnswersApart`): the
only steps that send leave the queue alone. `Answer` needs `AnswerInv`, which
`DeliveryInv` does not give: a result counts as told exactly when its event has been sent
(`AnswersCounted`), a scope that is about to send serves an event that was issued
(`OpsServeNotices` keeps the daily notices apart), and that event names the customer of its row
(`GrantIsMade`).

`DeliveryAssumption` names the events and the senders and sets the daily key apart from
those of confirmations, as the prefixes in the code do.

`SearchRuns_proofs` proves, for any site, any number of threads and any listings
published meanwhile:

| theorem | says |
|---|---|
| `SearchTypeCorrect` | `[]SearchTypeOK` |
| `CheckpointStaysBehind` | `[]CheckpointBehindItems` |
| `CompletionCovers` | `[]CompletedCoversSite` |

from `SearchRunsInvariance`, the invariance of `RunInv`. `CheckpointBehindItems` is
not inductive: what a thread will save next depends on its locals. `RunInv` says
that every place in the system, that of the row, of each thread and of each
thread's last mark, is *sound*: all that lies behind it is persisted, and its cursors are the
site's. A thread inside a page has persisted what of the page is not pending; at the end
of a target, all of the target; at a finish with `done`, all of the site. Persisted
listings and unreadable targets only grow, so a place stays sound whatever other
threads do (`SoundGrows`); therefore two threads on one run do no harm to what it
covers, though each overwrites the other's checkpoint. The one assumption is
`SearchRunsAssumption`: a site is a sequence of targets with at least one page each.

`AuthenticatedWatch_proofs` proves, for any deals in any order, any policies, any number of runs and any
length of the day and the pause:

| theorem | says |
|---|---|
| `WatchTypeCorrect` | `[]WatchTypeOK` |
| `HeadsAreRemembered` | `[]NoHeadForgotten` |
| `BackfillsTakeTurns` | `[]BackfillsInTurn` |
| `ChosenRunIsOwn` | `[]OwnFiltersOnly` |

from `WatchInvariance`, for any set of policies too. The first two promises concern the runs
created since the policy last changed: a restart with another one abandons what it finds, and
coming back to the first does not take it up where a queue has dropped it. Both are about the state file, but what a cycle writes to
it is the dictionary it has changed meanwhile; so `WatchInv` makes the three promises
(`RefersWell`, `Remembers`, `BackfillIsLast`) of both. They agree while a task chooses its run
(`SavedWhileChoosing`). The interval in which they may differ is covered by two facts on
the run in hand: one just created is the last row and its predecessor is queued or
completed (`CreatedRun`), one that is begun is entered in both (`RunInHand`). That order,
enter and save, then begin, is what makes a death at any point harmless. The
lemmas about `_remember_head` and the queue are about sequences of any length; `Dequeued`
takes away the first occurrence, as `list.remove` does, and the proof
shows that a head which is still unfinished stays. `WatchAssumption`: there is a deal, the times
and bounds are naturals.

`Verification_proofs` proves of `VerificationCase`, for any numbers of SMS and attempts and
any time limits:

| theorem | says |
|---|---|
| `VerificationTypeCorrect` | `[]VerificationTypeOK` |
| `ConsentIsBehindState` | `[]ConsentBehindState` |
| `PhoneVerifiedByLiveCode` | `[]VerifiedByLiveCode` |
| `StrandedCaseNeedsReview` | `StrandedNeedsReview`, an action property |

from `PhoneInvariant`, the invariance of `PhoneInv`. `VerifiedByLiveCode` is about four
columns written by four methods. `PhoneInv` says in which states each may be set
(`CodeInItsStates`), that a review precedes the check and the check the SMS
(`ReviewedByNow`, `CheckedAfterReview`, `SentOnFreshCheck`), and that the digest in the row is
that of the latest SMS (`LatestCode`); the last is what a late answer of the provider, to an
SMS issued before a withdrawal and a new review, could break and does not.

and of `OwnerConsent`, for any staff, contents, validity and days:

| theorem | says |
|---|---|
| `ConsentTypeCorrect` | `[]ConsentTypeOK` |
| `ConsentRestsOnTwo` | `[]EffectiveRestsOnTwo` |
| `NothingIsDecidedUnseen` | `[]NothingDecidedUnseen` |

from `RegisterInvariant`. `EffectiveRestsOnTwo` reads only the newest event; that an
approval has the matching record right before it, by another person, on the same content
and with the same expiry is a fact about all events (`ApprovalAfterSupport`), and
that terms are not stretched needs that each record starts its own
(`SupportStartsTerm`, `ReviewStartsTerm`).

`VisitDesk_proofs` proves, for any customers, members of the office, terms and bounds:

| theorem | says |
|---|---|
| `DeskTypeCorrect` | `[]DeskTypeOK` |
| `OneAnswer` | `[]OneAnswerPerRequest` |
| `NoDoubleBooking` | `[]BotNeverDoubleBooks` |
| `MovedVisit` | `[]MovedVisitIsGivenUp` |
| `AcceptedForCase` | `AcceptedForThisCase`, an action property |
| `DeskKeepsVisitBook` | `ImplementsVisitBook`, the refinement |

from `DeskInvariant`. The properties are not inductive because `answer_proposal` commits
what it checked earlier. `DeskInv` adds that all references lead to rows there are
(`References`) and that the time found free stays free of the bot's visits until the
commit (`CalendarHolds`): the bot serves nothing else meanwhile, and a visit the web puts back
then does not count as one that `Stands`. `AcceptedForCase` needs the
same of the case (`CaseHolds`). A new offer supersedes the *first* open offer of its
request; that this closes all of them (`PreviousIsOnly`) is `OneAnswerPerRequest` itself,
one step earlier. `DeskKeepsVisitBook` says that the two steps of `answer_proposal` are one.
Besides `CalendarHolds` it needs that the request stays open until the commit
(`RequestHolds`) and that the visit given up is the requester's own, which is checked only
when the request is made (`MovesOwnVisit`). Were updates handled in several threads,
a request could be resolved in between; the mutant of the run does just that.

Each of these three components rests on the assumption of its module, that the bounds
and limits are natural numbers (`OwnerConsentAssumption` also that managers are staff).

`Dialogues_proofs` proves of `InlinePicker`, for any sections and buttons and any bounds on
messages, revisions and waiting taps:

| theorem | says |
|---|---|
| `PickerTypeCorrect` | `[]PickerTypeOK` |
| `TapsCountOnce` | `[]TapAtMostOnce` |

from `PickerInvariance`. There are up to three forms at a time: the stored one, the one about to
be stored and shown, and the one read before the tap, which is put back when the edit fails.
`PickerInv` says of each that it has counted no tap of its present revision
(`Unspent`), and that the tap under way is behind the stored form until it is handled
(`TapUnderWay`). The undo is the delicate case: it brings an old revision back, and with it
the keyboard whose tap is then valid again; it is harmless because the effect goes with it.
A new message has a token that no form has seen.

Of `CustomerForm` it proves:

| theorem | says |
|---|---|
| `FormTypeCorrect` | `[]FormTypeOK`: no answer, edit or return leads to a step there is not |
| `StepsHaveTheirDeal` | `[]NoStepWithoutDeal` |

from `FormInvariance`. Whoever is past the question of the deal, edits a single answer or
has a step to resume has chosen a deal. The ways out (the menus, which keep the step to
resume), back, and afresh write different parts of the row, and the promise needs that whatever
drops the answers drops the edit and the step to resume as well. Where it does not, the
district picker fails on a form without a deal (`district_picker.py:91`), and the review cannot
be submitted. The form has no parameters, and TLC visits all of its states but those
`FewResumes` cuts off; the theorem has no such bound.

Every safety invariant, action property and refinement that a run checks is a theorem.
The other way round, `GrantMatchesJob` and four type invariants (`ConsentTypeOK`, `SearchTypeOK`,
`PickerTypeOK`, `DeskTypeOK`) are theorems that no run repeats. Only model-checked: liveness
(`EventsSettle`, `RunningIsLeft`), which needs fairness and `ENABLED`. What recursive
definitions compute for every input is not proved anywhere; the proved modules declare none.

## 5. What the models leave out

- Criteria, listings and recommendations are abstract: a crawl finds matches or
  none, a notice has new items or not. Which items are known is not modelled.
- In the search workflow: forms, wording, keyboards; `edit_message` against `send_message`; cards sent after
  the text (a failure among them is `Send` ending in `failed`).
- The lead's identity never changes (`contact_key`); criteria change only by
  confirmations, not through web forms; rows read by operations are taken as
  fresh, since it keeps no reference to them between statements.
- The `finish(..., 'failed')` inside the `except` clause is taken to succeed; when it
  does not, the row stays `running`, as after `WorkerCrash`.
- `queue.status()` in a delivery is read in the step that sends: only the worker
  itself writes the row of a settled job that is not requeued in between.
- `pending()` returns at most 20 rows; the instances have fewer.
- The Tehran date and the UTC date are equal in the hour of notices.
- SQLite transactions and commits of the CRM database are atomic.
- Visits: one adviser (calendars of different advisers do not meet); `completed` and
  `no_show` are one status; a property that is taken, or leaves the assignment, is one value.
- Consent: evidence texts, the scopes of a consent and the login of the staff.
- Search runs: pages behind the head do not change during a run; a checkpoint commit is
  one step; time budgets end a leg at any point where the code looks at the clock.
- The watch: a run's row says whether it is pending, begun or completed, and resumable, with no tie to
  `SearchRuns`, whose `failed` runs it restarts by `execute`, not `execute_async`.
- Form: area, rooms and features, on which no branch depends; the districts as one
  value, their toggling being `InlinePicker`; consent texts and support.
- `CustomerForm` takes a picker's choice as one step, and is not composed with
  `InlinePicker` or `SearchWorkflow`.

## 6. Findings

1. `answer_lost`: the right to an answer is issued after the job is visible to the
   worker, with several messenger calls in between. A worker that ends the job first
   finds no event; the event issued later waits for a job that is over, and expires.
2. `resume_lost`: the worker reads a paused case; the customer resumes, and
   `enqueue` leaves the `running` row as it is; the worker then cancels the job.
   The resumed search is queued nowhere.
3. `failed_resume`: a failed run is marked resumable and its resumption is accepted
   with "the crawl goes on from its checkpoint", but the loop of `execute_async` ends at
   once on a run that is failed.
4. `stale_button`: a section opened by typing its label leaves the revision of the
   keyboard as it was; a tap on the keyboard of the former section is applied to the
   section now open.

5. `changed_request`: `valid_event` compares the fingerprint of the event with the lead
   and client that the session of `run_job` holds, not with the database. The customer
   saves a new need after the worker's last refresh; the answer to the former need
   passes the check that should refuse it, and is sent.

Observations, which the models show or reading them suggests, without a run of their own:

- The same need confirmed in two messages of a day is searched twice, since the dedup
  key has the message id (`extraction_jobs.py:27`), where `docs/TELEGRAM_STANDALONE_CRM.md:69`
  promises one search.
- A run whose process died stays `running`, and cannot be resumed over the API.
- A head page that parses to nothing ends its target as exhausted.
- An offer of a former case is returned for a new offer at the same time, and cannot be
  accepted (`workflow.py:202`).
- A typed budget of `0 / 0`, or an edited deal left before its budget, leads to a review
  that cannot be confirmed until it is edited again.
- The web application books visits with no look at the calendar, so only the bot's own
  bookings exclude one another; and it sets any visit to any status, so a visit it puts back
  can share a time with one booked meanwhile, or stand beside the one it was moved to
  (`routes/crm.py:146-167`).
- A suggestion that is applied, or an answer that is edited, is stored before the form is
  shown; where the showing fails, the former review stays on the screen, and its button
  submits a need it does not show (`decision_support.py:273`, `customer_flow.py:653`).

Sources and quotations are in PROJECT.json.

## 7. Plan

1. *Done:* the search from confirmation to answer, with the journal; verification,
   consent and visits; search runs and the watch; the form and its pickers; the
   theorems of section 4.
2. *Done:* `DeliverySpec => JournalSpec` and the properties of the composition, of the
   watch, of the pickers and of the form as theorems; the promise to the customers and
   the visit book as abstract specifications, and that the code's steps implement them.
3. `SearchRuns` driven by `AuthenticatedWatch` in place of its rows; `CustomerForm` as
   the source of the confirmations of `SearchWorkflow`.
4. Seen items; the quota file; the dispatcher.
