----------------------------- MODULE SearchRuns -----------------------------
(***************************************************************************)
(* One accessible search run (services/search_run_service.py) and the      *)
(* threads that crawl it (crawler/divar_accessible_search.py).  A thread   *)
(* executes legs: a leg sets the run running, loads its checkpoint, walks  *)
(* the pages of each target, persists every listing and after it a         *)
(* checkpoint, looks once more at the heads and closes the run.            *)
(*                                                                         *)
(* A page is a set of listings; cursors are page numbers, NoCursor being   *)
(* the head of a target.  Pages behind the head do not change during a     *)
(* run; listings published meanwhile appear on the head.                   *)
(***************************************************************************)
EXTENDS Integers, Sequences

CONSTANTS
    Workers,   \* threads of execute_async
    Listings, Fresh,  \* listings there from the start; published during the run
    Site       \* Site[t][p]: the listings of page p of target t

ASSUME SearchRunsAssumption ==
    /\ Site \in Seq(Seq(SUBSET Listings))
    /\ \A t \in 1..Len(Site) : Len(Site[t]) > 0

Targets == 1..Len(Site)
NoCursor == 1
NoPage == 0

\* Where a crawl stands: the target, the cursor of the page in hand, the
\* cursor behind it, and the candidates of that page not yet handled.
Place(t, p, n, S) == [target |-> t, page |-> p, next |-> n, pending |-> S]
HeadOf(t) == Place(t, NoCursor, NoPage, {})
Nowhere == Place(0, NoCursor, NoPage, {})
Items == Listings \cup Fresh
Places == [target: 0..(Len(Site) + 1), page: Nat \ {0}, next: Nat, pending: SUBSET Items]

\* The latest checkpoint of a leg, with the listings it had seen by then.
Marks == [place: Places, seen: SUBSET Items]
Unmarked == [place |-> Nowhere, seen |-> {}]

VARIABLES
    status, source, canResume, \* columns of the SearchRun row
    cp, cpSeen,  \* its checkpoint: the place and seen_source_ids
    items,       \* listings with a SearchRunItem
    head,        \* listings published on the head of each target
    pc, at, seen, mark,  \* each thread: step, place, seen_ids, current_checkpoint
    why,         \* why its leg is about to end
    blind        \* targets whose head once came back unreadable (history)

runRow == <<status, source, canResume>>
cpVars == <<cp, cpSeen>>
legVars == <<at, seen, mark, why>>
searchVars == <<runRow, cpVars, items, head, pc, legVars, blind>>

Statuses == {"pending", "running", "interrupted", "completed", "failed"}
Sources == {"not_started", "running", "time_budget_reached", "refused", "completed",
            "internal_error"}
Steps == {"idle", "start", "begin", "load", "crawl", "page", "recorded", "pageDone",
          "targetDone", "recheck", "heads", "finish", "after"}

SearchTypeOK ==
    /\ status \in Statuses /\ source \in Sources /\ canResume \in BOOLEAN
    /\ cp \in Places /\ cpSeen \subseteq Items /\ items \subseteq Items
    /\ head \in [Targets -> SUBSET Fresh]
    /\ pc \in [Workers -> Steps]
    /\ at \in [Workers -> Places] /\ mark \in [Workers -> Marks]
    /\ seen \in [Workers -> SUBSET Items]
    /\ why \in [Workers -> {"time", "refused", "done"}]
    /\ blind \subseteq Targets

\* create_run
SearchInit ==
    /\ status = "pending" /\ source = "not_started" /\ canResume = TRUE
    /\ cp = HeadOf(1) /\ cpSeen = {} /\ items = {}
    /\ head = [t \in Targets |-> {}]
    /\ pc = [w \in Workers |-> "idle"]
    /\ at = [w \in Workers |-> Nowhere] /\ mark = [w \in Workers |-> Unmarked]
    /\ seen = [w \in Workers |-> {}]
    /\ why = [w \in Workers |-> "done"]
    /\ blind = {}

Goto(w, step) == pc' = [pc EXCEPT ![w] = step]

-----------------------------------------------------------------------------
\* start_search_run, or resume_search_run answering 202: a thread is started.
Resume(w) ==
    /\ pc[w] = "idle"
    /\ status # "running" /\ canResume
    /\ Goto(w, "start")
    /\ UNCHANGED <<runRow, cpVars, items, head, legVars, blind>>

\* execute_async's loop and the first check of _execute_single_leg.
LegCheck(w) ==
    /\ pc[w] = "start"
    /\ Goto(w, IF status = "failed" THEN "idle"
               ELSE IF status = "running" THEN "after" ELSE "begin")
    /\ UNCHANGED <<runRow, cpVars, items, head, legVars, blind>>

\* The thread's own time is over.
WorkerStops(w) ==
    /\ pc[w] = "start"
    /\ Goto(w, "idle")
    /\ UNCHANGED <<runRow, cpVars, items, head, legVars, blind>>

\* The run is set running, whatever it has become since the check.
LegBegin(w) ==
    /\ pc[w] = "begin"
    /\ status' = "running" /\ source' = "running"
    /\ Goto(w, "load")
    /\ UNCHANGED <<canResume, cpVars, items, head, legVars, blind>>

\* The checkpoint is loaded; listings already persisted count as seen.
LegLoad(w) ==
    /\ pc[w] = "load"
    /\ at' = [at EXCEPT ![w] = cp]
    /\ seen' = [seen EXCEPT ![w] = cpSeen \cup items]
    /\ mark' = [mark EXCEPT ![w] = Unmarked]
    /\ why' = [why EXCEPT ![w] = "done"]
    /\ Goto(w, IF cp.target > Len(Site) THEN "recheck" ELSE "crawl")
    /\ UNCHANGED <<runRow, cpVars, items, head, blind>>

\* An exception before the crawl, outside the try: nothing resets the run.
LegAborts(w) ==
    /\ pc[w] = "load"
    /\ Goto(w, "idle")
    /\ UNCHANGED <<runRow, cpVars, items, head, legVars, blind>>

EndLeg(w, reason) ==
    /\ why' = [why EXCEPT ![w] = reason]
    /\ Goto(w, "finish")

\* The candidates left by an earlier leg are handled without another request.
TakeUpPending(w) ==
    /\ pc[w] = "crawl" /\ at[w].pending # {}
    /\ Goto(w, "page")
    /\ UNCHANGED <<runRow, cpVars, items, head, legVars, blind>>

\* The candidates of a page of the site.
Candidates(t, p) == Site[t][p] \cup (IF p = NoCursor THEN head[t] ELSE {})

\* A page with listings is served.
FetchPage(w) ==
    /\ pc[w] = "crawl" /\ at[w].pending = {}
    /\ LET t == at[w].target
           p == at[w].page
           found == Candidates(t, p)
       IN /\ found # {}
          /\ at' = [at EXCEPT ![w] =
                      Place(t, p, IF p < Len(Site[t]) THEN p + 1 ELSE NoPage, found)]
    /\ Goto(w, "page")
    /\ UNCHANGED <<runRow, cpVars, items, head, seen, mark, why, blind>>

\* Mutant: a target that refuses is passed over.
RefusedGoesOn(w) ==
    /\ pc[w] = "crawl" /\ at[w].pending = {}
    /\ Goto(w, "targetDone")
    /\ UNCHANGED <<runRow, cpVars, items, head, legVars, blind>>

\* Blocked, an error, a stalled cursor, or an empty page behind the head.
FetchRefused(w) ==
    /\ pc[w] = "crawl" /\ at[w].pending = {}
    /\ EndLeg(w, "refused")
    /\ UNCHANGED <<runRow, cpVars, items, head, at, seen, mark, blind>>

\* A head without listings and without a cursor ends its target: an empty
\* target, or an answer in which parse_page finds no state.
FetchEmptyHead(w) ==
    /\ pc[w] = "crawl" /\ at[w].pending = {} /\ at[w].page = NoCursor
    /\ blind' = blind \cup {at[w].target}
    /\ Goto(w, "targetDone")
    /\ UNCHANGED <<runRow, cpVars, items, head, legVars>>

\* The leg's time is over, between pages.
StopBetweenPages(w) ==
    /\ pc[w] = "crawl"
    /\ EndLeg(w, "time")
    /\ UNCHANGED <<runRow, cpVars, items, head, at, seen, mark, blind>>

\* current_checkpoint is set, and handed to persist_checkpoint.
Mark(w, place) == mark' = [mark EXCEPT ![w] = [place |-> place, seen |-> seen[w]]]

Save(w, place) ==
    /\ cp' = place /\ cpSeen' = seen[w]
    /\ Mark(w, place)

\* Inside a page: the candidates that remain are part of the checkpoint.
StopInPage(w) ==
    /\ pc[w] = "page" /\ at[w].pending # {}
    /\ Save(w, at[w])
    /\ source' = "time_budget_reached"
    /\ EndLeg(w, "time")
    /\ UNCHANGED <<status, canResume, items, head, at, seen, blind>>

\* Candidates are handled in the order of the page, which is some order.
NextOf(w) == CHOOSE x \in at[w].pending : TRUE

Handled(w) ==
    at' = [at EXCEPT ![w] =
             Place(at[w].target, at[w].page, at[w].next, at[w].pending \ {NextOf(w)})]

SkipSeen(w) ==
    /\ pc[w] = "page" /\ at[w].pending # {} /\ NextOf(w) \in seen[w]
    /\ Handled(w)
    /\ UNCHANGED <<runRow, cpVars, items, head, pc, seen, mark, why, blind>>

\* persist_record
Record(w) ==
    /\ pc[w] = "page" /\ at[w].pending # {} /\ NextOf(w) \notin seen[w]
    /\ seen' = [seen EXCEPT ![w] = @ \cup {NextOf(w)}]
    /\ items' = items \cup {NextOf(w)}
    /\ Handled(w)
    /\ Goto(w, "recorded")
    /\ UNCHANGED <<runRow, cpVars, head, mark, why, blind>>

\* Mutant: the cursor moves on before the candidates of the page are handled.
ResumePointEarly(place) ==
    IF place.next = NoPage THEN place
    ELSE Place(place.target, place.next, NoPage, {})

\* The checkpoint inside a page keeps the cursor of the page.
ResumePoint(place) == place

\* ... and the checkpoint after it.
SaveAfterRecord(w) ==
    /\ pc[w] = "recorded"
    /\ Save(w, ResumePoint(at[w]))
    /\ source' = "running"
    /\ Goto(w, "page")
    /\ UNCHANGED <<status, canResume, items, head, at, seen, why, blind>>

\* The page is done: the cursor moves on.  Without a next one the checkpoint
\* falls back to the head of the target until the target's own end is saved.
PageEnd(w) ==
    /\ pc[w] = "page" /\ at[w].pending = {}
    /\ LET t == at[w].target
           n == at[w].next
           place == Place(t, IF n = NoPage THEN NoCursor ELSE n, NoPage, {})
       IN /\ Save(w, place)
          /\ at' = [at EXCEPT ![w] = place]
          /\ Goto(w, IF n = NoPage THEN "targetDone" ELSE "crawl")
    /\ source' = "running"
    /\ UNCHANGED <<status, canResume, items, head, seen, why, blind>>

TargetEnd(w) ==
    /\ pc[w] = "targetDone"
    /\ LET place == HeadOf(at[w].target + 1) IN
       /\ Save(w, place)
       /\ at' = [at EXCEPT ![w] = place]
       /\ Goto(w, IF place.target > Len(Site) THEN "recheck" ELSE "crawl")
    /\ source' = "running"
    /\ UNCHANGED <<status, canResume, items, head, seen, why, blind>>

\* The head recheck, without checkpoints: the heads are fetched, here at once;
\* an unreadable one counts as empty.
RecheckFetch(w, readable) ==
    /\ pc[w] = "recheck"
    /\ at' = [at EXCEPT ![w] =
                Place(at[w].target, NoCursor, NoPage,
                      UNION {Candidates(t, NoCursor) : t \in readable})]
    /\ Goto(w, "heads")
    /\ UNCHANGED <<runRow, cpVars, items, head, seen, mark, why, blind>>

\* A listing of a head is persisted when it is new.
RecheckHandle(w) ==
    /\ pc[w] = "heads" /\ at[w].pending # {}
    /\ seen' = [seen EXCEPT ![w] = @ \cup {NextOf(w)}]
    /\ items' = IF NextOf(w) \in seen[w] THEN items ELSE items \cup {NextOf(w)}
    /\ Handled(w)
    /\ UNCHANGED <<runRow, cpVars, head, pc, mark, why, blind>>

RecheckEnd(w) ==
    /\ pc[w] = "heads" /\ at[w].pending = {}
    /\ Mark(w, HeadOf(Len(Site) + 1))
    /\ EndLeg(w, "done")
    /\ UNCHANGED <<runRow, cpVars, items, head, at, seen, blind>>

RecheckRefused(w) ==
    /\ pc[w] \in {"recheck", "heads"}
    /\ EndLeg(w, "refused")
    /\ UNCHANGED <<runRow, cpVars, items, head, at, seen, mark, blind>>

\* The locals of the leg are gone.
ForgetLeg(w) ==
    /\ at' = [at EXCEPT ![w] = Nowhere]
    /\ seen' = [seen EXCEPT ![w] = {}]
    /\ mark' = [mark EXCEPT ![w] = Unmarked]
    /\ why' = [why EXCEPT ![w] = "done"]

\* The report is stored; a leg that saved nothing keeps the run's checkpoint.
LegFinish(w) ==
    /\ pc[w] = "finish"
    /\ status' = IF why[w] = "done" THEN "completed" ELSE "interrupted"
    /\ canResume' = (why[w] # "done")
    /\ source' = IF why[w] = "done" THEN "completed"
                 ELSE IF why[w] = "time" THEN "time_budget_reached" ELSE "refused"
    /\ cp' = IF mark[w] = Unmarked THEN cp ELSE mark[w].place
    /\ cpSeen' = IF mark[w] = Unmarked THEN cpSeen ELSE mark[w].seen
    /\ Goto(w, "after")
    /\ ForgetLeg(w)
    /\ UNCHANGED <<items, head, blind>>

\* An exception in the crawl or after it: rolled back, the run is failed.
LegFails(w) ==
    /\ pc[w] \notin {"idle", "start", "begin", "load", "after"}
    /\ status' = "failed" /\ source' = "internal_error" /\ canResume' = TRUE
    /\ Goto(w, "idle")
    /\ ForgetLeg(w)
    /\ UNCHANGED <<cpVars, items, head, blind>>

\* execute_async: another leg, or the thread ends.
AfterLeg(w) ==
    /\ pc[w] = "after"
    /\ Goto(w, IF canResume /\ source = "time_budget_reached" THEN "start" ELSE "idle")
    /\ UNCHANGED <<runRow, cpVars, items, head, legVars, blind>>

\* The process dies; nothing of the run is repaired at the next start.
SearchCrash ==
    /\ \E w \in Workers : pc[w] # "idle"
    /\ pc' = [w \in Workers |-> "idle"]
    /\ at' = [w \in Workers |-> Nowhere] /\ mark' = [w \in Workers |-> Unmarked]
    /\ seen' = [w \in Workers |-> {}] /\ why' = [w \in Workers |-> "done"]
    /\ UNCHANGED <<runRow, cpVars, items, head, blind>>

\* Somebody publishes a listing.
Publish(t, x) ==
    /\ \A u \in Targets : x \notin head[u]
    /\ head' = [head EXCEPT ![t] = @ \cup {x}]
    /\ UNCHANGED <<runRow, cpVars, items, pc, legVars, blind>>

SearchWorker(w) ==
    \/ Resume(w) \/ LegCheck(w) \/ WorkerStops(w) \/ LegBegin(w)
    \/ LegLoad(w) \/ LegAborts(w)
    \/ TakeUpPending(w) \/ FetchPage(w) \/ FetchRefused(w) \/ FetchEmptyHead(w)
    \/ StopBetweenPages(w) \/ StopInPage(w)
    \/ SkipSeen(w) \/ Record(w) \/ SaveAfterRecord(w)
    \/ PageEnd(w) \/ TargetEnd(w)
    \/ \E readable \in SUBSET Targets : RecheckFetch(w, readable)
    \/ RecheckHandle(w) \/ RecheckEnd(w) \/ RecheckRefused(w)
    \/ LegFinish(w) \/ LegFails(w) \/ AfterLeg(w)

SearchNext ==
    \/ \E w \in Workers : SearchWorker(w)
    \/ SearchCrash
    \/ \E t \in Targets, x \in Fresh : Publish(t, x)

SearchSpec == SearchInit /\ [][SearchNext]_searchVars

-----------------------------------------------------------------------------
\* What a crawl that stands at place has behind it, unreadable targets aside.
Behind(place) ==
    {x \in Listings :
        \E t \in Targets \ blind : \E p \in 1..Len(Site[t]) :
            /\ x \in Site[t][p]
            /\ \/ t < place.target
               \/ t = place.target /\ p < place.page
               \/ t = place.target /\ p = place.page /\ place.pending # {}
                    /\ x \notin place.pending}

(***************************************************************************)
(* The checkpoint never runs ahead of what is persisted, whichever leg     *)
(* wrote it and wherever that leg or the process stopped: a resumed run    *)
(* misses no listing of a page that was served.                            *)
(***************************************************************************)
CheckpointBehindItems == Behind(cp) \subseteq items /\ cpSeen \subseteq items

(***************************************************************************)
(* A completed run has every listing of every readable target, over any    *)
(* interruptions, crashes and concurrent legs that led there.              *)
(***************************************************************************)
CompletedCoversSite ==
    status = "completed" => Behind(HeadOf(Len(Site) + 1)) \subseteq items

(***************************************************************************)
(* "The crawl goes on from its checkpoint": the answer to a resumption,    *)
(* taken at its word: the thread it started does not give up at once.      *)
(***************************************************************************)
ResumeGoesOn == [][\A w \in Workers : LegCheck(w) => pc'[w] # "idle"]_searchVars
=============================================================================
