------------------------ MODULE SearchWorkflow_proofs ------------------------
(***************************************************************************)
(* The workflow is type-correct; the job in hand stays "running", verdicts *)
(* follow live crawls, answers are final and versions form a chain, for    *)
(* any customers, needs, confirmations, deaths and days.                   *)
(***************************************************************************)
EXTENDS SearchWorkflow, SequenceTheorems, FiniteSetTheorems, TLAPS

-----------------------------------------------------------------------------
(***************************************************************************)
(* What each transaction on the job queue and each commit on the cases     *)
(* preserves, whatever the tables hold: rows of the queue keep their       *)
(* request, and the versions of every lead's need form a chain.            *)
(***************************************************************************)
\* The versions of one lead form a chain.
Chain(row) ==
    \A i \in 1..Len(row.cases) :
        row.cases[i].state = "superseded" <=> i < Len(row.cases)

CrmInv == CrmTypeOK /\ OnlyLatestCaseIsLive

USE DEF JobStates, Answered, CaseStates

-----------------------------------------------------------------------------
(***************************************************************************)
(* The queue.                                                              *)
(***************************************************************************)
\* A function on 1..n is a sequence of length n.
LEMMA FunctionIsSeq ==
    ASSUME NEW S, NEW n \in Nat, NEW f \in [1..n -> S]
    PROVE  f \in Seq(S) /\ Len(f) = n /\ DOMAIN f = 1..n
<1>1. f \in Seq(S)
  BY SeqDef
<1> QED BY <1>1, LenProperties

\* The table is a function on its row ids.
LEMMA TableIsFunction ==
    ASSUME JobsTypeOK
    PROVE  /\ Len(jobs) \in Nat /\ DOMAIN jobs = 1..Len(jobs)
           /\ jobs \in [1..Len(jobs) -> Job]
           /\ \A i \in DOMAIN jobs : jobs[i] \in Job
BY LenProperties DEF JobsTypeOK

\* Setting a state leaves the rest of a row alone.
LEMMA MarkedKeeps ==
    ASSUME NEW j \in Job, NEW s \in JobStates
    PROVE  Marked(j, s) \in Job /\ Marked(j, s).state = s
BY JobsAssumption DEF Marked, Job

\* enqueue() touches no row that is queued, running or answered.
LEMMA RequeuedKeeps ==
    ASSUME NEW j \in Job
    PROVE  /\ Requeued(j) \in Job
           /\ j.state \notin {"failed", "cancelled"} => Requeued(j) = j
           /\ Requeued(j).state \in {j.state, "queued"}
BY MarkedKeeps DEF Requeued

\* enqueue(): running and answered rows keep their state, a new row is queued, and
\* the id it returns is that of a row.
LEMMA EnqueueKeeps ==
    ASSUME JobsTypeOK, NEW r \in Request, Enqueue(r), UNCHANGED day
    PROVE  /\ JobsTypeOK'
           /\ DOMAIN jobs \subseteq DOMAIN jobs'
           /\ \A i \in DOMAIN jobs' \ DOMAIN jobs : jobs'[i].state = "queued"
           /\ \A i \in DOMAIN jobs :
                 /\ jobs'[i].state \in {jobs[i].state, "queued"}
                 /\ jobs[i].state \in {"running", "ready", "empty"} => jobs'[i] = jobs[i]
           /\ EnqueuedId(r) \in DOMAIN jobs'
<1> USE TableIsFunction
<1>1. CASE /\ SameRequest(r) = {} /\ Len(jobs) < MaxJobs
           /\ jobs' = Append(jobs, NewJob(r))
  <2>1. NewJob(r) \in Job
    BY JobsAssumption DEF NewJob, Job, Request, JobsTypeOK
  <2>2. /\ jobs' \in Seq(Job) /\ Len(jobs') = Len(jobs) + 1
        /\ \A i \in 1..Len(jobs) : jobs'[i] = jobs[i]
        /\ jobs'[Len(jobs) + 1] = NewJob(r)
    BY <1>1, <2>1 DEF JobsTypeOK
  <2>3. DOMAIN jobs' = 1..(Len(jobs) + 1)
    BY <2>2, LenProperties
  <2>4. EnqueuedId(r) = Len(jobs) + 1
    BY <1>1 DEF EnqueuedId
  <2> QED BY <1>1, <2>2, <2>3, <2>4, JobsAssumption DEF JobsTypeOK, NewJob
<1>2. CASE /\ SameRequest(r) # {}
           /\ jobs' = [i \in 1..Len(jobs) |->
                         IF i \in SameRequest(r) THEN Requeued(jobs[i]) ELSE jobs[i]]
  <2>1. jobs' \in [1..Len(jobs) -> Job]
    BY <1>2, RequeuedKeeps
  <2>2. jobs' \in Seq(Job) /\ Len(jobs') = Len(jobs) /\ DOMAIN jobs' = 1..Len(jobs)
    BY <2>1, FunctionIsSeq
  <2>3. EnqueuedId(r) \in DOMAIN jobs
    BY <1>2 DEF EnqueuedId, SameRequest
  <2>4. ASSUME NEW i \in DOMAIN jobs
        PROVE  /\ jobs'[i].state \in {jobs[i].state, "queued"}
               /\ jobs[i].state \in {"running", "ready", "empty"} => jobs'[i] = jobs[i]
    BY <1>2, RequeuedKeeps
  <2> QED BY <2>2, <2>3, <2>4 DEF JobsTypeOK
<1> QED BY <1>1, <1>2 DEF Enqueue

\* claim(): the row taken was queued or past its lease and is running now; no other
\* row changes but for running ones that are queued again.
LEMMA ClaimKeeps ==
    ASSUME JobsTypeOK, NEW i, Claim(i), UNCHANGED day
    PROVE  /\ JobsTypeOK'
           /\ DOMAIN jobs' = DOMAIN jobs
           /\ i \in DOMAIN jobs /\ jobs'[i].state = "running"
           /\ jobs[i].state \in {"queued", "running"}
           /\ \A n \in DOMAIN jobs : n # i =>
                 \/ jobs'[n].state = jobs[n].state
                 \/ jobs[n].state = "running" /\ jobs'[n].state = "queued"
<1> USE TableIsFunction
<1>1. \A n \in DOMAIN jobs :
         /\ Reclaimed(jobs[n]) \in Job
         /\ \/ Reclaimed(jobs[n]).state = jobs[n].state
            \/ jobs[n].state = "running" /\ Reclaimed(jobs[n]).state = "queued"
  BY MarkedKeeps DEF Reclaimed, Stale
<1>2. /\ i \in DOMAIN jobs
      /\ jobs' = [n \in 1..Len(jobs) |->
                    IF n = i THEN Marked(jobs[i], "running") ELSE Reclaimed(jobs[n])]
  BY DEF Claim
<1>3. Marked(jobs[i], "running") \in Job
      /\ Marked(jobs[i], "running").state = "running"
  BY <1>2, MarkedKeeps
<1>4. jobs' \in [1..Len(jobs) -> Job]
  BY <1>1, <1>2, <1>3
<1>5. jobs' \in Seq(Job) /\ Len(jobs') = Len(jobs) /\ DOMAIN jobs' = 1..Len(jobs)
  BY <1>4, FunctionIsSeq
<1>6. jobs[i].state \in {"queued", "running"}
  BY <1>1, <1>2 DEF Claim, Claimable
<1>7. \A n \in DOMAIN jobs : n # i => jobs'[n] = Reclaimed(jobs[n])
  BY <1>2
<1>8. jobs'[i].state = "running"
  BY <1>2, <1>3
<1> QED BY <1>1, <1>2, <1>5, <1>6, <1>7, <1>8 DEF JobsTypeOK

\* finish(): one row changes, to the state given.
LEMMA FinishKeeps ==
    ASSUME JobsTypeOK, NEW i \in DOMAIN jobs, NEW s \in JobStates, Finish(i, s),
           UNCHANGED day
    PROVE  /\ JobsTypeOK'
           /\ DOMAIN jobs' = DOMAIN jobs
           /\ jobs'[i].state = s
           /\ \A n \in DOMAIN jobs : n # i => jobs'[n] = jobs[n]
<1> USE TableIsFunction
<1>1. Marked(jobs[i], s) \in Job
      /\ Marked(jobs[i], s).state = s
  BY MarkedKeeps
<1>2. jobs' = [jobs EXCEPT ![i] = Marked(jobs[i], s)]
  BY DEF Finish
<1>3. jobs' \in [1..Len(jobs) -> Job]
  BY <1>1, <1>2
<1>4. jobs' \in Seq(Job) /\ Len(jobs') = Len(jobs) /\ DOMAIN jobs' = 1..Len(jobs)
  BY <1>3, FunctionIsSeq
<1> QED BY <1>1, <1>2, <1>3, <1>4 DEF JobsTypeOK

\* Time changes no state.
LEMMA ElapseKeeps ==
    ASSUME JobsTypeOK, JobsElapse, UNCHANGED day
    PROVE  /\ JobsTypeOK'
           /\ DOMAIN jobs' = DOMAIN jobs
           /\ \A n \in DOMAIN jobs : jobs'[n].state = jobs[n].state
<1> USE TableIsFunction
<1>1. \A n \in DOMAIN jobs : Older(jobs[n]) \in Job /\ Older(jobs[n]).state = jobs[n].state
  BY JobsAssumption DEF Older, Aging, Job
<1>2. jobs' \in [1..Len(jobs) -> Job]
  BY <1>1 DEF JobsElapse
<1>3. jobs' \in Seq(Job) /\ Len(jobs') = Len(jobs) /\ DOMAIN jobs' = 1..Len(jobs)
  BY <1>2, FunctionIsSeq
<1> QED BY <1>1, <1>3 DEF JobsElapse, JobsTypeOK

\* No UPDATE touches the columns a row is requested by.
LEMMA UpdatesKeepRequest ==
    ASSUME NEW j \in Job, NEW s \in JobStates
    PROVE  /\ DedupKey(Marked(j, s)) = DedupKey(j)
           /\ DedupKey(Requeued(j)) = DedupKey(j)
           /\ DedupKey(Reclaimed(j)) = DedupKey(j)
           /\ DedupKey(Older(j)) = DedupKey(j)
<1>1. DedupKey(Marked(j, s)) = DedupKey(j) /\ DedupKey(Marked(j, "queued")) = DedupKey(j)
  BY DEF Marked, DedupKey
<1>2. DedupKey(Older(j)) = DedupKey(j)
  BY DEF Older, DedupKey, Job
<1> QED BY <1>1, <1>2 DEF Requeued, Reclaimed

\* enqueue() returns the row of the request, and changes no row of another one.
LEMMA EnqueueFindsRequest ==
    ASSUME JobsTypeOK, NEW r \in Request, Enqueue(r), UNCHANGED day
    PROVE  /\ \A i \in DOMAIN jobs :
                 /\ DedupKey(jobs'[i]) = DedupKey(jobs[i])
                 /\ \/ jobs'[i] = jobs[i]
                    \/ DedupKey(jobs[i]) = <<r.lead, day, r.crit, r.key>>
           /\ \A i \in DOMAIN jobs' \ DOMAIN jobs :
                 DedupKey(jobs'[i]) = <<r.lead, day, r.crit, r.key>>
           /\ DedupKey(jobs'[EnqueuedId(r)]) = <<r.lead, day, r.crit, r.key>>
<1> USE TableIsFunction
<1>1. CASE /\ SameRequest(r) = {} /\ Len(jobs) < MaxJobs
           /\ jobs' = Append(jobs, NewJob(r))
  <2>1. NewJob(r) \in Job
    BY JobsAssumption DEF NewJob, Job, Request, JobsTypeOK
  <2>2. /\ jobs' \in Seq(Job) /\ Len(jobs') = Len(jobs) + 1
        /\ \A i \in 1..Len(jobs) : jobs'[i] = jobs[i]
        /\ jobs'[Len(jobs) + 1] = NewJob(r)
    BY <1>1, <2>1 DEF JobsTypeOK
  <2>3. DOMAIN jobs' = 1..(Len(jobs) + 1)
    BY <2>2, LenProperties
  <2>4. EnqueuedId(r) = Len(jobs) + 1
    BY <1>1 DEF EnqueuedId
  <2>5. DedupKey(NewJob(r)) = <<r.lead, day, r.crit, r.key>>
    BY DEF NewJob, DedupKey
  <2> QED BY <2>2, <2>3, <2>4, <2>5
<1>2. CASE /\ SameRequest(r) # {}
           /\ jobs' = [i \in 1..Len(jobs) |->
                         IF i \in SameRequest(r) THEN Requeued(jobs[i]) ELSE jobs[i]]
  <2>1. \A i \in DOMAIN jobs :
           jobs'[i] = IF i \in SameRequest(r) THEN Requeued(jobs[i]) ELSE jobs[i]
    BY <1>2
  <2>2. \A i \in DOMAIN jobs : DedupKey(Requeued(jobs[i])) = DedupKey(jobs[i])
    BY UpdatesKeepRequest DEF JobStates
  <2>3. DOMAIN jobs' = DOMAIN jobs
    BY <1>2
  <2>4. \A i \in SameRequest(r) :
           i \in DOMAIN jobs /\ DedupKey(jobs[i]) = <<r.lead, day, r.crit, r.key>>
    BY DEF SameRequest
  <2>5. EnqueuedId(r) \in SameRequest(r)
    BY <1>2 DEF EnqueuedId
  <2> QED BY <2>1, <2>2, <2>3, <2>4, <2>5
<1> QED BY <1>1, <1>2 DEF Enqueue

\* claim(), finish() and time: every row stays the row of its request.
LEMMA RowsKeepRequest ==
    ASSUME JobsTypeOK,
           \/ \E i : Claim(i)
           \/ \E i \in DOMAIN jobs, s \in JobStates : Finish(i, s)
           \/ JobsElapse
    PROVE  /\ DOMAIN jobs' = DOMAIN jobs
           /\ \A i \in DOMAIN jobs : DedupKey(jobs'[i]) = DedupKey(jobs[i])
<1> USE TableIsFunction
<1>1. CASE \E i : Claim(i)
  <2>1. PICK i \in DOMAIN jobs :
           jobs' = [n \in 1..Len(jobs) |->
                      IF n = i THEN Marked(jobs[i], "running") ELSE Reclaimed(jobs[n])]
    BY <1>1 DEF Claim
  <2>2. \A n \in DOMAIN jobs :
           /\ DedupKey(Marked(jobs[n], "running")) = DedupKey(jobs[n])
           /\ DedupKey(Reclaimed(jobs[n])) = DedupKey(jobs[n])
    BY UpdatesKeepRequest DEF JobStates
  <2> QED BY <2>1, <2>2
<1>2. ASSUME NEW i \in DOMAIN jobs, NEW s \in JobStates, Finish(i, s)
      PROVE  /\ DOMAIN jobs' = DOMAIN jobs
             /\ \A n \in DOMAIN jobs : DedupKey(jobs'[n]) = DedupKey(jobs[n])
  <2>1. DedupKey(Marked(jobs[i], s)) = DedupKey(jobs[i])
    BY UpdatesKeepRequest
  <2> QED BY <1>2, <2>1 DEF Finish
<1>3. CASE JobsElapse
  <2>1. \A n \in DOMAIN jobs : DedupKey(Older(jobs[n])) = DedupKey(jobs[n])
    BY UpdatesKeepRequest DEF JobStates
  <2> QED BY <1>3, <2>1 DEF JobsElapse
<1> QED BY <1>1, <1>2, <1>3

-----------------------------------------------------------------------------
(***************************************************************************)
(* The cases.                                                              *)
(***************************************************************************)
\* The case list of a row, as SQLite returns it.
LEMMA CasesAreSeq ==
    ASSUME NEW row \in LeadRow
    PROVE  /\ row.cases \in Seq(Case) /\ Len(row.cases) \in Nat
           /\ row.cases # << >> => Len(row.cases) \in Nat \ {0}
           /\ \A i \in 1..Len(row.cases) : row.cases[i] \in Case
<1>1. row.cases \in Seq(Case)
  BY DEF LeadRow
<1> QED BY <1>1, EmptySeq, LenProperties, ElementOfSeq

\* The current case is put in a state: no other case changes.
LEMMA InStateKeeps ==
    ASSUME NEW row \in LeadRow, row.cases # << >>, NEW s \in CaseStates
    PROVE  /\ InState(row, s) \in LeadRow
           /\ InState(row, s).crit = row.crit
           /\ Len(InState(row, s).cases) = Len(row.cases)
           /\ \A i \in 1..Len(row.cases) :
                 InState(row, s).cases[i].state =
                    IF i = Len(row.cases) THEN s ELSE row.cases[i].state
<1> DEFINE e == [fp |-> CurrentCase(row).fp, state |-> s]
<1>1. Len(row.cases) \in 1..Len(row.cases)
  BY CasesAreSeq
<1>2. e \in Case
  BY <1>1, CasesAreSeq DEF CurrentCase, Case
<1> DEFINE cs == [row.cases EXCEPT ![Len(row.cases)] = e]
<1>3. /\ cs \in Seq(Case) /\ Len(cs) = Len(row.cases)
      /\ \A i \in 1..Len(row.cases) :
            cs[i] = IF i = Len(row.cases) THEN e ELSE row.cases[i]
  <2> HIDE DEF e
  <2> QED BY <1>1, <1>2, CasesAreSeq, ExceptSeq
<1>4. InState(row, s) = [crit |-> row.crit, closed |-> row.closed, cases |-> cs]
  BY DEF InState, WithCases
<1> QED BY <1>3, <1>4 DEF LeadRow

\* A new case is added behind the others.
LEMMA NewCaseKeeps ==
    ASSUME NEW row \in LeadRow, row.crit \in Criteria
    PROVE  /\ WithNewCase(row) \in LeadRow
           /\ Len(WithNewCase(row).cases) = Len(row.cases) + 1
           /\ \A i \in 1..Len(row.cases) : WithNewCase(row).cases[i] = row.cases[i]
           /\ WithNewCase(row).cases[Len(row.cases) + 1].state = "active"
<1> DEFINE e == [fp |-> row.crit, state |-> "active"]
           cs == Append(row.cases, e)
<1>1. e \in Case /\ e.state = "active"
  BY DEF Case
<1>2. /\ cs \in Seq(Case) /\ Len(cs) = Len(row.cases) + 1
      /\ \A i \in 1..Len(row.cases) : cs[i] = row.cases[i]
      /\ cs[Len(row.cases) + 1] = e
  <2> HIDE DEF e
  <2> QED BY <1>1, CasesAreSeq, AppendProperties
<1>3. WithNewCase(row) = [crit |-> row.crit, closed |-> row.closed, cases |-> cs]
  BY DEF WithNewCase, WithCases
<1> QED BY <1>1, <1>2, <1>3 DEF LeadRow

\* A chain stays one when its current case is active or paused.
LEMMA InStateChain ==
    ASSUME NEW row \in LeadRow, row.cases # << >>, Chain(row),
           NEW s \in {"active", "paused"}
    PROVE  InState(row, s) \in LeadRow /\ Chain(InState(row, s))
BY InStateKeeps, CasesAreSeq DEF Chain

\* open_case() turns a chain into a chain, with a current case.
LEMMA OpenedChain ==
    ASSUME NEW row \in LeadRow, row.crit \in Criteria, Chain(row)
    PROVE  /\ Opened(row) \in LeadRow /\ Chain(Opened(row))
           /\ Opened(row).cases # << >>
<1>1. CASE row.cases # << >> /\ CurrentCase(row).fp = row.crit
  <2>1. Opened(row) = InState(row, "active")
    BY <1>1 DEF Opened
  <2>2. Len(Opened(row).cases) # 0
    BY <1>1, <2>1, InStateKeeps, CasesAreSeq
  <2> QED BY <1>1, <2>1, <2>2, InStateChain, EmptySeq
<1>2. CASE row.cases = << >>
  <2>1. Opened(row) = WithNewCase(row)
    BY <1>2 DEF Opened
  <2>2. Len(row.cases) = 0
    BY <1>2, EmptySeq
  <2> QED BY <2>1, <2>2, NewCaseKeeps, EmptySeq DEF Chain
<1>3. CASE row.cases # << >> /\ CurrentCase(row).fp # row.crit
  <2> DEFINE old == InState(row, "superseded")
  <2>1. Opened(row) = WithNewCase(old)
    BY <1>3 DEF Opened
  <2>2. /\ old \in LeadRow /\ old.crit \in Criteria
        /\ Len(old.cases) = Len(row.cases)
        /\ \A i \in 1..Len(row.cases) : old.cases[i].state = "superseded"
    BY <1>3, InStateKeeps, CasesAreSeq DEF Chain
  <2>3. /\ Opened(row) \in LeadRow
        /\ Len(Opened(row).cases) = Len(row.cases) + 1
        /\ \A i \in 1..Len(row.cases) : Opened(row).cases[i].state = "superseded"
        /\ Opened(row).cases[Len(row.cases) + 1].state = "active"
    <3> HIDE DEF old
    <3> QED BY <2>1, <2>2, NewCaseKeeps
  <2> QED BY <2>3, CasesAreSeq, EmptySeq DEF Chain
<1> QED BY <1>1, <1>2, <1>3

\* set_search_active(lead, False) turns a chain into a chain.
LEMMA PausedChain ==
    ASSUME NEW row \in LeadRow, row.crit \in Criteria, Chain(row)
    PROVE  Paused(row) \in LeadRow /\ Chain(Paused(row))
BY OpenedChain, InStateChain DEF Paused

\* Opening and pausing a case, and moving a stage, leave the need as it is.
LEMMA CommitsKeepNeed ==
    ASSUME CrmTypeOK, NEW l \in Leads,
           \/ OpenCase(l) \/ PauseSearch(l) \/ ResumeSearch(l)
           \/ \E closed \in BOOLEAN : MoveStage(l, closed)
    PROVE  \A x \in Leads : crm'[x].crit = crm[x].crit
<1>1. ASSUME NEW row PROVE Opened(row).crit = row.crit /\ Paused(row).crit = row.crit
  BY DEF Opened, Paused, WithNewCase, InState, WithCases
<1>2. ASSUME NEW closed PROVE [crm[l] EXCEPT !.closed = closed].crit = crm[l].crit
  BY Zenon DEF CrmTypeOK, LeadRow
<1>3. PICK row : SetRow(l, row) /\ row.crit = crm[l].crit
  BY <1>1, <1>2, Zenon DEF OpenCase, PauseSearch, ResumeSearch, MoveStage
<1> QED BY <1>3 DEF SetRow, CrmTypeOK

\* A commit that replaces one lead's row by a chain keeps the invariant.
LEMMA SetRowInv ==
    ASSUME CrmInv, NEW l \in Leads, NEW row \in LeadRow, Chain(row), SetRow(l, row)
    PROVE  CrmInv'
<1>1. crm' \in [Leads -> LeadRow] /\ \A x \in Leads : crm'[x] = IF x = l THEN row ELSE crm[x]
  BY DEF SetRow, CrmInv, CrmTypeOK
<1>2. \A x \in Leads : Len(crm'[x].cases) <= MaxCases
  BY <1>1 DEF SetRow, CrmInv, CrmTypeOK
<1> QED BY <1>1, <1>2 DEF CrmInv, CrmTypeOK, OnlyLatestCaseIsLive, Chain

\* The rows of the invariant are chains of registered criteria.
LEMMA RowsAreChains ==
    ASSUME CrmInv, NEW l \in Leads
    PROVE  /\ crm[l] \in LeadRow /\ Chain(crm[l])
           /\ Registered(l) => crm[l].crit \in Criteria
BY DEF CrmInv, CrmTypeOK, OnlyLatestCaseIsLive, Chain, Registered, LeadRow

\* No customer has a case at first.
LEMMA CrmInvInit == CrmInit => CrmInv
<1> SUFFICES ASSUME CrmInit PROVE CrmInv
  OBVIOUS
<1>1. << >> \in Seq(Case) /\ Len(<< >>) = 0
  BY EmptySeq
<1> QED BY <1>1, CaseAssumption DEF CrmInit, CrmInv, CrmTypeOK, OnlyLatestCaseIsLive, LeadRow

\* Saving the form's values leaves the cases alone.
LEMMA SaveLeadInv ==
    ASSUME CrmInv, NEW l \in Leads, NEW c \in Criteria, SaveLead(l, c)
    PROVE  CrmInv'
<1> DEFINE row == [crm[l] EXCEPT !.crit = c]
<1>1. row \in LeadRow /\ Chain(row)
  BY RowsAreChains DEF Chain, LeadRow
<1>2. SetRow(l, row)
  BY DEF SaveLead
<1> HIDE DEF row
<1> QED BY <1>1, <1>2, SetRowInv

\* The pipeline stage of a client says nothing of the cases.
LEMMA MoveStageInv ==
    ASSUME CrmInv, NEW l \in Leads, NEW closed \in BOOLEAN, MoveStage(l, closed)
    PROVE  CrmInv'
<1> DEFINE row == [crm[l] EXCEPT !.closed = closed]
<1>1. row \in LeadRow /\ Chain(row)
  BY RowsAreChains DEF Chain, LeadRow
<1>2. SetRow(l, row)
  BY DEF MoveStage
<1> HIDE DEF row
<1> QED BY <1>1, <1>2, SetRowInv

\* The commits of open_case() and set_search_active().
LEMMA CaseCommitInv ==
    ASSUME CrmInv, NEW l \in Leads, OpenCase(l) \/ PauseSearch(l) \/ ResumeSearch(l)
    PROVE  CrmInv'
<1>1. /\ Opened(crm[l]) \in LeadRow /\ Chain(Opened(crm[l]))
      /\ Paused(crm[l]) \in LeadRow /\ Chain(Paused(crm[l]))
  BY RowsAreChains, OpenedChain, PausedChain DEF OpenCase, PauseSearch, ResumeSearch
<1>2. SetRow(l, Opened(crm[l])) \/ SetRow(l, Paused(crm[l]))
  BY DEF OpenCase, PauseSearch, ResumeSearch
<1> QED BY <1>1, <1>2, SetRowInv

-----------------------------------------------------------------------------
(***************************************************************************)
(* The workflow of the bot and the worker on these tables.                 *)
(***************************************************************************)
HIDE DEF JobStates, Answered, CaseStates

\* Steps of a confirmation after its lead is saved.
ConfirmingSteps == {"saved", "opened", "enqueued", "formClosed", "subscribed"}

\* The handler under way works on a request of its kind.
BotHasRequest ==
    /\ bot.step \in ConfirmingSteps => bot.req \in Confirmations
    /\ bot.step = "resumed" => bot.req \in Request

\* What follows the crawl in run_job happens after the job's crawl, and ends in a
\* final state.
CrawlPrecedesVerdict ==
    /\ worker.step \in {"loadAfter", "checkAfter", "match"} => worker.job \in crawled
    /\ worker.step = "settle" /\ worker.verdict \in Answered => worker.job \in crawled
    /\ worker.step = "settle" => worker.verdict \notin {"queued", "running"}

\* The part of the invariant about the queue and the worker.
JobsInv == HeldJobIsRunning /\ AnswerFollowsLiveCrawl /\ CrawlPrecedesVerdict

WorkflowInv ==
    /\ WorkflowTypeOK
    /\ OnlyLatestCaseIsLive
    /\ BotHasRequest
    /\ JobsInv

USE DEF BotSteps, WorkerSteps, HoldingSteps, TrySteps, ConfirmingSteps, HeldJob,
        BotHasRequest

-----------------------------------------------------------------------------
\* The invariant holds when the bot and the worker start on an empty database.
LEMMA WorkflowInvInit == WorkflowInit => WorkflowInv
<1> SUFFICES ASSUME WorkflowInit PROVE WorkflowInv
  OBVIOUS
<1>1. CrmTypeOK /\ OnlyLatestCaseIsLive
  BY CrmInvInit DEF WorkflowInit, CrmInv
<1>2. jobs \in Seq(Job) /\ Len(jobs) = 0 /\ DOMAIN jobs = {}
  BY EmptySeq, LenProperties DEF WorkflowInit, JobsInit
<1>3. JobsTypeOK
  BY <1>2, JobsAssumption DEF WorkflowInit, JobsInit, JobsTypeOK
<1>4. IdleBot \in [step: BotSteps, req: Request \cup {NoRequest}, job: Nat]
  BY DEF IdleBot
<1>5. IdleWorker \in [step: WorkerSteps, job: Nat, crit: Criteria \cup {NoCriteria},
                      closed: BOOLEAN, verdict: JobStates]
  BY DEF IdleWorker, JobStates
<1>6. faults \in 0..MaxFaults
  BY WorkflowAssumption DEF WorkflowInit
<1>7. WorkflowTypeOK
  BY <1>1, <1>3, <1>4, <1>5, <1>6 DEF WorkflowInit, WorkflowTypeOK
<1>8. JobsInv
  BY <1>2 DEF WorkflowInit, IdleWorker, JobsInv, HeldJobIsRunning, AnswerFollowsLiveCrawl,
              CrawlPrecedesVerdict
<1> QED BY <1>1, <1>7, <1>8 DEF WorkflowInv, WorkflowInit, IdleBot

\* A step of others that leaves running and answered rows in their state, and
\* answers nothing, keeps the worker's part of the invariant.
LEMMA OthersKeepJobs ==
    ASSUME JobsInv, UNCHANGED <<worker, crawled>>,
           DOMAIN jobs \subseteq DOMAIN jobs',
           \A i \in DOMAIN jobs' \ DOMAIN jobs : jobs'[i].state = "queued",
           \A i \in DOMAIN jobs :
              /\ jobs'[i].state \in {jobs[i].state, "queued"}
              /\ jobs[i].state = "running" => jobs'[i].state = "running"
    PROVE  JobsInv'
<1>1. HeldJobIsRunning'
  BY DEF JobsInv, HeldJobIsRunning
<1>2. AnswerFollowsLiveCrawl'
  <2> SUFFICES ASSUME NEW i \in DOMAIN jobs', jobs'[i].state \in Answered
               PROVE  i \in crawled
    BY DEF AnswerFollowsLiveCrawl
  <2>1. i \in DOMAIN jobs
    BY DEF Answered
  <2>2. jobs[i].state \in Answered
    BY <2>1 DEF Answered
  <2> QED BY <2>1, <2>2 DEF JobsInv, AnswerFollowsLiveCrawl
<1>3. CrawlPrecedesVerdict'
  BY DEF JobsInv, CrawlPrecedesVerdict
<1> QED BY <1>1, <1>2, <1>3 DEF JobsInv

\* A step that leaves the queue, the worker and the crawls alone.
LEMMA JobsUntouched ==
    ASSUME JobsInv, UNCHANGED <<jobs, worker, crawled>>
    PROVE  JobsInv'
BY DEF JobsInv, HeldJobIsRunning, AnswerFollowsLiveCrawl, CrawlPrecedesVerdict

\* A confirmation is a request, with its message id as the key.
LEMMA ConfirmationsAreRequests == Confirmations \subseteq Request
BY WorkflowAssumption DEF Request

-----------------------------------------------------------------------------
(***************************************************************************)
(* The bot and the world.                                                  *)
(***************************************************************************)
\* The commit that saves the lead of a confirmation.
LEMMA BotSaveLeadInv ==
    ASSUME WorkflowInv, NEW m, BotSaveLead(m)
    PROVE  WorkflowInv'
<1> USE DEF BotSaveLead
<1>1. m \in Confirmations /\ m \in Request /\ m.lead \in Leads /\ m.crit \in Criteria
  BY ConfirmationsAreRequests DEF Request
<1>2. CrmTypeOK' /\ OnlyLatestCaseIsLive'
  BY <1>1, SaveLeadInv DEF WorkflowInv, WorkflowTypeOK, CrmInv
<1> QED BY <1>1, <1>2, JobsUntouched DEF WorkflowInv, WorkflowTypeOK, JobsTypeOK

\* The commit that opens the case of the confirmed search.
LEMMA BotOpenCaseInv ==
    ASSUME WorkflowInv, BotOpenCase
    PROVE  WorkflowInv'
<1> USE DEF BotOpenCase, BotGoes
<1>1. bot.req \in Request /\ bot.req.lead \in Leads
  BY ConfirmationsAreRequests DEF Request, WorkflowInv
<1>2. CrmTypeOK' /\ OnlyLatestCaseIsLive'
  BY <1>1, CaseCommitInv DEF WorkflowInv, WorkflowTypeOK, CrmInv
<1> QED BY <1>1, <1>2, JobsUntouched DEF WorkflowInv, WorkflowTypeOK, JobsTypeOK

\* The customer pauses or resumes the search (set_search_active).
LEMMA PauseResumeInv ==
    ASSUME WorkflowInv, NEW l \in Leads, BotPause(l) \/ BotResume(l)
    PROVE  WorkflowInv'
<1> USE DEF BotPause, BotResume
<1>1. CrmTypeOK' /\ OnlyLatestCaseIsLive'
  BY CaseCommitInv DEF WorkflowInv, WorkflowTypeOK, CrmInv
<1>2. BotResume(l) =>
        [lead |-> l, crit |-> crm[l].crit, key |-> NoKey] \in Request
  BY RowsAreChains, JobsAssumption DEF ResumeSearch, Request, WorkflowInv, WorkflowTypeOK, CrmInv
<1>3. CASE BotPause(l)
  BY <1>1, <1>3, JobsUntouched DEF WorkflowInv, WorkflowTypeOK, JobsTypeOK
<1>4. CASE BotResume(l)
  <2>1. bot' \in [step: BotSteps, req: Request \cup {NoRequest}, job: Nat]
        /\ BotHasRequest'
    BY <1>2, <1>4
  <2> QED BY <1>1, <1>4, <2>1, JobsUntouched DEF WorkflowInv, WorkflowTypeOK, JobsTypeOK
<1> QED BY <1>3, <1>4

\* The adviser closes or reopens the lead.
LEMMA AdviserInv ==
    ASSUME WorkflowInv, NEW l \in Leads, AdviserMovesStage(l)
    PROVE  WorkflowInv'
<1>1. CrmTypeOK' /\ OnlyLatestCaseIsLive'
  BY MoveStageInv DEF AdviserMovesStage, WorkflowInv, WorkflowTypeOK, CrmInv
<1> QED BY <1>1, JobsUntouched DEF AdviserMovesStage, WorkflowInv, WorkflowTypeOK, JobsTypeOK

\* Queueing for a confirmation or a resumed search.
LEMMA BotEnqueueInv ==
    ASSUME WorkflowInv, BotEnqueue \/ BotResumeEnqueue
    PROVE  WorkflowInv'
<1> USE DEF BotEnqueue, BotResumeEnqueue
<1>1. bot.req \in Request /\ Enqueue(bot.req) /\ UNCHANGED day
  BY ConfirmationsAreRequests DEF WorkflowInv
<1>2. JobsTypeOK
  BY DEF WorkflowInv, WorkflowTypeOK
<1>3. /\ JobsTypeOK' /\ JobsInv'
      /\ EnqueuedId(bot.req) \in Nat
  <2>1. EnqueuedId(bot.req) \in DOMAIN jobs'
    BY <1>1, <1>2, EnqueueKeeps
  <2>2. JobsTypeOK'
    BY <1>1, <1>2, EnqueueKeeps
  <2>3. DOMAIN jobs' \subseteq Nat
    BY <2>2, LenProperties DEF JobsTypeOK
  <2>4. JobsInv'
    BY <1>1, <1>2, EnqueueKeeps, OthersKeepJobs DEF WorkflowInv
  <2> QED BY <2>1, <2>2, <2>3, <2>4
<1>4. CrmTypeOK' /\ OnlyLatestCaseIsLive'
  BY DEF WorkflowInv, WorkflowTypeOK, CrmTypeOK, OnlyLatestCaseIsLive
<1>5. /\ bot' \in [step: BotSteps, req: Request \cup {NoRequest}, job: Nat]
      /\ BotHasRequest'
  BY <1>3 DEF WorkflowInv, WorkflowTypeOK, IdleBot
<1> QED BY <1>3, <1>4, <1>5 DEF WorkflowInv, WorkflowTypeOK

\* The other steps of the handler, its failures and its death.
LEMMA BotRestInv ==
    ASSUME WorkflowInv,
           \/ BotEnqueueFails \/ BotCloseForm \/ BotSubscribe \/ BotIssue
           \/ BotAborts \/ BotCrash
    PROVE  WorkflowInv'
<1>1. JobsTypeOK' /\ CrmTypeOK' /\ OnlyLatestCaseIsLive' /\ JobsInv'
  BY JobsUntouched DEF BotEnqueueFails, BotCloseForm, BotSubscribe, BotIssue, BotAborts,
     BotCrash, WorkflowInv, WorkflowTypeOK, JobsTypeOK, CrmTypeOK, OnlyLatestCaseIsLive
<1>2. UNCHANGED worker /\ UNCHANGED crawled
  BY DEF BotEnqueueFails, BotCloseForm, BotSubscribe, BotIssue, BotAborts, BotCrash
<1>3. faults' \in 0..MaxFaults
  BY WorkflowAssumption DEF BotEnqueueFails, BotCloseForm, BotSubscribe, BotIssue, BotAborts,
     BotCrash, WorkflowInv, WorkflowTypeOK, Fault
<1>4. handled' \subseteq Confirmations
  BY DEF BotEnqueueFails, BotCloseForm, BotSubscribe, BotIssue, BotAborts, BotCrash,
     WorkflowInv, WorkflowTypeOK
<1>5. /\ bot' \in [step: BotSteps, req: Request \cup {NoRequest}, job: Nat]
      /\ BotHasRequest'
  BY DEF BotEnqueueFails, BotCloseForm, BotSubscribe, BotIssue, BotAborts, BotCrash,
     BotGoes, IdleBot, WorkflowInv, WorkflowTypeOK
<1> QED BY <1>1, <1>2, <1>3, <1>4, <1>5 DEF WorkflowInv, WorkflowTypeOK

\* Time and midnight.
LEMMA ClockInv ==
    ASSUME WorkflowInv, Elapse \/ Midnight
    PROVE  WorkflowInv'
<1>1. CASE Elapse
  <2>1. JobsTypeOK' /\ JobsInv'
    BY <1>1, ElapseKeeps, OthersKeepJobs DEF Elapse, WorkflowInv, WorkflowTypeOK
  <2> QED BY <1>1, <2>1 DEF Elapse, WorkflowInv, WorkflowTypeOK, CrmTypeOK, OnlyLatestCaseIsLive
<1>2. CASE Midnight
  <2>1. JobsTypeOK'
    BY <1>2, JobsAssumption DEF Midnight, NewDay, WorkflowInv, WorkflowTypeOK, JobsTypeOK
  <2> QED BY <1>2, <2>1, JobsUntouched
          DEF Midnight, WorkflowInv, WorkflowTypeOK, CrmTypeOK, OnlyLatestCaseIsLive
<1> QED BY <1>1, <1>2

-----------------------------------------------------------------------------
(***************************************************************************)
(* The worker.                                                             *)
(***************************************************************************)
\* The invariant speaks of the queue, the CRM, the handler, the worker and the
\* counters separately: a worker step that leaves the CRM and the handler alone
\* keeps it when it keeps the rest.
LEMMA WorkerStepInv ==
    ASSUME WorkflowInv, UNCHANGED <<crm, bot, handled>>,
           JobsTypeOK',
           worker' \in [step: WorkerSteps, job: Nat, crit: Criteria \cup {NoCriteria},
                        closed: BOOLEAN, verdict: JobStates],
           crawled' \subseteq Nat, faults' \in 0..MaxFaults,
           JobsInv'
    PROVE  WorkflowInv'
BY DEF WorkflowInv, WorkflowTypeOK, CrmTypeOK, OnlyLatestCaseIsLive

\* The row in hand is one of the table, and carries its lead's requested need.
LEMMA HeldJobIsRow ==
    ASSUME WorkflowInv, worker.step \in HoldingSteps
    PROVE  /\ worker.job \in DOMAIN jobs /\ HeldJob \in Job
           /\ HeldJob.lead \in Leads
           /\ HeldJob.state = "running"
<1>1. worker.job \in DOMAIN jobs /\ HeldJob.state = "running"
  BY DEF WorkflowInv, JobsInv, HeldJobIsRunning
<1>2. HeldJob \in Job
  BY <1>1, TableIsFunction DEF WorkflowInv, WorkflowTypeOK
<1> QED BY <1>1, <1>2 DEF Job

\* claim(): the job taken is "running", and has no crawl yet.
LEMMA WorkerClaimInv ==
    ASSUME WorkflowInv, WorkerClaim
    PROVE  WorkflowInv'
<1>1. PICK i \in DOMAIN jobs :
         /\ Claim(i)
         /\ worker' = [step |-> "loadStart", job |-> i, crit |-> NoCriteria,
                       closed |-> FALSE, verdict |-> "queued"]
         /\ crawled' = crawled \ {i}
  BY DEF WorkerClaim
<1>2. JobsTypeOK /\ UNCHANGED day
  BY DEF WorkerClaim, WorkflowInv, WorkflowTypeOK
<1>3. /\ JobsTypeOK' /\ DOMAIN jobs' = DOMAIN jobs
      /\ jobs'[i].state = "running"
      /\ \A n \in DOMAIN jobs : n # i =>
            jobs'[n].state = jobs[n].state \/ jobs'[n].state = "queued"
  BY <1>1, <1>2, ClaimKeeps
<1>4. i \in Nat
  BY <1>1, <1>2, TableIsFunction
<1>5. worker' \in [step: WorkerSteps, job: Nat, crit: Criteria \cup {NoCriteria},
                   closed: BOOLEAN, verdict: JobStates]
  BY <1>1, <1>4 DEF JobStates
<1>6. JobsInv'
  <2>1. HeldJobIsRunning'
    BY <1>1, <1>3 DEF HeldJobIsRunning
  <2>2. AnswerFollowsLiveCrawl'
    BY <1>1, <1>3 DEF WorkflowInv, JobsInv, AnswerFollowsLiveCrawl, Answered
  <2>3. CrawlPrecedesVerdict'
    BY <1>1 DEF CrawlPrecedesVerdict
  <2> QED BY <2>1, <2>2, <2>3 DEF JobsInv
<1> QED
  BY <1>1, <1>3, <1>5, <1>6, WorkerStepInv DEF WorkerClaim, WorkflowInv, WorkflowTypeOK

\* The worker's steps that write to no table: loading rows, the three checks of
\* search_enabled and the criteria, the match, the error handler and the delivery.
LEMMA WorkerReadsInv ==
    ASSUME WorkflowInv,
           \/ WorkerLoad \/ WorkerCheckStart \/ WorkerCheckLive \/ WorkerCheckAfter
           \/ WorkerMatch \/ WorkerError \/ WorkerList \/ WorkerDelivered
           \/ WorkerInterrupt \/ WorkerCrash
    PROVE  WorkflowInv'
<1> USE DEF WorkerGoes, WorkerRules, WorkerAt, IdleWorker
<1>1. UNCHANGED <<jobs, day, crm, bot, handled, crawled>>
  BY DEF WorkerLoad, WorkerCheckStart, WorkerCheckLive, WorkerCheckAfter, WorkerMatch,
     WorkerError, WorkerList, WorkerDelivered, WorkerInterrupt, WorkerCrash
<1>2. faults' \in 0..MaxFaults
  BY WorkflowAssumption DEF WorkerLoad, WorkerCheckStart, WorkerCheckLive, WorkerCheckAfter,
     WorkerMatch, WorkerError, WorkerList, WorkerDelivered, WorkerInterrupt, WorkerCrash,
     Fault, WorkflowInv, WorkflowTypeOK
<1>3. worker' \in [step: WorkerSteps, job: Nat, crit: Criteria \cup {NoCriteria},
                   closed: BOOLEAN, verdict: JobStates]
  <2>1. worker \in [step: WorkerSteps, job: Nat, crit: Criteria \cup {NoCriteria},
                    closed: BOOLEAN, verdict: JobStates]
    BY DEF WorkflowInv, WorkflowTypeOK
  <2>2. CASE WorkerLoad
    <3>1. HeldJob.lead \in Leads
      BY <2>2, HeldJobIsRow DEF WorkerLoad
    <3>2. /\ crm[HeldJob.lead].crit \in Criteria \cup {NoCriteria}
          /\ crm[HeldJob.lead].closed \in BOOLEAN
      BY <3>1 DEF WorkflowInv, WorkflowTypeOK, CrmTypeOK, LeadRow
    <3> QED BY <2>1, <2>2, <3>2 DEF WorkerLoad
  <2>3. CASE WorkerCheckStart \/ WorkerCheckLive \/ WorkerCheckAfter \/ WorkerMatch
    BY <2>1, <2>3 DEF WorkerCheckStart, WorkerCheckLive, WorkerCheckAfter, WorkerMatch,
       JobStates
  <2>4. CASE WorkerList \/ WorkerInterrupt
    BY <2>1, <2>4 DEF WorkerList, WorkerInterrupt
  <2>5. CASE WorkerError
    <3>1. "failed" \in JobStates /\ "settle" \in WorkerSteps
      BY DEF JobStates
    <3> HIDE DEF WorkerSteps
    <3> QED BY <2>1, <2>5, <3>1 DEF WorkerError
  <2>6. CASE WorkerDelivered \/ WorkerCrash
    <3>1. worker' = IdleWorker
      BY <2>6 DEF WorkerDelivered, WorkerCrash
    <3> QED BY <3>1 DEF JobStates
  <2> QED BY <2>2, <2>3, <2>4, <2>5, <2>6
<1>4. JobsInv'
  <2>1. AnswerFollowsLiveCrawl'
    BY <1>1 DEF WorkflowInv, JobsInv, AnswerFollowsLiveCrawl
  <2>2. HeldJobIsRunning'
    BY <1>1 DEF WorkerLoad, WorkerCheckStart, WorkerCheckLive, WorkerCheckAfter, WorkerMatch,
       WorkerError, WorkerList, WorkerDelivered, WorkerInterrupt, WorkerCrash,
       WorkflowInv, JobsInv, HeldJobIsRunning
  <2>3. CrawlPrecedesVerdict'
    BY <1>1 DEF WorkerLoad, WorkerCheckStart, WorkerCheckLive, WorkerCheckAfter, WorkerMatch,
       WorkerError, WorkerList, WorkerDelivered, WorkerInterrupt, WorkerCrash,
       WorkflowInv, JobsInv, CrawlPrecedesVerdict, Answered
  <2> QED BY <2>1, <2>2, <2>3 DEF JobsInv
<1> QED
  BY <1>1, <1>2, <1>3, <1>4, WorkerStepInv DEF WorkflowInv, WorkflowTypeOK, JobsTypeOK

\* The worker's three calls of finish(): cancelled, running again, and the verdict,
\* which is "ready" or "empty" only after the crawl.
LEMMA WorkerFinishInv ==
    ASSUME WorkflowInv, WorkerDrop \/ WorkerCrawl \/ WorkerSettle
    PROVE  WorkflowInv'
<1> USE DEF WorkerGoes, WorkerAt, IdleWorker
<1>1. JobsTypeOK /\ UNCHANGED day /\ worker.job \in DOMAIN jobs /\ worker.job \in Nat
  BY HeldJobIsRow, TableIsFunction
     DEF WorkerDrop, WorkerCrawl, WorkerSettle, WorkflowInv, WorkflowTypeOK
<1>2. worker \in [step: WorkerSteps, job: Nat, crit: Criteria \cup {NoCriteria},
                  closed: BOOLEAN, verdict: JobStates]
  BY DEF WorkflowInv, WorkflowTypeOK
<1>3. PICK s \in JobStates :
         /\ Finish(worker.job, s)
         /\ WorkerDrop => s = "cancelled"
         /\ WorkerCrawl => s = "running"
         /\ WorkerSettle => s = worker.verdict
  <2>1. CASE WorkerDrop
    BY <2>1 DEF WorkerDrop, WorkerCrawl, WorkerSettle, JobStates
  <2>2. CASE WorkerCrawl
    BY <2>2 DEF WorkerDrop, WorkerCrawl, WorkerSettle, JobStates
  <2>3. CASE WorkerSettle
    BY <1>2, <2>3 DEF WorkerDrop, WorkerCrawl, WorkerSettle
  <2> QED BY <2>1, <2>2, <2>3
<1>4. /\ JobsTypeOK' /\ DOMAIN jobs' = DOMAIN jobs
      /\ jobs'[worker.job].state = s
      /\ \A n \in DOMAIN jobs : n # worker.job => jobs'[n] = jobs[n]
  BY <1>1, <1>3, FinishKeeps
<1>5. worker' \in [step: WorkerSteps, job: Nat, crit: Criteria \cup {NoCriteria},
                   closed: BOOLEAN, verdict: JobStates]
  <2>1. CASE WorkerDrop
    <3>1. worker' = IdleWorker
      BY <2>1 DEF WorkerDrop
    <3> QED BY <3>1 DEF JobStates
  <2>2. CASE WorkerCrawl
    BY <1>2, <2>2 DEF WorkerCrawl
  <2>3. CASE WorkerSettle
    BY <1>2, <2>3 DEF WorkerSettle
  <2> QED BY <2>1, <2>2, <2>3
<1>6. crawled \subseteq crawled' /\ crawled' \subseteq Nat
  BY <1>1 DEF WorkerDrop, WorkerCrawl, WorkerSettle, WorkflowInv, WorkflowTypeOK
<1>7. JobsInv'
  <2>1. HeldJobIsRunning'
    <3>1. CASE WorkerCrawl
      <4>1. worker'.job = worker.job /\ s = "running"
        BY <1>3, <3>1 DEF WorkerCrawl
      <4> QED BY <1>1, <1>4, <4>1 DEF HeldJobIsRunning
    <3>2. CASE WorkerDrop \/ WorkerSettle
      <4>1. worker'.step \notin HoldingSteps
        BY <3>2 DEF WorkerDrop, WorkerSettle
      <4> QED BY <4>1 DEF HeldJobIsRunning
    <3> QED BY <3>1, <3>2
  <2>2. s \in Answered => worker.job \in crawled
    BY <1>3 DEF WorkerDrop, WorkerCrawl, WorkerSettle, Answered, WorkflowInv, JobsInv,
       CrawlPrecedesVerdict
  <2>3. AnswerFollowsLiveCrawl'
    BY <1>4, <1>6, <2>2 DEF WorkflowInv, JobsInv, AnswerFollowsLiveCrawl
  <2>4. CrawlPrecedesVerdict'
    BY DEF WorkerDrop, WorkerCrawl, WorkerSettle, CrawlPrecedesVerdict
  <2> QED BY <2>1, <2>3, <2>4 DEF JobsInv
<1>8. UNCHANGED <<crm, bot, handled>> /\ faults' \in 0..MaxFaults
  BY DEF WorkerDrop, WorkerCrawl, WorkerSettle, WorkflowInv, WorkflowTypeOK
<1> QED BY <1>4, <1>5, <1>6, <1>7, <1>8, WorkerStepInv

-----------------------------------------------------------------------------
(***************************************************************************)
(* The theorems.                                                           *)
(***************************************************************************)
\* Every step of the system keeps the invariant.
LEMMA WorkflowInvStep ==
    ASSUME WorkflowInv, [WorkflowNext]_workflowVars
    PROVE  WorkflowInv'
<1>1. CASE Customer
  BY <1>1, BotSaveLeadInv, PauseResumeInv DEF Customer
<1>2. CASE BotStep
  BY <1>2, BotOpenCaseInv, BotEnqueueInv, BotRestInv DEF BotStep
<1>3. CASE WorkerStep
  BY <1>3, WorkerClaimInv, WorkerReadsInv, WorkerFinishInv DEF WorkerStep
<1>4. CASE \E l \in Leads : AdviserMovesStage(l)
  BY <1>4, AdviserInv
<1>5. CASE BotEnqueueFails \/ BotAborts \/ BotCrash
  BY <1>5, BotRestInv
<1>6. CASE WorkerInterrupt \/ WorkerCrash
  BY <1>6, WorkerReadsInv
<1>7. CASE Elapse \/ Midnight
  BY <1>7, ClockInv
<1>8. CASE UNCHANGED workflowVars
  BY <1>8, JobsUntouched DEF workflowVars, WorkflowInv, WorkflowTypeOK, JobsTypeOK, CrmTypeOK,
     OnlyLatestCaseIsLive
<1> QED BY <1>1, <1>2, <1>3, <1>4, <1>5, <1>6, <1>7, <1>8 DEF WorkflowNext

\* WorkflowInv is an invariant of the workflow.
THEOREM WorkflowInvariance == WorkflowSpec => []WorkflowInv
<1>1. WorkflowInit => WorkflowInv
  BY WorkflowInvInit
<1>2. WorkflowInv /\ [WorkflowNext]_workflowVars => WorkflowInv'
  BY WorkflowInvStep
<1> QED BY <1>1, <1>2, PTL DEF WorkflowSpec

\* The queue, the CRM rows, the handler and the worker keep their types.
THEOREM WorkflowTypeCorrect == WorkflowSpec => []WorkflowTypeOK
<1>1. WorkflowInv => WorkflowTypeOK
  BY DEF WorkflowInv
<1> QED BY <1>1, WorkflowInvariance, PTL

\* Whatever the bot submits and whoever died before, the job that run_job works on
\* is "running" until run_job settles it.
THEOREM HeldJobStaysRunning == WorkflowSpec => []HeldJobIsRunning
<1>1. WorkflowInv => HeldJobIsRunning
  BY DEF WorkflowInv, JobsInv
<1> QED BY <1>1, WorkflowInvariance, PTL

\* No job is "ready" or "empty" unless the crawl of its latest run finished.
THEOREM AnswersAreLive == WorkflowSpec => []AnswerFollowsLiveCrawl
<1>1. WorkflowInv => AnswerFollowsLiveCrawl
  BY DEF WorkflowInv, JobsInv
<1> QED BY <1>1, WorkflowInvariance, PTL

\* However customers submit, pause and resume, only the latest version of a need is
\* live and every earlier one is superseded.
THEOREM CasesFormChain == WorkflowSpec => []OnlyLatestCaseIsLive
<1>1. WorkflowInv => OnlyLatestCaseIsLive
  BY DEF WorkflowInv
<1> QED BY <1>1, WorkflowInvariance, PTL

\* The steps that write to the queue or to the history of crawls.
LEMMA QueueSteps ==
    ASSUME [WorkflowNext]_workflowVars
    PROVE  \/ BotEnqueue \/ BotResumeEnqueue \/ WorkerClaim
           \/ WorkerDrop \/ WorkerCrawl \/ WorkerSettle
           \/ Elapse \/ UNCHANGED <<jobs, crawled>>
BY DEF WorkflowNext, Customer, BotStep, WorkerStep, BotSaveLead, BotPause, BotResume,
   BotOpenCase, BotCloseForm, BotSubscribe, BotIssue, WorkerLoad, WorkerCheckStart,
   WorkerCheckLive, WorkerCheckAfter, WorkerMatch, WorkerError, WorkerList,
   WorkerDelivered, AdviserMovesStage, BotEnqueueFails, BotAborts, BotCrash,
   WorkerInterrupt, WorkerCrash, Midnight, workflowVars

\* A step changes no row of the queue that has an answer.
LEMMA AnswerKeptByStep ==
    ASSUME WorkflowInv, [WorkflowNext]_workflowVars,
           NEW i \in DOMAIN jobs, jobs[i].state \in Answered
    PROVE  jobs'[i].state = jobs[i].state
<1> USE DEF Answered
<1>1. JobsTypeOK
  BY DEF WorkflowInv, WorkflowTypeOK
<1>2. CASE BotEnqueue \/ BotResumeEnqueue
  <2>1. bot.req \in Request /\ Enqueue(bot.req) /\ UNCHANGED day
    BY <1>2, ConfirmationsAreRequests DEF BotEnqueue, BotResumeEnqueue, WorkflowInv
  <2> QED BY <1>1, <2>1, EnqueueKeeps
<1>3. CASE WorkerClaim
  <2>1. PICK n \in DOMAIN jobs : Claim(n) /\ UNCHANGED day
    BY <1>3 DEF WorkerClaim
  <2> QED BY <1>1, <2>1, ClaimKeeps
<1>4. CASE WorkerDrop \/ WorkerCrawl \/ WorkerSettle
  <2>1. worker.job \in DOMAIN jobs /\ jobs[worker.job].state = "running"
    BY <1>4, HeldJobIsRow DEF WorkerDrop, WorkerCrawl, WorkerSettle
  <2>2. PICK s : jobs' = [jobs EXCEPT ![worker.job] = Marked(jobs[worker.job], s)]
    BY <1>4 DEF WorkerDrop, WorkerCrawl, WorkerSettle, Finish
  <2> QED BY <2>1, <2>2
<1>5. CASE Elapse
  BY <1>1, <1>5, ElapseKeeps DEF Elapse
<1>6. CASE UNCHANGED jobs
  BY <1>6
<1> QED BY <1>2, <1>3, <1>4, <1>5, <1>6, QueueSteps

\* An answered job keeps its answer for ever: neither another submission of its
\* request nor a worker left over from an earlier run overwrites it.
THEOREM AnswersKept == WorkflowSpec => AnswersAreFinal
<1>1. WorkflowInv /\ [WorkflowNext]_workflowVars =>
        [\A i \in DOMAIN jobs :
            jobs[i].state \in Answered => jobs'[i].state = jobs[i].state]_jobs
  BY AnswerKeptByStep
<1> QED BY <1>1, WorkflowInvariance, PTL DEF WorkflowSpec, AnswersAreFinal

-----------------------------------------------------------------------------
(***************************************************************************)
(* Orphans.                                                                *)
(***************************************************************************)
\* There are finitely many orphans.
LEMMA OrphansAreFinite ==
    ASSUME JobsTypeOK
    PROVE  IsFiniteSet(Orphans) /\ Cardinality(Orphans) \in Nat
<1>1. IsFiniteSet(DOMAIN jobs)
  BY TableIsFunction, FS_Interval
<1>2. Orphans \subseteq DOMAIN jobs
  BY DEF Orphans
<1> QED BY <1>1, <1>2, FS_Subset, FS_CardinalityType

\* A set that gains at most one element gains at most one in size.
LEMMA OneMore ==
    ASSUME NEW S, IsFiniteSet(S), NEW x, NEW T, T \subseteq S \cup {x}
    PROVE  Cardinality(T) <= Cardinality(S) + 1
<1>1. IsFiniteSet(S \cup {x}) /\ Cardinality(S \cup {x}) \in {Cardinality(S), Cardinality(S) + 1}
  BY FS_AddElement
<1>2. Cardinality(T) <= Cardinality(S \cup {x}) /\ IsFiniteSet(T)
  BY <1>1, FS_Subset
<1>3. Cardinality(T) \in Nat /\ Cardinality(S) \in Nat
  BY <1>2, FS_CardinalityType
<1> QED BY <1>1, <1>2, <1>3

\* Enqueueing, claiming and time make no row an orphan.
LEMMA QueueMakesNoOrphan ==
    ASSUME WorkflowInv, UNCHANGED day,
           \/ (\E r \in Request : Enqueue(r)) /\ UNCHANGED worker
           \/ WorkerClaim
           \/ JobsElapse /\ UNCHANGED worker
    PROVE  Orphans' \subseteq Orphans
<1>1. JobsTypeOK
  BY DEF WorkflowInv, WorkflowTypeOK
<1>2. ASSUME NEW r \in Request, Enqueue(r), UNCHANGED worker
      PROVE  Orphans' \subseteq Orphans
  BY <1>1, <1>2, EnqueueKeeps DEF Orphans
<1>3. CASE WorkerClaim
  <2>1. PICK i \in DOMAIN jobs :
           Claim(i) /\ worker.step = "idle" /\ worker'.step = "loadStart" /\ worker'.job = i
    BY <1>3 DEF WorkerClaim
  <2>2. /\ DOMAIN jobs' = DOMAIN jobs
        /\ \A n \in DOMAIN jobs : n # i /\ jobs'[n].state = "running" => jobs[n].state = "running"
    BY <1>1, <2>1, ClaimKeeps
  <2> QED BY <2>1, <2>2 DEF Orphans
<1>4. CASE JobsElapse /\ UNCHANGED worker
  BY <1>1, <1>4, ElapseKeeps DEF Orphans
<1> QED BY <1>2, <1>3, <1>4

\* The worker drops no running job on its way: it holds the job or has settled it.
LEMMA WorkerMakesNoOrphan ==
    ASSUME WorkflowInv, WorkerStep
    PROVE  Orphans' \subseteq Orphans
<1> USE DEF WorkerGoes, WorkerRules, WorkerAt
<1>1. CASE WorkerClaim
  BY <1>1, QueueMakesNoOrphan DEF WorkerClaim
<1>2. CASE \/ WorkerLoad \/ WorkerCheckStart \/ WorkerCheckLive \/ WorkerCheckAfter
           \/ WorkerMatch \/ WorkerError
  <2>1. /\ UNCHANGED jobs /\ worker'.step \in HoldingSteps /\ worker'.job = worker.job
        /\ worker.step \in HoldingSteps
    BY <1>2 DEF WorkerLoad, WorkerCheckStart, WorkerCheckLive, WorkerCheckAfter,
       WorkerMatch, WorkerError
  <2> QED BY <2>1 DEF Orphans
<1>3. CASE WorkerList \/ WorkerDelivered
  BY <1>3 DEF WorkerList, WorkerDelivered, Orphans
<1>4. CASE WorkerDrop \/ WorkerCrawl \/ WorkerSettle
  <2>1. worker.job \in DOMAIN jobs
    BY <1>4, HeldJobIsRow DEF WorkerDrop, WorkerCrawl, WorkerSettle
  <2>2. /\ DOMAIN jobs' = DOMAIN jobs
        /\ \A n \in DOMAIN jobs : n # worker.job => jobs'[n] = jobs[n]
    BY <1>4 DEF WorkerDrop, WorkerCrawl, WorkerSettle, Finish
  <2>3. CASE WorkerCrawl
    BY <2>2, <2>3 DEF WorkerCrawl, Orphans
  <2>4. CASE WorkerDrop \/ WorkerSettle
    <3>1. jobs'[worker.job].state # "running"
      BY <2>1, <2>4 DEF WorkerDrop, WorkerSettle, Finish, Marked, WorkflowInv, JobsInv,
         CrawlPrecedesVerdict
    <3> QED BY <2>2, <2>4, <3>1 DEF WorkerDrop, WorkerSettle, Orphans
  <2> QED BY <1>4, <2>3, <2>4
<1> QED BY <1>1, <1>2, <1>3, <1>4 DEF WorkerStep

\* A step makes an orphan only by a fault, and then at most one.
LEMMA OrphansStep ==
    ASSUME WorkflowInv, [WorkflowNext]_workflowVars
    PROVE  \/ Orphans' \subseteq Orphans /\ UNCHANGED faults
           \/ \E i : Orphans' \subseteq Orphans \cup {i} /\ Fault
<1>1. CASE WorkerStep
  <2>1. UNCHANGED faults
    BY <1>1 DEF WorkerStep, WorkerClaim, WorkerLoad, WorkerCheckStart, WorkerDrop,
       WorkerCheckLive, WorkerCrawl, WorkerCheckAfter, WorkerMatch, WorkerError,
       WorkerSettle, WorkerList, WorkerDelivered
  <2> QED BY <1>1, <2>1, WorkerMakesNoOrphan
<1>2. CASE BotEnqueue \/ BotResumeEnqueue
  <2>1. bot.req \in Request /\ Enqueue(bot.req) /\ UNCHANGED <<day, worker, faults>>
    BY <1>2, ConfirmationsAreRequests DEF BotEnqueue, BotResumeEnqueue, WorkflowInv
  <2> QED BY <2>1, QueueMakesNoOrphan
<1>3. CASE Elapse
  BY <1>3, QueueMakesNoOrphan DEF Elapse
<1>4. CASE \/ Customer \/ BotOpenCase \/ BotCloseForm \/ BotSubscribe \/ BotIssue
           \/ (\E l \in Leads : AdviserMovesStage(l)) \/ Midnight
           \/ UNCHANGED workflowVars
  <2>1. UNCHANGED <<jobs, worker, faults>>
    BY <1>4 DEF Customer, BotSaveLead, BotPause, BotResume, BotOpenCase, BotCloseForm,
       BotSubscribe, BotIssue, AdviserMovesStage, Midnight, workflowVars
  <2> QED BY <2>1 DEF Orphans
<1>5. CASE BotEnqueueFails \/ BotAborts \/ BotCrash
  <2>1. UNCHANGED <<jobs, worker>> /\ Fault
    BY <1>5 DEF BotEnqueueFails, BotAborts, BotCrash
  <2> QED BY <2>1 DEF Orphans
<1>6. CASE WorkerInterrupt \/ WorkerCrash
  <2>1. UNCHANGED jobs /\ Fault
    BY <1>6 DEF WorkerInterrupt, WorkerCrash
  <2>2. Orphans' \subseteq Orphans \cup {worker.job}
    BY <2>1 DEF Orphans
  <2> QED BY <2>1, <2>2
<1> QED BY <1>1, <1>2, <1>3, <1>4, <1>5, <1>6 DEF WorkflowNext, BotStep

\* A step that makes an orphan at most by a fault keeps the bound on them.
LEMMA OrphansCounted ==
    ASSUME WorkflowInv, WorkflowInv', OrphansComeFromFaults,
           \/ Orphans' \subseteq Orphans /\ UNCHANGED faults
           \/ \E i : Orphans' \subseteq Orphans \cup {i} /\ Fault
    PROVE  OrphansComeFromFaults'
<1>1. /\ IsFiniteSet(Orphans) /\ Cardinality(Orphans) \in Nat
      /\ Cardinality(Orphans) <= faults /\ faults \in Nat
  BY OrphansAreFinite, WorkflowAssumption
  DEF WorkflowInv, WorkflowTypeOK, OrphansComeFromFaults
<1>2. IsFiniteSet(Orphans') /\ Cardinality(Orphans') \in Nat
  <2>1. JobsTypeOK'
    BY DEF WorkflowInv, WorkflowTypeOK
  <2>2. IsFiniteSet(DOMAIN jobs')
    <3>1. Len(jobs') \in Nat /\ DOMAIN jobs' = 1..Len(jobs')
      BY <2>1, LenProperties DEF JobsTypeOK
    <3> QED BY <3>1, FS_Interval
  <2>3. Orphans' \subseteq DOMAIN jobs'
    BY DEF Orphans
  <2> QED BY <2>2, <2>3, FS_Subset, FS_CardinalityType
<1>3. CASE Orphans' \subseteq Orphans /\ UNCHANGED faults
  <2>1. Cardinality(Orphans') <= Cardinality(Orphans)
    BY <1>1, <1>3, FS_Subset
  <2> QED BY <1>1, <1>2, <1>3, <2>1 DEF OrphansComeFromFaults
<1>4. ASSUME NEW i, Orphans' \subseteq Orphans \cup {i}, Fault
      PROVE  OrphansComeFromFaults'
  <2>1. Cardinality(Orphans') <= Cardinality(Orphans) + 1
    BY <1>1, <1>4, OneMore
  <2> QED BY <1>1, <1>2, <1>4, <2>1 DEF OrphansComeFromFaults, Fault
<1> QED BY <1>3, <1>4

\* The bound on the orphans is kept.
LEMMA OrphansBoundKept ==
    ASSUME WorkflowInv, OrphansComeFromFaults, [WorkflowNext]_workflowVars
    PROVE  OrphansComeFromFaults'
BY OrphansStep, OrphansCounted, WorkflowInvStep

\* At first there is neither an orphan nor a fault.
LEMMA NoOrphanAtFirst == WorkflowInit => OrphansComeFromFaults
<1> SUFFICES ASSUME WorkflowInit PROVE Cardinality(Orphans) = 0 /\ faults = 0
  BY DEF OrphansComeFromFaults
<1>1. Orphans = {}
  BY DEF WorkflowInit, JobsInit, Orphans
<1> QED BY <1>1, FS_EmptySet DEF WorkflowInit

\* Rows left "running" with nobody at work on them are at most as many as the
\* faults: no path of run_job and no order of submissions leaves one behind.
THEOREM OrphansFromFaults == WorkflowSpec => []OrphansComeFromFaults
<1>1. WorkflowInv /\ OrphansComeFromFaults /\ [WorkflowNext]_workflowVars
        => OrphansComeFromFaults'
  BY OrphansBoundKept
<1> QED BY <1>1, NoOrphanAtFirst, WorkflowInvariance, PTL DEF WorkflowSpec
=============================================================================
