----------------------------- MODULE SearchCase -----------------------------
(***************************************************************************)
(* What the CRM database knows of a customer's need: the criteria on the   *)
(* CustomerLead and Client rows, the sales stage of the Client row, and    *)
(* the versioned SearchCase rows of telegram_bot/workflow.py.  Each action *)
(* is one commit.                                                          *)
(***************************************************************************)
EXTENDS Customers

CONSTANTS
    NoCriteria,   \* no CustomerLead row yet
    MaxCases      \* bound on the SearchCase rows of one lead

ASSUME CaseAssumption == NoCriteria \notin Criteria /\ MaxCases \in Nat \ {0}

VARIABLE crm

CaseStates == {"active", "paused", "superseded"}

Case == [fp: Criteria, state: CaseStates]

\* closed: Client.lead_status is "lost" or "contract_won".
LeadRow == [crit: Criteria \cup {NoCriteria}, closed: BOOLEAN, cases: Seq(Case)]

CrmTypeOK ==
    /\ crm \in [Leads -> LeadRow]
    /\ \A l \in Leads : Len(crm[l].cases) <= MaxCases

CrmInit == crm = [l \in Leads |->
                    [crit |-> NoCriteria, closed |-> FALSE, cases |-> << >>]]

Registered(l) == crm[l].crit # NoCriteria

\* current_case(): the SearchCase row of highest id.
CurrentCase(row) == row.cases[Len(row.cases)]

\* The part of search_enabled() that reads the SearchCase table.
CaseEnabled(row) == row.cases = << >> \/ CurrentCase(row).state = "active"

SearchEnabled(l) == Registered(l) /\ ~crm[l].closed /\ CaseEnabled(crm[l])

\* The row with these cases.
WithCases(row, cases) == [crit |-> row.crit, closed |-> row.closed, cases |-> cases]

\* The row with its current case in state s.
InState(row, s) ==
    WithCases(row, [row.cases EXCEPT ![Len(row.cases)] =
                       [fp |-> CurrentCase(row).fp, state |-> s]])

\* The row with a new active case for its criteria.
WithNewCase(row) ==
    WithCases(row, Append(row.cases, [fp |-> row.crit, state |-> "active"]))

\* Mutant: the former case is left in the state it had.
OpenedBeside(row) ==
    IF row.cases # << >> /\ CurrentCase(row).fp = row.crit
    THEN InState(row, "active")
    ELSE WithNewCase(row)

\* open_case(): reopen the current case when it is for these very criteria,
\* otherwise supersede it and register a new one.
Opened(row) ==
    IF row.cases # << >> /\ CurrentCase(row).fp = row.crit
    THEN InState(row, "active")
    ELSE WithNewCase(IF row.cases = << >> THEN row ELSE InState(row, "superseded"))

\* set_search_active(lead, False).
Paused(row) == InState(IF row.cases = << >> THEN Opened(row) ELSE row, "paused")

SetRow(l, row) ==
    /\ Len(row.cases) <= MaxCases
    /\ crm' = [crm EXCEPT ![l] = row]

\* DualCRMStore.store_customer_lead: the form's values reach lead and client.
SaveLead(l, c) == SetRow(l, [crm[l] EXCEPT !.crit = c])

OpenCase(l) == Registered(l) /\ SetRow(l, Opened(crm[l]))

PauseSearch(l) == Registered(l) /\ SetRow(l, Paused(crm[l]))

\* set_search_active(lead, True) up to its commit; refused on a closed file.
ResumeSearch(l) == Registered(l) /\ ~crm[l].closed /\ SetRow(l, Opened(crm[l]))

\* An adviser moves the client to another stage of the sales pipeline.
MoveStage(l, closed) == Registered(l) /\ SetRow(l, [crm[l] EXCEPT !.closed = closed])

(***************************************************************************)
(* Versions are a chain: every case but the latest is superseded, and the  *)
(* latest one never is (open_case, set_search_active).                     *)
(***************************************************************************)
OnlyLatestCaseIsLive ==
    \A l \in Leads : \A i \in 1..Len(crm[l].cases) :
        crm[l].cases[i].state = "superseded" <=> i < Len(crm[l].cases)
=============================================================================
