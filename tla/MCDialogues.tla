---------------------------- MODULE MCDialogues -----------------------------
(***************************************************************************)
(* What customers do in the bot, for the model checker: the need form, its *)
(* pickers, and visits.  The form takes what a picker chose as one step,   *)
(* and visits have tables of their own, so a behaviour moves one of the    *)
(* three only: focus, chosen at the start, says which of Parts.            *)
(***************************************************************************)
EXTENDS InlinePicker, CustomerForm, VisitDesk, TLC

CONSTANTS
    Parts,  \* the components that a run is about
    section1, section2, button, mina, ali

MCSections == {section1, section2}
MCButtons == {button}
MCVisitCustomers == {mina}
MCMembers == {ali}
MCSymmetry == Permutations(MCSections)

\* The steps a form may wait to be resumed at, for the size of a run: one that
\* reads the deal, a budget that only a rent has, and the review.
FewResumes == form.resume \in {NoStep, "district", "max_deposit", "review"}

\* Visits, for the size of a run: nothing that leads nowhere is followed.
\*   - A form that can no longer have an effect, as its request is settled,
\*     its visit over, or no other offer fits the run.
\*   - The last hour, but for an answer under way: no later visit can be booked.
\*   - A customer who has asked for nothing, and whose file is not open.
\* The web puts one visit at a time back, and completes none before its time.
FewIdleDesks ==
    /\ \A m \in Members :
         /\ token[m].kind = "visit_offer" => Len(offers) < MaxOffers
         /\ token[m].kind \in {"visit_offer", "resolve"} =>
              requests[token[m].target].outcome = "pending"
         /\ token[m].kind = "visit_status" => visits[token[m].target].status = "scheduled"
    /\ now = MaxTime => answering # NoAnswer
    /\ \A c \in VisitCustomers :
         file[c] # "open" => \E r \in 1..Len(requests) : requests[r].outcome = "pending"
    /\ Cardinality({v \in 1..Len(visits) : visits[v].reopened}) <= 1
    /\ \A v \in 1..Len(visits) : visits[v].status = "completed" => visits[v].at <= now

VARIABLE focus

MCInit ==
    /\ focus \in Parts
    /\ PickerInit /\ FormInit /\ DeskInit
    /\ focus # "picker" => picker = "budget"

MCNext ==
    /\ \/ focus = "picker" /\ PickerNext /\ UNCHANGED <<formVars, deskVars>>
       \/ focus = "form" /\ FormNext /\ UNCHANGED <<pickerVars, deskVars>>
       \/ focus = "visits" /\ DeskNext /\ UNCHANGED <<pickerVars, formVars>>
    /\ UNCHANGED focus

MCSpec == MCInit /\ [][MCNext]_<<pickerVars, formVars, deskVars, focus>>
=============================================================================
