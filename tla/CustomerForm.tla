---------------------------- MODULE CustomerForm ----------------------------
(***************************************************************************)
(* The customer's need form in the Telegram bot                            *)
(* (telegram_bot/customer_flow.py): one row of customer_forms, the menus   *)
(* around it and the registered need it turns into.                        *)
(*                                                                         *)
(* handle() serves one message: it reads the row, changes it, saves it and *)
(* shows the new step.  The sending may fail, or the process may die,      *)
(* after the save, which leaves a former keyboard on the screen; and every *)
(* label and value may be typed.  So a message is taken at the stored      *)
(* step, whatever the screen shows, and what it shows has no variable.     *)
(* Two inline buttons write the row too: "edit my need", which says the    *)
(* same as the label, and a suggestion of decision_support.py.             *)
(*                                                                         *)
(* A deposit or rent is unset, zero or some amount; districts and urgency  *)
(* are given or not; area, rooms and features are left out.                *)
(***************************************************************************)
EXTENDS Naturals, Sequences, SequencesExt

VARIABLES
    form,   \* the stored state of the form
    lead    \* the deal of the need registered in the CRM, if there is one

formVars == <<form, lead>>

Deals == {"none", "sale", "rent"}
Amount == {"unset", "zero", "some"}
\* The support and stop menus lead nowhere the main menu does not.
Menus == {"menu", "search_menu", "new_request_confirm", "need_menu", "edit_menu"}
FormSteps == {"deal_type", "area", "min_rooms", "district", "max_budget", "max_deposit",
              "max_rent", "features", "urgency", "contact", "review"}
NoStep == "no step"

\* edit: a single answer is edited; dirty: draft_dirty; section: budget_field;
\* full: full_mortgage; phone: with the time it was shared.  Which region the
\* district picker shows is left to InlinePicker.
Forms == [step: Menus \cup FormSteps, resume: FormSteps \cup {NoStep}, edit: BOOLEAN,
          dirty: BOOLEAN, section: {"none", "deposit", "rent"}, deal: Deals,
          budget: {"unset", "some"}, deposit: Amount, rent: Amount, full: BOOLEAN,
          place: BOOLEAN, urgency: BOOLEAN, phone: BOOLEAN]

FormTypeOK ==
    /\ form \in Forms
    /\ lead \in Deals

Empty == [step |-> "menu", resume |-> NoStep, edit |-> FALSE, dirty |-> FALSE,
          section |-> "none", deal |-> "none", budget |-> "unset",
          deposit |-> "unset", rent |-> "unset", full |-> FALSE, place |-> FALSE,
          urgency |-> FALSE, phone |-> FALSE]

FormInit == form = Empty /\ lead = "none"

-----------------------------------------------------------------------------
\* steps(data)
StepsOf(f) ==
    <<"deal_type", "area", "min_rooms", "district">>
    \o (IF f.deal = "sale" THEN <<"max_budget">> ELSE <<"max_deposit", "max_rent">>)
    \o <<"features", "urgency">>
    \o (IF f.phone THEN <<>> ELSE <<"contact">>) \o <<"review">>

InForm(f) == f.step \in ToSet(StepsOf(f))
Position(f, step) == CHOOSE i \in DOMAIN StepsOf(f) : StepsOf(f)[i] = step
StepAfter(f, step) == StepsOf(f)[Position(f, step) + 1]
StepBefore(f, step) ==
    IF Position(f, step) = 1 THEN step ELSE StepsOf(f)[Position(f, step) - 1]

HasData(f) == f.deal # "none" \/ f.phone

\* What a message comes to is saved, then shown.
Save(next) == form' = next /\ UNCHANGED lead

\* Mutant: a menu is taken for a step to resume.
KeptAnywhere(f, worth) == IF worth THEN f.step ELSE f.resume

\* The step to resume later.
Kept(f, worth) == IF InForm(f) /\ worth THEN f.step ELSE f.resume

-----------------------------------------------------------------------------
\* /start, /cancel, /menu and the home button; the menu's other entries keep
\* the step only once a deal is chosen.
Home == Save([form EXCEPT !.resume = Kept(form, HasData(form)), !.step = "menu"])

MainMenu ==
    Save([form EXCEPT !.resume = Kept(form, form.deal # "none"), !.step = "menu"])

\* Mutant: only the answers are dropped.
FindInPlace ==
    Save([Empty EXCEPT !.phone = form.phone, !.dirty = TRUE, !.step = "deal_type",
                       !.resume = form.resume, !.edit = form.edit])

\* "Search" starts afresh: only the customer's own contact survives.  The
\* confirmation of a new request does the same.
Find == Save([Empty EXCEPT !.phone = form.phone, !.dirty = TRUE, !.step = "deal_type"])

AskNewRequest ==
    Save([form EXCEPT !.resume = Kept(form, HasData(form)),
                             !.step = "new_request_confirm"])

ResumeForm ==
    /\ form.step = "search_menu"
    /\ Save([form EXCEPT !.step = IF form.resume = NoStep THEN "deal_type" ELSE form.resume,
                             !.resume = NoStep])

Profile == Save([form EXCEPT !.step = "need_menu"])

\* The official contact button, at any step.
ShareContact ==
    Save([form EXCEPT !.phone = TRUE,
        !.step = IF @ # "contact" THEN @ ELSE IF form.urgency THEN "review" ELSE "deal_type"])

\* A text the step does not understand, or a value it refuses.
NotUnderstood == Save(form)

\* registered_data() in place of the answers.  The amounts of the other deal
\* were dropped when the deal was chosen.
RegisteredAmounts == IF lead = "sale" THEN {"zero"} ELSE {"zero", "some"}

Registered(f, deposit, rent) ==
    [f EXCEPT !.deal = lead, !.budget = IF lead = "sale" THEN "some" ELSE "unset",
              !.deposit = deposit, !.rent = rent, !.place = TRUE, !.urgency = TRUE]

\* "Edit my need", as a label or an inline button of a former message, at any
\* step: a form without changes starts from the registered need.
EditNeed ==
    \E deposit, rent \in RegisteredAmounts :
        LET loaded == IF lead = "none" \/ form.dirty THEN form
                      ELSE Registered(form, deposit, rent)
        IN  Save([loaded EXCEPT
                !.step = IF loaded.deal # "none" THEN "edit_menu" ELSE "deal_type"])

\* A suggestion is taken up: the registered need, with an amount raised or a
\* wider area, replaces the answers, and is reviewed before it is submitted.
ApplySuggestion ==
    /\ lead # "none"
    /\ \E deposit, rent \in RegisteredAmounts :
          Save([Registered(form, deposit, rent) EXCEPT
              !.full = FALSE, !.dirty = TRUE,
              !.step = IF form.phone THEN "review" ELSE "contact"])

EditableSteps(f) ==
    {"deal_type", "district", "area", "min_rooms", "features", "urgency",
     IF f.deal = "sale" THEN "max_budget" ELSE "max_deposit"}

EditAnswer(field) ==
    /\ form.step = "edit_menu" /\ field \in EditableSteps(form)
    /\ Save([form EXCEPT !.step = field, !.edit = TRUE, !.dirty = TRUE])

\* Where "back" leads, in the order handle() asks.  With a region open it
\* leads back to the regions, which changes nothing here.
BackFrom(f) ==
    CASE f.edit /\ InForm(f) -> [f EXCEPT !.edit = FALSE, !.step = "edit_menu"]
      [] f.step = "new_request_confirm" -> [f EXCEPT !.step = "search_menu"]
      [] f.step \in Menus \ {"new_request_confirm"} -> [f EXCEPT !.step = "menu"]
      [] f.step = "features" /\ f.deal = "rent" ->
            [f EXCEPT !.step = "max_deposit", !.section = "none"]
      [] f.step = "max_deposit" /\ f.section # "none" -> [f EXCEPT !.section = "none"]
      [] f.step = "max_deposit" -> [f EXCEPT !.step = "district"]
      [] f.step = "district" -> [f EXCEPT !.step = "area"]
      [] f.step = "contact" -> [f EXCEPT !.step = "urgency"]
      [] InForm(f) -> [f EXCEPT !.step = StepBefore(f, f.step)]
      [] OTHER -> f

Back == Save(BackFrom(form))

-----------------------------------------------------------------------------
\* After an answer: the next step, or one the answer covers as well; an edit
\* returns to the review, by way of the budget when the deal was edited.
Advanced(f, field, covered) ==
    LET following == IF covered # NoStep THEN covered ELSE StepAfter(f, field)
        step == IF following = "max_rent" /\ f.full THEN "features" ELSE following
    IN  IF ~f.edit THEN [f EXCEPT !.step = step]
        ELSE IF field = "deal_type"
        THEN [f EXCEPT !.step = IF f.deal = "sale" THEN "max_budget" ELSE "max_deposit"]
        ELSE IF field = "max_deposit" /\ ~f.full /\ covered = NoStep
        THEN [f EXCEPT !.step = "max_rent"]
        ELSE [f EXCEPT !.edit = FALSE, !.step = "review"]

Answers(field) == form.step = field /\ InForm(form)

\* Another deal drops every budget.
WithDeal(f, deal, full) ==
    LET cleared == IF f.deal = deal THEN f
                   ELSE [f EXCEPT !.budget = "unset", !.deposit = "unset", !.rent = "unset"]
    IN  [cleared EXCEPT !.section = "none", !.deal = deal, !.full = full,
                        !.rent = IF full THEN "zero" ELSE @]

AnswerDeal(deal, full) ==
    /\ Answers("deal_type") /\ (full => deal = "rent")
    /\ Save(Advanced(WithDeal(form, deal, full), "deal_type", NoStep))

AnswerArea(covered) ==
    /\ Answers("area") /\ covered \in {NoStep, "district"}
    /\ Save(Advanced(form, "area", covered))

AnswerRooms == Answers("min_rooms") /\ Save(Advanced(form, "min_rooms", NoStep))

\* A second touch takes a district away, perhaps the last one.
ToggleDistrict(some) ==
    /\ form.step = "district" /\ (~some => form.place)
    /\ Save([form EXCEPT !.place = some])

DistrictsDone ==
    /\ form.step = "district" /\ form.place /\ form.deal # "none"
    /\ Save([form EXCEPT !.section = "none", !.edit = FALSE,
           !.step = IF form.edit THEN "review"
                    ELSE IF form.deal = "sale" THEN "max_budget" ELSE "max_deposit"])

TypeDistrict ==
    /\ Answers("district")
    /\ Save(Advanced([form EXCEPT !.place = TRUE], "district", NoStep))

AnswerBudget ==
    /\ Answers("max_budget")
    /\ Save(Advanced([form EXCEPT !.budget = "some"], "max_budget", NoStep))

OpenSection(section) ==
    /\ form.step = "max_deposit" /\ section \in {"deposit", "rent"}
    /\ Save([form EXCEPT !.section = section])

PickAmount(amount) ==
    /\ form.step = "max_deposit" /\ form.section # "none" /\ amount # "unset"
    /\ Save(IF form.section = "deposit" THEN [form EXCEPT !.deposit = amount]
                                               ELSE [form EXCEPT !.rent = amount])

BudgetDone ==
    /\ form.step = "max_deposit"
    /\ form.deposit # "unset" /\ form.rent # "unset" /\ "some" \in {form.deposit, form.rent}
    /\ Save([form EXCEPT !.full = form.rent = "zero", !.section = "none",
                    !.edit = FALSE, !.step = IF form.edit THEN "review" ELSE "features"])

\* Typed without an open section: the deposit, or "deposit / rent" at once.
TypeDeposit(deposit) ==
    /\ Answers("max_deposit") /\ form.section = "none" /\ deposit # "unset"
    /\ Save(Advanced([form EXCEPT !.deposit = deposit], "max_deposit", NoStep))

TypeBoth(deposit, rent) ==
    /\ Answers("max_deposit") /\ form.section = "none" /\ ~form.full
    /\ deposit # "unset" /\ rent # "unset"
    /\ Save(Advanced([form EXCEPT !.deposit = deposit, !.rent = rent],
                            "max_deposit", "features"))

AnswerRent(rent) ==
    /\ Answers("max_rent") /\ rent # "unset"
    /\ Save(Advanced([form EXCEPT !.rent = rent], "max_rent", NoStep))

\* The features' own button takes the urgency for granted; "continue" asks.
FeaturesDone ==
    /\ Answers("features")
    /\ Save(Advanced([form EXCEPT !.urgency = TRUE], "features",
                            IF form.phone THEN "review" ELSE "contact"))

FeaturesContinue == Answers("features") /\ Save(Advanced(form, "features", NoStep))

AnswerUrgency ==
    Answers("urgency") /\ Save(Advanced([form EXCEPT !.urgency = TRUE], "urgency", NoStep))

-----------------------------------------------------------------------------
\* validated_payload
Valid(f) ==
    /\ f.phone /\ f.deal # "none" /\ f.place
    /\ f.deal = "sale" => f.budget = "some"
    /\ f.deal = "rent" => "some" \in {f.deposit, f.rent}

ConfirmWithoutPhone ==
    /\ form.step = "review" /\ ~form.phone
    /\ Save([form EXCEPT !.step = "contact"])

\* The submission fails, before or after the need is in the CRM; the form is
\* as it was.
ConfirmFails ==
    /\ form.step = "review" /\ form.phone
    /\ \/ UNCHANGED lead
       \/ Valid(form) /\ lead' = form.deal
    /\ UNCHANGED form

ConfirmNeed ==
    /\ form.step = "review" /\ Valid(form)
    /\ lead' = form.deal
    /\ form' = [form EXCEPT !.step = "menu", !.dirty = FALSE, !.edit = FALSE, !.resume = NoStep]

\* A form that has rested for 30 days reads as a new one.
Expire == form # Empty /\ form' = Empty /\ UNCHANGED lead

FormNext ==
    \/ Home \/ Find \/ AskNewRequest \/ ResumeForm \/ Profile \/ MainMenu
    \/ ShareContact \/ NotUnderstood \/ EditNeed \/ ApplySuggestion \/ Back
    \/ \E field \in FormSteps : EditAnswer(field)
    \/ \E deal \in {"sale", "rent"}, full \in BOOLEAN : AnswerDeal(deal, full)
    \/ \E covered \in {NoStep, "district"} : AnswerArea(covered)
    \/ AnswerRooms \/ DistrictsDone \/ TypeDistrict \/ AnswerBudget
    \/ \E some \in BOOLEAN : ToggleDistrict(some)
    \/ \E section \in {"deposit", "rent"} : OpenSection(section)
    \/ \E amount \in {"zero", "some"} :
          PickAmount(amount) \/ TypeDeposit(amount) \/ AnswerRent(amount)
    \/ \E deposit, rent \in {"zero", "some"} : TypeBoth(deposit, rent)
    \/ BudgetDone \/ FeaturesDone \/ FeaturesContinue \/ AnswerUrgency
    \/ ConfirmWithoutPhone \/ ConfirmFails \/ ConfirmNeed \/ Expire

FormSpec == FormInit /\ [][FormNext]_formVars

-----------------------------------------------------------------------------
\* What the form goes by once the deal is chosen: a later question, a single
\* answer's edit, or a question to resume.
PastTheDeal(f) ==
    \/ f.step \in (FormSteps \ {"deal_type"}) \cup {"edit_menu"}
    \/ f.resume \notin {NoStep, "deal_type"}
    \/ f.edit

\* No question, edit or resumption outlives the deal it belongs to, whichever
\* of the ways out, back and afresh the customer takes, in whatever order: the
\* questions to come depend on the deal, the district picker fails without it
\* (district_picker.py:91), and the review could never be submitted.
NoStepWithoutDeal == PastTheDeal(form) => form.deal # "none"
=============================================================================
