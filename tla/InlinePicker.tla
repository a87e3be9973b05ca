---------------------------- MODULE InlinePicker ----------------------------
(***************************************************************************)
(* The customer form's selection in one editable Telegram message          *)
(* (telegram_bot/budget_picker.py, district_picker.py; feature_picker.py   *)
(* is the budget picker with a single section).  Every button carries the  *)
(* token of its message and a revision.                                    *)
(*                                                                         *)
(* The bot serves one update at a time, but the customer's taps wait in    *)
(* its queue, every call to Telegram may fail or lose its answer, and the  *)
(* process may die between two writes of the form.                         *)
(***************************************************************************)
EXTENDS Naturals, FiniteSets

CONSTANTS
    Sections,     \* deposit and rent, or the regions: what an index is about
    Buttons,      \* the indices of a section's buttons
    Main,         \* no section is open
    MaxMessages,  \* bound on the messages sent for the picker
    MaxRevision,  \* bound on the revisions of one message
    MaxQueued     \* bound on the taps waiting for the bot

ASSUME PickerAssumption ==
    /\ Main \notin Sections
    /\ MaxMessages \in Nat /\ MaxRevision \in Nat /\ MaxQueued \in Nat

VARIABLES
    picker,   \* which of the two pickers this is
    draft,    \* the stored form, as far as the picker goes
    serving,  \* the update the bot is serving
    screen,   \* the keyboard the message shows
    queued,   \* taps the bot has not served
    messages  \* messages sent so far: the source of fresh tokens

pickerVars == <<picker, draft, serving, screen, queued, messages>>

Views == Sections \cup {Main}
Boards == [token: 0..MaxMessages, revision: 0..MaxRevision, view: Views]
NoBoard == [token |-> 0, revision |-> 0, view |-> Main]

Open(s) == [kind |-> "section", of |-> s]
Choose(i) == [kind |-> "choice", of |-> i]
Plain(k) == [kind |-> k, of |-> Main]
Acts == {Open(s) : s \in Sections} \cup {Choose(i) : i \in Buttons}
        \cup {Plain(k) : k \in {"done", "back", "home"}}

\* applied and twice are history: the keyboards one of whose taps counts.
Drafts == [here: BOOLEAN, editing: BOOLEAN, token: 0..MaxMessages, revision: 0..MaxRevision,
           view: Views, chosen: [Sections -> SUBSET Buttons],
           applied: SUBSET ((1..MaxMessages) \X (0..MaxRevision)), twice: BOOLEAN]

Idle == [stage |-> "idle"]

PickerTypeOK ==
    /\ picker \in {"budget", "district"}
    /\ draft \in Drafts
    /\ serving.stage \in {"idle", "handle", "show", "undo"}
    /\ serving # Idle => serving.act \in Acts /\ serving.next \in Drafts
    /\ screen \in Boards
    /\ queued \subseteq [board: Boards, act: Acts] /\ Cardinality(queued) <= MaxQueued
    /\ messages \in 0..MaxMessages

PickerInit ==
    /\ picker \in {"budget", "district"}
    /\ draft = [here |-> FALSE, editing |-> FALSE, token |-> 0, revision |-> 0, view |-> Main,
                chosen |-> [s \in Sections |-> {}], applied |-> {}, twice |-> FALSE]
    /\ serving = Idle /\ screen = NoBoard /\ queued = {} /\ messages = 0

-----------------------------------------------------------------------------
Complete(d) ==
    IF picker = "budget" THEN \A s \in Sections : d.chosen[s] # {}
                         ELSE \E s \in Sections : d.chosen[s] # {}

\* done, home, and back from the sections leave the picker; while a single
\* answer is edited, back always does.
Leaves(d, act) ==
    \/ act.kind = "home"
    \/ act.kind = "back" /\ (d.view = Main \/ d.editing)
    \/ act.kind = "done" /\ Complete(d)

\* callback() takes the keyboard off the message and forgets it.
Closes(d, act) ==
    /\ Leaves(d, act)
    /\ ~(act.kind = "back" /\ picker = "district" /\ d.view # Main)

Forgotten(d) == [d EXCEPT !.token = 0, !.revision = 0]

\* One amount per section of the budget; districts are toggled.
Chosen(d, i) ==
    LET old == d.chosen[d.view]
        new == IF picker = "budget" THEN {i}
               ELSE IF i \in old THEN old \ {i} ELSE old \cup {i}
    IN  [d EXCEPT !.chosen[d.view] = new]

\* handle() on the label behind the button.
Handled(d, act) ==
    IF Leaves(d, act)
    THEN [d EXCEPT !.here = FALSE,
                   !.view = IF picker = "budget" /\ act.kind = "done" THEN Main ELSE @]
    ELSE IF act.kind = "section" THEN [d EXCEPT !.view = act.of]
    ELSE IF act.kind = "choice" /\ d.view # Main THEN Chosen(d, act.of)
    ELSE IF act.kind = "back" THEN [d EXCEPT !.view = Main]
    ELSE d

\* Which tap counts, for the history in the form.
Counted(d, board) ==
    LET id == <<board.token, board.revision>>
    IN  [d EXCEPT !.twice = @ \/ id \in d.applied, !.applied = @ \cup {id}]

Board(d) == [token |-> d.token, revision |-> d.revision, view |-> d.view]

-----------------------------------------------------------------------------
\* The flow arrives at the picker's step, saves it and shows it.  What the
\* steps between have left of an earlier message and section is used again;
\* a new request has dropped the answers as well.
Arrive ==
    /\ serving = Idle /\ ~draft.here
    /\ \E kept \in {draft, Forgotten(draft)}, view \in {draft.view, Main}, editing \in BOOLEAN :
          draft' = [kept EXCEPT !.here = TRUE, !.view = view, !.editing = editing]
    /\ serving' = [stage |-> "show", act |-> Plain("back"), next |-> draft', undo |-> FALSE]
    /\ UNCHANGED <<picker, screen, queued, messages>>

ArriveAnew ==
    /\ serving = Idle /\ ~draft.here
    /\ draft' = [Forgotten(draft) EXCEPT !.here = TRUE, !.view = Main, !.editing = FALSE,
                                         !.chosen = [s \in Sections |-> {}]]
    /\ serving' = [stage |-> "show", act |-> Plain("back"), next |-> draft', undo |-> FALSE]
    /\ UNCHANGED <<picker, screen, queued, messages>>

\* The customer presses a button of the keyboard on the screen, perhaps twice.
Press(act) ==
    /\ screen # NoBoard /\ Cardinality(queued) < MaxQueued
    /\ act.kind = "choice" => screen.view # Main
    /\ queued' = queued \cup {[board |-> screen, act |-> act]}
    /\ UNCHANGED <<picker, draft, serving, screen, messages>>

\* The customer types the label of a button.
Type(act) ==
    /\ serving = Idle /\ draft.here
    /\ act.kind = "choice" => draft.view # Main
    /\ serving' = [stage |-> "handle", act |-> act, next |-> draft, undo |-> FALSE]
    /\ UNCHANGED <<picker, draft, screen, queued, messages>>

\* The check of callback(): is this the current keyboard of the message?
Current(board) ==
    draft.here /\ board.token = draft.token /\ board.revision = draft.revision

Refuses(act) ==
    \/ act.kind = "done" /\ ~Complete(draft)
    \/ act.kind = "choice" /\ draft.view = Main

\* Mutant: a tap leaves the revision as it is.
NextRevisionNever(d) == d

NextRevision(d) == [d EXCEPT !.revision = @ + 1]

Serve(tap) ==
    /\ serving = Idle /\ tap \in queued
    /\ \/ queued' = queued \ {tap}
       \/ queued' = queued          \* the button was pressed twice
    /\ Current(tap.board) /\ ~Refuses(tap.act)
    /\ draft.revision < MaxRevision
    /\ LET now == NextRevision(draft)
           gone == Closes(draft, tap.act)
           saved == IF gone THEN Forgotten(now) ELSE now
       IN  \/ /\ draft' = saved
              /\ screen' = IF gone THEN NoBoard ELSE screen
              /\ serving' = [stage |-> "handle", act |-> tap.act, next |-> saved,
                             undo |-> TRUE, before |-> draft, board |-> tap.board]
           \/ /\ gone               \* the edit that closes the message fails
              /\ UNCHANGED <<draft, screen>>
              /\ serving' = [stage |-> "undo", act |-> tap.act, next |-> draft,
                             undo |-> TRUE, before |-> draft, board |-> tap.board]
    /\ UNCHANGED <<picker, messages>>

Dismiss(tap) ==
    /\ serving = Idle /\ tap \in queued
    /\ ~Current(tap.board) \/ Refuses(tap.act)
    /\ queued' = queued \ {tap}
    /\ UNCHANGED <<picker, draft, serving, screen, messages>>

\* handle() saves the form before it shows it, except that the district
\* picker's own texts are rendered first.
SavesFirst(act) ==
    picker = "budget" \/ act.kind = "back" \/ Leaves(draft, act)

Handle ==
    /\ serving.stage = "handle"
    /\ LET handled == Handled(draft, serving.act)
           counted == IF serving.undo THEN Counted(handled, serving.board) ELSE handled
       IN  /\ draft' = IF SavesFirst(serving.act) THEN counted ELSE draft
           /\ serving' = [serving EXCEPT !.stage = "show", !.next = counted]
    /\ UNCHANGED <<picker, screen, queued, messages>>

\* render(): a message once sent is edited; a new one gets a new token.
Tokened(d) == IF d.token = 0 THEN [d EXCEPT !.token = messages + 1, !.revision = 0] ELSE d

Drawn(d) ==
    /\ d.token # 0 \/ messages < MaxMessages
    /\ screen' = Board(Tokened(d))
    /\ messages' = IF d.token = 0 THEN messages + 1 ELSE messages

\* show() of another step drops the budget picker's keys from the state it
\* was given; they stay in the store unless that step is a picker, whose
\* render saves what it was given.
ShowElsewhere ==
    /\ serving.stage = "show" /\ ~serving.next.here
    /\ serving' = Idle
    /\ \/ UNCHANGED draft
       \/ picker = "budget" /\ serving.act.kind # "home" /\ draft' = Forgotten(draft)
    /\ UNCHANGED <<picker, screen, queued, messages>>

ShowPicker ==
    /\ serving.stage = "show" /\ serving.next.here
    /\ Drawn(serving.next)
    /\ draft' = Tokened(serving.next)
    /\ serving' = Idle
    /\ UNCHANGED <<picker, queued>>

\* The call raises; Telegram may have carried it out.  callback() puts back
\* the form it had read, a typed update leaves what is stored.
ShowFails ==
    /\ serving.stage = "show"
    /\ \/ UNCHANGED <<screen, messages>>
       \/ serving.next.here /\ Drawn(serving.next)
    /\ \/ /\ serving.undo
          /\ draft' = serving.before
          /\ serving' = [serving EXCEPT !.stage = "undo"]
       \/ /\ ~serving.undo
          /\ serving' = Idle /\ UNCHANGED draft
    /\ UNCHANGED <<picker, queued>>

\* The old keyboard is drawn again, or that fails as well.
Undo ==
    /\ serving.stage = "undo"
    /\ serving' = Idle
    /\ \/ screen' = Board(draft)
       \/ UNCHANGED screen
    /\ UNCHANGED <<picker, draft, queued, messages>>

PickerDeath ==
    /\ serving # Idle
    /\ serving' = Idle
    /\ UNCHANGED <<picker, draft, screen, queued, messages>>

PickerNext ==
    \/ Arrive \/ ArriveAnew \/ Handle \/ ShowElsewhere \/ ShowPicker \/ ShowFails \/ Undo \/ PickerDeath
    \/ \E act \in Acts : Press(act) \/ Type(act)
    \/ \E tap \in queued : Serve(tap) \/ Dismiss(tap)

PickerSpec == PickerInit /\ [][PickerNext]_pickerVars

-----------------------------------------------------------------------------
\* However often a button is pressed, and whatever fails or dies meanwhile,
\* the form holds the effect of at most one tap on each keyboard: a district
\* is never toggled back by the second half of a double tap.
TapAtMostOnce == ~draft.twice

\* The button the bot acts on belongs to the section it was shown under
\* (district_picker.py:1, "revision-bound"; an old button is to be refused).
TapMeansWhatItShowed ==
    serving.stage = "handle" /\ serving.undo /\ serving.act.kind = "choice"
        => serving.board.view = draft.view
=============================================================================
