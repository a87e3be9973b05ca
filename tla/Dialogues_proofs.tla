---------------------------- MODULE Dialogues_proofs ----------------------------
(***************************************************************************)
(* The pickers count a tap at most once, for any sections, buttons,        *)
(* messages and revisions, and no step of the form outlives the deal it    *)
(* belongs to.                                                             *)
(***************************************************************************)
EXTENDS InlinePicker, CustomerForm, FiniteSetTheorems, SequenceTheorems, TLAPS

-----------------------------------------------------------------------------
(***************************************************************************)
(* The picker.  A tap is applied to the form that was read with its        *)
(* keyboard's revision, and the form that is stored afterwards has a later *)
(* one, or none.  This must hold of every form in the system: the stored   *)
(* one, the one about to be stored, and the one put back after a failure.  *)
(***************************************************************************)

\* A form that counts no tap twice, none of a message that was never sent, and
\* none of its present keyboard or a later one.
Unspent(d) ==
    /\ ~d.twice /\ d.token <= messages
    /\ \A id \in d.applied :
          id[1] <= messages /\ (id[1] = d.token => id[2] < d.revision)

\* What the bot keeps of the update it serves: a typed one, or a tap with the form
\* it was pressed on and its keyboard.
Typed == [stage: {"handle", "show"}, act: Acts, next: Drafts, undo: {FALSE}]
Tapped == [stage: {"handle", "show", "undo"}, act: Acts, next: Drafts, undo: {TRUE},
           before: Drafts, board: Boards]
ServingTyped == serving \in {Idle} \cup Typed \cup Tapped

\* Every keyboard a tap may come from is that of a message.
BoardsSent ==
    /\ IsFiniteSet(queued)
    /\ screen # NoBoard => screen.token # 0
    /\ \A tap \in queued : tap.board.token # 0

\* The update under way will store an unspent form.
NextUnspent == serving # Idle => Unspent(serving.next)

\* The keyboard of the tap under way is that of the form before it, and behind
\* the stored one, in which it is not counted until it is handled.
TapUnderWay ==
    serving \in Tapped =>
        /\ Unspent(serving.before) /\ serving.before.token # 0
        /\ serving.board.token = serving.before.token
        /\ serving.board.revision = serving.before.revision
        /\ serving.stage = "handle" =>
              /\ draft.applied = serving.before.applied
              /\ \/ draft.token = 0
                 \/ /\ draft.token = serving.before.token
                    /\ draft.revision > serving.before.revision
        /\ serving.stage = "undo" => draft = serving.before

PickerInv ==
    /\ PickerTypeOK /\ ServingTyped
    /\ Unspent(draft) /\ BoardsSent /\ NextUnspent /\ TapUnderWay

\* The first element of a form's history is the number of a message.
LEMMA DraftFields ==
    ASSUME NEW d \in Drafts
    PROVE  /\ d.here \in BOOLEAN /\ d.editing \in BOOLEAN /\ d.twice \in BOOLEAN
           /\ d.token \in Nat /\ d.token <= MaxMessages
           /\ d.revision \in Nat /\ d.revision <= MaxRevision
           /\ d.view \in Views /\ d.chosen \in [Sections -> SUBSET Buttons]
           /\ \A id \in d.applied :
                 /\ id = <<id[1], id[2]>> /\ id[1] \in Nat /\ id[1] # 0 /\ id[1] <= MaxMessages
                 /\ id[2] \in Nat /\ id[2] <= MaxRevision
BY PickerAssumption DEF Drafts

\* The acts of the customer, by their kind.
LEMMA ActKinds ==
    ASSUME NEW act \in Acts
    PROVE  /\ act.kind \in {"section", "choice", "done", "back", "home"}
           /\ act.kind = "section" => act.of \in Sections
           /\ act.kind = "choice" => act.of \in Buttons
BY DEF Acts, Open, Choose, Plain

\* handle() changes neither the keyboard nor the history of a form.
LEMMA HandledKeeps ==
    ASSUME NEW d \in Drafts, NEW act \in Acts
    PROVE  /\ Handled(d, act) \in Drafts
           /\ Handled(d, act).token = d.token /\ Handled(d, act).revision = d.revision
           /\ Handled(d, act).applied = d.applied /\ Handled(d, act).twice = d.twice
<1> DEFINE Same(e) == /\ e \in Drafts /\ e.token = d.token /\ e.revision = d.revision
                      /\ e.applied = d.applied /\ e.twice = d.twice
<1>1. CASE Leaves(d, act)
  <2> DEFINE v == IF picker = "budget" /\ act.kind = "done" THEN Main ELSE d.view
             e == [d EXCEPT !.here = FALSE, !.view = v]
  <2>1. v \in Views
    BY DraftFields DEF Views
  <2> HIDE DEF v
  <2>2. Same(e)
    BY <2>1 DEF Drafts
  <2>3. Handled(d, act) = e
    BY <1>1, Zenon DEF Handled, v
  <2> HIDE DEF e
  <2> QED BY <2>2, <2>3
<1>2. CASE ~Leaves(d, act) /\ act.kind = "section"
  <2> DEFINE e == [d EXCEPT !.view = act.of]
  <2>1. Same(e)
    BY <1>2, ActKinds DEF Drafts, Views
  <2>2. Handled(d, act) = e
    BY <1>2, Zenon DEF Handled
  <2> HIDE DEF e
  <2> QED BY <2>1, <2>2
<1>3. CASE ~Leaves(d, act) /\ act.kind = "choice" /\ d.view # Main
  <2> DEFINE old == d.chosen[d.view]
             i == act.of
             new == IF picker = "budget" THEN {i}
                    ELSE IF i \in old THEN old \ {i} ELSE old \cup {i}
             e == [d EXCEPT !.chosen[d.view] = new]
  <2>1. d.view \in Sections /\ i \in Buttons /\ old \in SUBSET Buttons
    BY <1>3, ActKinds, DraftFields DEF Views
  <2>2. new \in SUBSET Buttons
    BY <2>1
  <2> HIDE DEF new
  <2>3. Same(e)
    BY <2>1, <2>2 DEF Drafts
  <2>4. Handled(d, act) = e
    BY <1>3 DEF Handled, Chosen, new
  <2> HIDE DEF e
  <2> QED BY <2>3, <2>4
<1>4. CASE ~Leaves(d, act) /\ act.kind = "back"
  <2> DEFINE e == [d EXCEPT !.view = Main]
  <2>1. Same(e)
    BY DEF Drafts, Views
  <2>2. Handled(d, act) = e
    BY <1>4 DEF Handled
  <2> HIDE DEF e
  <2> QED BY <2>1, <2>2
<1>5. CASE /\ ~Leaves(d, act) /\ act.kind # "section" /\ act.kind # "back"
           /\ ~(act.kind = "choice" /\ d.view # Main)
  BY <1>5 DEF Handled
<1> QED BY <1>1, <1>2, <1>3, <1>4, <1>5

\* The count of a tap is new when the form did not have it.
LEMMA CountedKeeps ==
    ASSUME NEW d \in Drafts, NEW b \in Boards, b.token # 0
    PROVE  /\ Counted(d, b) \in Drafts
           /\ Counted(d, b).token = d.token /\ Counted(d, b).revision = d.revision
           /\ Counted(d, b).applied = d.applied \cup {<<b.token, b.revision>>}
           /\ Counted(d, b).twice <=> d.twice \/ <<b.token, b.revision>> \in d.applied
<1> DEFINE id == <<b.token, b.revision>>
           t == d.twice \/ id \in d.applied
           a == d.applied \cup {id}
           e == [d EXCEPT !.twice = t, !.applied = a]
<1>1. id \in (1..MaxMessages) \X (0..MaxRevision)
  BY PickerAssumption DEF Boards
<1>2. t \in BOOLEAN /\ a \in SUBSET ((1..MaxMessages) \X (0..MaxRevision))
  BY <1>1, DraftFields DEF Drafts
<1>3. Counted(d, b) = e
  BY Zenon DEF Counted
<1> HIDE DEF t, a
<1>4. /\ e \in Drafts /\ e.token = d.token /\ e.revision = d.revision
      /\ e.applied = a /\ (e.twice <=> t)
  BY <1>2 DEF Drafts
<1> HIDE DEF e
<1> QED BY <1>3, <1>4 DEF t, a

\* A new message gets a token no form has seen.
LEMMA TokenedKeeps ==
    ASSUME NEW d \in Drafts, Unspent(d), messages \in 0..MaxMessages,
           d.token # 0 \/ messages < MaxMessages
    PROVE  /\ Tokened(d) \in Drafts /\ Tokened(d).token # 0
           /\ Tokened(d).applied = d.applied /\ Tokened(d).twice = d.twice
           /\ Board(Tokened(d)) \in Boards /\ Board(Tokened(d)).token # 0
           /\ \/ d.token # 0 /\ Tokened(d) = d
              \/ d.token = 0 /\ Tokened(d).token = messages + 1
<1>1. CASE d.token # 0
  BY <1>1, DraftFields DEF Tokened, Board, Boards, Drafts
<1>2. CASE d.token = 0
  <2> DEFINE e == [d EXCEPT !.token = messages + 1, !.revision = 0]
  <2>1. messages + 1 \in 0..MaxMessages /\ 0 \in 0..MaxRevision /\ messages + 1 # 0
    BY <1>2, PickerAssumption
  <2>2. /\ e \in Drafts /\ e.token = messages + 1 /\ e.applied = d.applied /\ e.twice = d.twice
        /\ e.view = d.view /\ e.revision = 0
    BY <2>1 DEF Drafts
  <2>3. Tokened(d) = e
    BY <1>2 DEF Tokened
  <2> HIDE DEF e
  <2>4. Board(e) \in Boards /\ Board(e).token = messages + 1
    BY <2>1, <2>2, DraftFields DEF Board, Boards
  <2> QED BY <1>2, <2>1, <2>2, <2>3, <2>4
<1> QED BY <1>1, <1>2

\* An unspent form stays so when it is forgotten and when messages are sent.
LEMMA UnspentKept ==
    ASSUME NEW d \in Drafts, Unspent(d), messages \in Nat, messages' \in Nat, messages' >= messages
    PROVE  Unspent(d)'
BY DraftFields DEF Unspent

\* A form that has forgotten its message has spent nothing of the next one.
LEMMA ForgottenUnspent ==
    ASSUME NEW d \in Drafts, Unspent(d), messages \in Nat
    PROVE  /\ Forgotten(d) \in Drafts /\ Unspent(Forgotten(d))
           /\ Forgotten(d).token = 0 /\ Forgotten(d).applied = d.applied
           /\ Forgotten(d).twice = d.twice
<1> DEFINE e == [d EXCEPT !.token = 0, !.revision = 0]
<1>1. /\ e \in Drafts /\ e.token = 0 /\ e.revision = 0 /\ e.applied = d.applied
      /\ e.twice = d.twice
  <2>1. 0 \in 0..MaxMessages /\ 0 \in 0..MaxRevision
    BY PickerAssumption
  <2> QED BY <2>1 DEF Drafts
<1>2. Forgotten(d) = e
  BY DEF Forgotten
<1> HIDE DEF e
<1>3. Unspent(e)
  BY <1>1, DraftFields DEF Unspent
<1> QED BY <1>1, <1>2, <1>3

\* What is kept of an update has an act and a form.
LEMMA UpdateFields ==
    ASSUME NEW u \in {Idle} \cup Typed \cup Tapped
    PROVE  /\ u.stage \in {"idle", "handle", "show", "undo"}
           /\ u # Idle => u.act \in Acts /\ u.next \in Drafts
<1>1. CASE u = Idle
  BY <1>1 DEF Idle
<1>2. CASE u \in Typed
  BY <1>2 DEF Typed
<1>3. CASE u \in Tapped
  BY <1>3 DEF Tapped
<1> QED BY <1>1, <1>2, <1>3

\* An idle bot serves neither a typed update nor a tap.
LEMMA IdleIsNothing ==
    /\ Idle \notin Typed /\ Idle \notin Tapped /\ Idle.stage = "idle"
    /\ \A x \in Typed : x \notin Tapped /\ x # Idle
    /\ \A x \in Tapped : x \notin Typed /\ x # Idle
<1>1. Idle.stage = "idle"
  BY DEF Idle
<1>2. \A x \in Typed : x.stage # "idle" /\ x.undo = FALSE
  BY DEF Typed
<1>3. \A x \in Tapped : x.stage # "idle" /\ x.undo = TRUE
  BY DEF Tapped
<1> QED BY <1>1, <1>2, <1>3

\* What every action reads of the invariant.
LEMMA PickerFacts ==
    ASSUME PickerInv
    PROVE  /\ draft \in Drafts /\ picker \in {"budget", "district"} /\ screen \in Boards
           /\ queued \subseteq [board: Boards, act: Acts] /\ Cardinality(queued) <= MaxQueued
           /\ messages \in 0..MaxMessages /\ messages \in Nat /\ IsFiniteSet(queued)
           /\ Unspent(draft)
BY PickerAssumption DEF PickerInv, PickerTypeOK, BoardsSent

\* A step of the bot that leaves taps and messages alone and stores an unspent form.
LEMMA PickerAssembled ==
    ASSUME PickerInv, picker' = picker, draft' \in Drafts, Unspent(draft)', ServingTyped',
           screen' \in Boards, screen' # NoBoard => screen'.token # 0,
           queued' \subseteq queued, messages' \in 0..MaxMessages,
           NextUnspent', TapUnderWay'
    PROVE  PickerInv'
<1>1. IsFiniteSet(queued') /\ Cardinality(queued') <= MaxQueued
  <2>1. /\ IsFiniteSet(queued') /\ Cardinality(queued') <= Cardinality(queued)
        /\ Cardinality(queued) \in Nat /\ Cardinality(queued') \in Nat
    BY PickerFacts, FS_Subset, FS_CardinalityType
  <2> QED BY <2>1, PickerFacts, PickerAssumption
<1>2. BoardsSent'
  BY <1>1 DEF PickerInv, BoardsSent
<1>3. queued' \subseteq [board: Boards, act: Acts] /\ picker' \in {"budget", "district"}
  BY PickerFacts
<1>4. /\ serving'.stage \in {"idle", "handle", "show", "undo"}
      /\ serving' # Idle => serving'.act \in Acts /\ serving'.next \in Drafts
  BY UpdateFields, Zenon DEF ServingTyped
<1>5. PickerTypeOK'
  BY <1>1, <1>3, <1>4 DEF PickerTypeOK
<1> QED BY <1>2, <1>5 DEF PickerInv

\* The flow arrives at the picker's step.
LEMMA ArriveKeeps ==
    ASSUME PickerInv, Arrive \/ ArriveAnew
    PROVE  PickerInv'
<1>1. /\ picker' = picker /\ screen' = screen /\ queued' = queued /\ messages' = messages
      /\ serving' = [stage |-> "show", act |-> Plain("back"), next |-> draft', undo |-> FALSE]
  BY DEF Arrive, ArriveAnew
<1>2. draft' \in Drafts /\ Unspent(draft')
  <2> DEFINE Good(d) == d \in Drafts /\ Unspent(d)
  <2>1. Good(draft) /\ Good(Forgotten(draft))
    BY PickerFacts, ForgottenUnspent
  <2>2. ASSUME NEW kept \in {draft, Forgotten(draft)}, NEW view \in {draft.view, Main},
               NEW editing \in BOOLEAN,
               draft' = [kept EXCEPT !.here = TRUE, !.view = view, !.editing = editing]
        PROVE  Good(draft')
    <3>1. kept \in Drafts /\ Unspent(kept) /\ view \in Views
      BY <2>1, PickerFacts, DraftFields DEF Views
    <3>2. /\ draft' \in Drafts /\ draft'.token = kept.token /\ draft'.revision = kept.revision
          /\ draft'.applied = kept.applied /\ draft'.twice = kept.twice
      BY <2>2, <3>1 DEF Drafts
    <3> QED BY <3>1, <3>2 DEF Unspent
  <2>3. ASSUME draft' = [Forgotten(draft) EXCEPT !.here = TRUE, !.view = Main, !.editing = FALSE,
                                                 !.chosen = [s \in Sections |-> {}]]
        PROVE  Good(draft')
    <3> DEFINE kept == Forgotten(draft)
               none == [s \in Sections |-> {}]
    <3>1. kept \in Drafts /\ Unspent(kept) /\ Main \in Views
      BY <2>1 DEF Views
    <3>2. none \in [Sections -> SUBSET Buttons]
      OBVIOUS
    <3>3. draft' = [kept EXCEPT !.here = TRUE, !.view = Main, !.editing = FALSE, !.chosen = none]
      BY <2>3
    <3> HIDE DEF kept, none
    <3>4. /\ draft' \in Drafts /\ draft'.token = kept.token /\ draft'.revision = kept.revision
          /\ draft'.applied = kept.applied /\ draft'.twice = kept.twice
      BY <3>1, <3>2, <3>3 DEF Drafts
    <3> QED BY <3>1, <3>4 DEF Unspent
  <2> QED BY <2>2, <2>3 DEF Arrive, ArriveAnew
<1>3. Unspent(draft)'
  BY <1>1, <1>2 DEF Unspent
<1>4. serving' \in Typed /\ serving'.next = draft'
  BY <1>1, <1>2 DEF Typed, Acts
<1>5. ServingTyped' /\ NextUnspent' /\ TapUnderWay'
  BY <1>3, <1>4, IdleIsNothing DEF ServingTyped, NextUnspent, TapUnderWay, Unspent
<1>6. screen' \in Boards /\ (screen' # NoBoard => screen'.token # 0) /\ messages' \in 0..MaxMessages
  BY <1>1, PickerFacts DEF PickerInv, BoardsSent
<1> QED BY <1>1, <1>2, <1>3, <1>5, <1>6, PickerAssembled

\* A pressed button waits with the keyboard it was on.
LEMMA PressKeeps ==
    ASSUME PickerInv, NEW act \in Acts, Press(act)
    PROVE  PickerInv'
<1> DEFINE tap == [board |-> screen, act |-> act]
<1>1. /\ picker' = picker /\ draft' = draft /\ serving' = serving /\ screen' = screen
      /\ messages' = messages /\ queued' = queued \cup {tap}
      /\ screen # NoBoard /\ Cardinality(queued) < MaxQueued
  BY DEF Press
<1>2. /\ tap \in [board: Boards, act: Acts] /\ tap.board = screen /\ screen.token # 0
  BY <1>1, PickerFacts DEF PickerInv, BoardsSent
<1> HIDE DEF tap
<1>3. /\ IsFiniteSet(queued \cup {tap}) /\ Cardinality(queued) \in Nat
      /\ Cardinality(queued \cup {tap}) =
            IF tap \in queued THEN Cardinality(queued) ELSE Cardinality(queued) + 1
  BY PickerFacts, FS_AddElement, FS_CardinalityType
<1>4. Cardinality(queued') <= MaxQueued
  BY <1>1, <1>3, PickerAssumption
<1>5. BoardsSent'
  BY <1>1, <1>2, <1>3 DEF PickerInv, BoardsSent
<1>6. PickerTypeOK'
  BY <1>1, <1>2, <1>4 DEF PickerInv, PickerTypeOK
<1>7. Unspent(draft)' /\ ServingTyped' /\ NextUnspent' /\ TapUnderWay'
  BY <1>1 DEF PickerInv, Unspent, ServingTyped, NextUnspent, TapUnderWay
<1> QED BY <1>5, <1>6, <1>7 DEF PickerInv

\* A label is typed.
LEMMA TypeKeeps ==
    ASSUME PickerInv, NEW act \in Acts, Type(act)
    PROVE  PickerInv'
<1>1. /\ picker' = picker /\ draft' = draft /\ screen' = screen /\ queued' = queued
      /\ messages' = messages
      /\ serving' = [stage |-> "handle", act |-> act, next |-> draft, undo |-> FALSE]
  BY DEF Type
<1>2. serving' \in Typed /\ serving'.next = draft
  BY <1>1, PickerFacts DEF Typed
<1>3. Unspent(draft)'
  BY <1>1 DEF PickerInv, Unspent
<1>4. ServingTyped' /\ NextUnspent' /\ TapUnderWay'
  BY <1>1, <1>2, <1>3, IdleIsNothing DEF ServingTyped, NextUnspent, TapUnderWay, Unspent
<1>5. screen' # NoBoard => screen'.token # 0
  BY <1>1 DEF PickerInv, BoardsSent
<1> QED BY <1>1, <1>3, <1>4, <1>5, PickerFacts, PickerAssembled

\* A tap on the current keyboard takes the next revision, before it is handled.
LEMMA ServeKeeps ==
    ASSUME PickerInv, NEW tap \in queued, Serve(tap)
    PROVE  PickerInv'
<1>1. /\ picker' = picker /\ messages' = messages /\ queued' \subseteq queued
      /\ serving = Idle /\ draft.revision < MaxRevision
      /\ tap.board.token = draft.token /\ tap.board.revision = draft.revision
  BY DEF Serve, Current
<1>2. /\ tap.board \in Boards /\ tap.act \in Acts /\ draft.token # 0
      /\ draft \in Drafts /\ Unspent(draft) /\ messages \in Nat
  BY <1>1, PickerFacts DEF PickerInv, BoardsSent
<1> DEFINE now == NextRevision(draft)
           gone == Closes(draft, tap.act)
           saved == IF gone THEN Forgotten(now) ELSE now
<1>3. /\ now \in Drafts /\ now.token = draft.token /\ now.revision = draft.revision + 1
      /\ now.applied = draft.applied /\ now.twice = draft.twice
  <2> DEFINE r == draft.revision + 1
             e == [draft EXCEPT !.revision = r]
  <2>1. r \in 0..MaxRevision
    BY <1>1, <1>2, DraftFields, PickerAssumption
  <2> HIDE DEF r
  <2>2. /\ e \in Drafts /\ e.token = draft.token /\ e.revision = r
        /\ e.applied = draft.applied /\ e.twice = draft.twice
    BY <1>2, <2>1 DEF Drafts
  <2>3. now = e
    BY DEF NextRevision, r
  <2> HIDE DEF now, e
  <2> QED BY <2>2, <2>3 DEF r
<1> HIDE DEF now
<1>4. Unspent(now)
  BY <1>2, <1>3, DraftFields DEF Unspent
<1>5. /\ saved \in Drafts /\ Unspent(saved) /\ saved.applied = draft.applied
      /\ \/ saved.token = 0
         \/ saved.token = draft.token /\ saved.revision > draft.revision
  BY <1>2, <1>3, <1>4, ForgottenUnspent, DraftFields
<1>6. CASE /\ draft' = saved
           /\ screen' = IF gone THEN NoBoard ELSE screen
           /\ serving' = [stage |-> "handle", act |-> tap.act, next |-> saved,
                          undo |-> TRUE, before |-> draft, board |-> tap.board]
  <2> HIDE DEF saved, gone
  <2>1. /\ serving' \in Tapped /\ serving'.next = saved /\ serving'.before = draft
        /\ serving'.board = tap.board /\ serving'.stage = "handle"
    BY <1>2, <1>5, <1>6 DEF Tapped
  <2>2. Unspent(draft)' /\ NextUnspent' /\ ServingTyped'
    BY <1>1, <1>5, <1>6, <2>1 DEF Unspent, NextUnspent, ServingTyped
  <2>3. TapUnderWay'
    BY <1>1, <1>2, <1>5, <1>6, <2>1 DEF TapUnderWay, Unspent
  <2>4. screen' \in Boards /\ (screen' # NoBoard => screen'.token # 0)
    <3>1. NoBoard \in Boards
      BY PickerAssumption DEF NoBoard, Boards, Views
    <3> QED BY <1>6, <3>1, PickerFacts DEF PickerInv, BoardsSent
  <2> QED BY <1>1, <1>5, <1>6, <2>2, <2>3, <2>4, PickerFacts, PickerAssembled
<1>7. CASE /\ draft' = draft /\ screen' = screen
           /\ serving' = [stage |-> "undo", act |-> tap.act, next |-> draft,
                          undo |-> TRUE, before |-> draft, board |-> tap.board]
  <2>1. /\ serving' \in Tapped /\ serving'.next = draft /\ serving'.before = draft
        /\ serving'.board = tap.board /\ serving'.stage = "undo"
    BY <1>2, <1>7 DEF Tapped
  <2>2. Unspent(draft)' /\ NextUnspent' /\ ServingTyped'
    BY <1>1, <1>2, <1>7, <2>1 DEF Unspent, NextUnspent, ServingTyped
  <2>3. TapUnderWay'
    BY <1>1, <1>2, <1>7, <2>1 DEF TapUnderWay, Unspent
  <2>4. screen' \in Boards /\ (screen' # NoBoard => screen'.token # 0)
    BY <1>7, PickerFacts DEF PickerInv, BoardsSent
  <2> QED BY <1>1, <1>2, <1>7, <2>2, <2>3, <2>4, PickerFacts, PickerAssembled
<1> QED BY <1>6, <1>7 DEF Serve, now

\* A stale tap is dropped.
LEMMA DismissKeeps ==
    ASSUME PickerInv, NEW tap \in queued, Dismiss(tap)
    PROVE  PickerInv'
<1>1. /\ picker' = picker /\ draft' = draft /\ serving' = serving /\ screen' = screen
      /\ messages' = messages /\ queued' \subseteq queued
  BY DEF Dismiss
<1>2. Unspent(draft)' /\ ServingTyped' /\ NextUnspent' /\ TapUnderWay'
  BY <1>1 DEF PickerInv, Unspent, ServingTyped, NextUnspent, TapUnderWay
<1>3. screen' # NoBoard => screen'.token # 0
  BY <1>1 DEF PickerInv, BoardsSent
<1> QED BY <1>1, <1>2, <1>3, PickerFacts, PickerAssembled

\* The tap is counted in the form it will store; its keyboard is behind that form.
LEMMA HandleKeeps ==
    ASSUME PickerInv, Handle
    PROVE  PickerInv'
<1> DEFINE handled == Handled(draft, serving.act)
           counted == IF serving.undo THEN Counted(handled, serving.board) ELSE handled
<1>1. /\ picker' = picker /\ screen' = screen /\ queued' = queued /\ messages' = messages
      /\ serving.stage = "handle" /\ (draft' = counted \/ draft' = draft)
      /\ serving' = [serving EXCEPT !.stage = "show", !.next = counted]
  <2>1. /\ draft' = IF SavesFirst(serving.act) THEN counted ELSE draft
        /\ serving' = [serving EXCEPT !.stage = "show", !.next = counted]
    BY Zenon DEF Handle
  <2>2. /\ picker' = picker /\ screen' = screen /\ queued' = queued /\ messages' = messages
        /\ serving.stage = "handle"
    BY DEF Handle
  <2> HIDE DEF counted
  <2> QED BY <2>1, <2>2, Zenon
<1>2. serving \in Typed \/ serving \in Tapped
  BY <1>1, IdleIsNothing DEF PickerInv, ServingTyped
<1>3. draft \in Drafts /\ serving.act \in Acts /\ Unspent(draft)
  BY <1>2, PickerFacts DEF Typed, Tapped
<1>4. /\ handled \in Drafts /\ handled.token = draft.token
      /\ handled.revision = draft.revision
      /\ handled.applied = draft.applied /\ handled.twice = draft.twice
  BY <1>3, HandledKeeps
<1> HIDE DEF handled
<1>5. messages \in Nat /\ Unspent(draft) /\ draft \in Drafts
  BY PickerFacts
<1>6. CASE serving \in Typed
  <2>1. counted = handled
    BY <1>6 DEF Typed
  <2> HIDE DEF counted
  <2>2. serving' \in Typed /\ serving'.next = counted
    BY <1>1, <1>4, <1>6, <2>1 DEF Typed
  <2>3. Unspent(counted)
    BY <1>3, <1>4, <2>1 DEF Unspent
  <2>4. draft' \in Drafts /\ Unspent(draft)'
    BY <1>1, <1>4, <1>5, <2>1, <2>3 DEF Unspent
  <2>5. ServingTyped' /\ NextUnspent' /\ TapUnderWay'
    BY <1>1, <2>2, <2>3, IdleIsNothing DEF ServingTyped, NextUnspent, TapUnderWay, Unspent
  <2>6. screen' # NoBoard => screen'.token # 0
    BY <1>1 DEF PickerInv, BoardsSent
  <2> QED BY <1>1, <2>4, <2>5, <2>6, PickerFacts, PickerAssembled
<1>7. CASE serving \in Tapped
  <2> DEFINE b == serving.board
             id == <<b.token, b.revision>>
  <2>1. /\ serving.before \in Drafts /\ b \in Boards /\ serving.undo = TRUE
    BY <1>7 DEF Tapped
  <2>2. /\ Unspent(serving.before) /\ b.token # 0 /\ b.token = serving.before.token
        /\ b.revision = serving.before.revision
        /\ draft.applied = serving.before.applied
        /\ \/ draft.token = 0
           \/ draft.token = b.token /\ draft.revision > b.revision
    BY <1>1, <1>7 DEF PickerInv, TapUnderWay
  <2>3. b.token \in Nat /\ b.revision \in Nat
    BY <2>1, PickerAssumption DEF Boards
  <2>4. counted = Counted(handled, b)
    BY <2>1
  <2> HIDE DEF counted, b
  <2>5. /\ counted \in Drafts /\ counted.token = handled.token
        /\ counted.revision = handled.revision
        /\ counted.applied = handled.applied \cup {id}
        /\ counted.twice <=> handled.twice \/ id \in handled.applied
    BY <1>4, <2>1, <2>2, <2>4, CountedKeeps
  <2>6. id \notin serving.before.applied /\ b.token <= messages
    BY <2>1, <2>2, <2>3, DraftFields DEF Unspent
  <2>7. Unspent(counted)
    <3>1. ~counted.twice /\ counted.token <= messages
      BY <1>3, <1>4, <2>2, <2>5, <2>6 DEF Unspent
    <3>2. ASSUME NEW x \in counted.applied
          PROVE  x[1] <= messages /\ (x[1] = counted.token => x[2] < counted.revision)
      <4>1. CASE x \in draft.applied
        BY <1>3, <1>4, <2>5, <4>1 DEF Unspent
      <4>2. CASE x = id
        BY <1>3, <1>4, <2>2, <2>3, <2>5, <2>6, <4>2, DraftFields
      <4> QED BY <1>4, <2>5, <4>1, <4>2
    <3> QED BY <3>1, <3>2 DEF Unspent
  <2>8. /\ serving' \in Tapped /\ serving'.next = counted /\ serving'.stage = "show"
        /\ serving'.before = serving.before /\ serving'.board = b
    BY <1>1, <1>7, <2>5 DEF Tapped, b
  <2>9. draft' \in Drafts /\ Unspent(draft)'
    BY <1>1, <1>5, <2>5, <2>7 DEF Unspent
  <2>10. ServingTyped' /\ NextUnspent' /\ TapUnderWay'
    BY <1>1, <2>2, <2>7, <2>8, IdleIsNothing DEF ServingTyped, NextUnspent, TapUnderWay, Unspent
  <2>11. screen' # NoBoard => screen'.token # 0
    BY <1>1 DEF PickerInv, BoardsSent
  <2> QED BY <1>1, <2>9, <2>10, <2>11, PickerFacts, PickerAssembled
<1> QED BY <1>2, <1>6, <1>7

\* Another step is shown: the picker's message is kept or forgotten.
LEMMA ShowElsewhereKeeps ==
    ASSUME PickerInv, ShowElsewhere
    PROVE  PickerInv'
<1>1. /\ picker' = picker /\ screen' = screen /\ queued' = queued /\ messages' = messages
      /\ serving' = Idle /\ (draft' = draft \/ draft' = Forgotten(draft))
  BY DEF ShowElsewhere
<1>2. draft' \in Drafts /\ Unspent(draft')
  BY <1>1, PickerFacts, ForgottenUnspent
<1>3. Unspent(draft)'
  BY <1>1, <1>2 DEF Unspent
<1>4. ServingTyped' /\ NextUnspent' /\ TapUnderWay'
  BY <1>1, IdleIsNothing DEF ServingTyped, NextUnspent, TapUnderWay
<1>5. screen' # NoBoard => screen'.token # 0
  BY <1>1 DEF PickerInv, BoardsSent
<1> QED BY <1>1, <1>2, <1>3, <1>4, <1>5, PickerFacts, PickerAssembled

\* What drawing a form does to the screen and to the messages.
LEMMA DrawnKeeps ==
    ASSUME PickerInv, NEW d \in Drafts, Unspent(d), Drawn(d), NEW e, e = Tokened(d)
    PROVE  /\ messages' \in 0..MaxMessages /\ messages' \in Nat /\ messages' >= messages
           /\ screen' \in Boards /\ screen'.token # 0
           /\ e \in Drafts /\ Unspent(e)'
<1>1. /\ messages \in 0..MaxMessages /\ messages \in Nat /\ MaxMessages \in Nat
      /\ d.token # 0 \/ messages < MaxMessages
      /\ screen' = Board(Tokened(d))
      /\ messages' = IF d.token = 0 THEN messages + 1 ELSE messages
  BY PickerFacts, PickerAssumption DEF Drawn
<1>2. /\ Tokened(d) \in Drafts /\ Tokened(d).token # 0
      /\ Tokened(d).applied = d.applied /\ Tokened(d).twice = d.twice
      /\ Board(Tokened(d)) \in Boards /\ Board(Tokened(d)).token # 0
      /\ \/ d.token # 0 /\ Tokened(d) = d
         \/ d.token = 0 /\ Tokened(d).token = messages + 1
  BY <1>1, TokenedKeeps
<1>3. /\ messages' \in 0..MaxMessages /\ messages' \in Nat /\ messages' >= messages
  BY <1>1, DraftFields
<1>4. Unspent(e)'
  <2>1. ~e.twice /\ e.token <= messages'
    BY <1>1, <1>2, <1>3 DEF Unspent
  <2>2. ASSUME NEW id \in e.applied
        PROVE  id[1] <= messages' /\ (id[1] = e.token => id[2] < e.revision)
    <3>1. id \in d.applied /\ id[1] \in Nat /\ id[1] <= messages /\ id[1] <= messages'
      BY <1>1, <1>2, <1>3, DraftFields DEF Unspent
    <3>2. CASE d.token # 0 /\ e = d
      BY <3>1, <3>2 DEF Unspent
    <3>3. CASE e.token = messages + 1
      BY <1>1, <3>1, <3>3
    <3> QED BY <1>2, <3>1, <3>2, <3>3
  <2> QED BY <2>1, <2>2 DEF Unspent
<1> QED BY <1>1, <1>2, <1>3, <1>4

\* The picker is shown: a new message is a new token.
LEMMA ShowPickerKeeps ==
    ASSUME PickerInv, ShowPicker
    PROVE  PickerInv'
<1>1. /\ picker' = picker /\ queued' = queued /\ serving.stage = "show" /\ serving' = Idle
      /\ Drawn(serving.next) /\ draft' = Tokened(serving.next)
  BY DEF ShowPicker
<1>2. serving.next \in Drafts /\ Unspent(serving.next)
  BY <1>1, IdleIsNothing DEF PickerInv, PickerTypeOK, NextUnspent
<1>3. /\ messages' \in 0..MaxMessages /\ screen' \in Boards /\ screen'.token # 0
      /\ draft' \in Drafts
  BY <1>1, <1>2, DrawnKeeps
<1>4. Unspent(draft)'
  BY <1>1, <1>2, DrawnKeeps DEF Unspent
<1>5. ServingTyped' /\ NextUnspent' /\ TapUnderWay'
  BY <1>1, IdleIsNothing DEF ServingTyped, NextUnspent, TapUnderWay
<1> QED BY <1>1, <1>3, <1>4, <1>5, PickerAssembled

\* Showing fails: what is put back is the form before the tap.
LEMMA ShowFailsKeeps ==
    ASSUME PickerInv, ShowFails
    PROVE  PickerInv'
<1>1. /\ picker' = picker /\ queued' = queued /\ serving.stage = "show"
      /\ \/ screen' = screen /\ messages' = messages
         \/ Drawn(serving.next)
      /\ \/ /\ serving.undo /\ draft' = serving.before
            /\ serving' = [serving EXCEPT !.stage = "undo"]
         \/ ~serving.undo /\ serving' = Idle /\ draft' = draft
  BY DEF ShowFails
<1>2. serving.next \in Drafts /\ Unspent(serving.next)
  BY <1>1, IdleIsNothing DEF PickerInv, PickerTypeOK, NextUnspent
<1>3. /\ messages' \in 0..MaxMessages /\ messages' \in Nat /\ messages' >= messages
      /\ screen' \in Boards /\ (screen' # NoBoard => screen'.token # 0)
  <2>1. CASE screen' = screen /\ messages' = messages
    BY <2>1, PickerFacts DEF PickerInv, BoardsSent
  <2>2. CASE Drawn(serving.next)
    BY <1>2, <2>2, DrawnKeeps
  <2> QED BY <1>1, <2>1, <2>2
<1>4. messages \in Nat /\ draft \in Drafts /\ Unspent(draft)
  BY PickerFacts
<1>5. CASE /\ serving.undo /\ draft' = serving.before
           /\ serving' = [serving EXCEPT !.stage = "undo"]
  <2>1. serving \in Tapped
    BY <1>1, <1>5, IdleIsNothing DEF PickerInv, ServingTyped, Typed
  <2>2. /\ serving.before \in Drafts /\ Unspent(serving.before) /\ serving.before.token # 0
        /\ serving.board.token = serving.before.token
        /\ serving.board.revision = serving.before.revision
    BY <2>1 DEF PickerInv, TapUnderWay, Tapped
  <2>3. /\ serving' \in Tapped /\ serving'.stage = "undo" /\ serving'.next = serving.next
        /\ serving'.before = serving.before /\ serving'.board = serving.board
    BY <1>5, <2>1 DEF Tapped
  <2>4. Unspent(serving.before)' /\ Unspent(serving.next)'
    <3> DEFINE b == serving'.before
               n == serving'.next
    <3>1. b \in Drafts /\ Unspent(b) /\ n \in Drafts /\ Unspent(n)
      BY <1>2, <2>2, <2>3
    <3> HIDE DEF b, n
    <3>2. ~b.twice /\ ~n.twice /\ b.token <= messages' /\ n.token <= messages'
      BY <1>3, <1>4, <3>1, DraftFields DEF Unspent
    <3>3. \A id \in b.applied : id[1] <= messages' /\ (id[1] = b.token => id[2] < b.revision)
      BY <1>3, <1>4, <3>1, DraftFields DEF Unspent
    <3>4. \A id \in n.applied : id[1] <= messages' /\ (id[1] = n.token => id[2] < n.revision)
      BY <1>3, <1>4, <3>1, DraftFields DEF Unspent
    <3> QED BY <3>2, <3>3, <3>4 DEF Unspent, b, n
  <2>5. draft' \in Drafts /\ Unspent(draft)'
    BY <1>5, <2>2, <2>3, <2>4 DEF Unspent
  <2>6. ServingTyped' /\ NextUnspent'
    BY <2>3, <2>4 DEF ServingTyped, NextUnspent
  <2>7. TapUnderWay'
    BY <1>5, <2>2, <2>3, <2>4 DEF TapUnderWay
  <2> QED BY <1>1, <1>3, <2>5, <2>6, <2>7, PickerAssembled
<1>6. CASE serving' = Idle /\ draft' = draft
  <2>1. draft' \in Drafts /\ Unspent(draft)'
    <3>1. ~draft.twice /\ draft.token <= messages'
      BY <1>3, <1>4, DraftFields DEF Unspent
    <3>2. \A id \in draft.applied :
             id[1] <= messages' /\ (id[1] = draft.token => id[2] < draft.revision)
      BY <1>3, <1>4, DraftFields DEF Unspent
    <3> QED BY <1>4, <1>6, <3>1, <3>2 DEF Unspent
  <2>2. ServingTyped' /\ NextUnspent' /\ TapUnderWay'
    BY <1>6, IdleIsNothing DEF ServingTyped, NextUnspent, TapUnderWay
  <2> QED BY <1>1, <1>3, <2>1, <2>2, PickerAssembled
<1> QED BY <1>1, <1>5, <1>6

\* The old keyboard is drawn again; the process may also die before that.
LEMMA UndoOrDeathKeeps ==
    ASSUME PickerInv, Undo \/ PickerDeath
    PROVE  PickerInv'
<1>1. /\ picker' = picker /\ draft' = draft /\ queued' = queued /\ messages' = messages
      /\ serving' = Idle
      /\ screen' = screen \/ (serving.stage = "undo" /\ screen' = Board(draft))
  BY DEF Undo, PickerDeath
<1>2. Unspent(draft)' /\ ServingTyped' /\ NextUnspent' /\ TapUnderWay'
  BY <1>1, IdleIsNothing DEF PickerInv, Unspent, ServingTyped, NextUnspent, TapUnderWay
<1>3. screen' \in Boards /\ (screen' # NoBoard => screen'.token # 0)
  <2>1. CASE screen' = screen
    BY <2>1, PickerFacts DEF PickerInv, BoardsSent
  <2>2. CASE serving.stage = "undo" /\ screen' = Board(draft)
    <3>1. serving \in Tapped
      BY <2>2, IdleIsNothing DEF PickerInv, ServingTyped, Typed
    <3>2. draft = serving.before /\ serving.before.token # 0
      BY <2>2, <3>1 DEF PickerInv, TapUnderWay
    <3> QED BY <2>2, <3>2, PickerFacts, PickerAssumption DEF Board, Boards, Drafts
  <2> QED BY <1>1, <2>1, <2>2
<1> QED BY <1>1, <1>2, <1>3, PickerFacts, PickerAssembled

\* No tap has been served yet.
LEMMA PickerStarts ==
    ASSUME PickerInit
    PROVE  PickerInv
<1> DEFINE none == [s \in Sections |-> {}]
<1>1. /\ picker \in {"budget", "district"}
      /\ draft = [here |-> FALSE, editing |-> FALSE, token |-> 0, revision |-> 0, view |-> Main,
                  chosen |-> none, applied |-> {}, twice |-> FALSE]
      /\ serving = Idle /\ screen = NoBoard /\ queued = {} /\ messages = 0
  BY DEF PickerInit
<1>2. /\ 0 \in 0..MaxMessages /\ 0 \in 0..MaxRevision /\ Main \in Views
      /\ none \in [Sections -> SUBSET Buttons]
  BY PickerAssumption DEF Views
<1> HIDE DEF none
<1>3. draft \in Drafts /\ screen \in Boards
  BY <1>1, <1>2 DEF Drafts, NoBoard, Boards
<1>4. IsFiniteSet(queued) /\ Cardinality(queued) <= MaxQueued
  BY <1>1, FS_EmptySet, PickerAssumption
<1>5. PickerTypeOK
  BY <1>1, <1>2, <1>3, <1>4, IdleIsNothing DEF PickerTypeOK
<1>6. Unspent(draft)
  BY <1>1 DEF Unspent
<1>7. ServingTyped /\ BoardsSent /\ NextUnspent /\ TapUnderWay
  BY <1>1, <1>4, IdleIsNothing DEF ServingTyped, BoardsSent, NextUnspent, TapUnderWay
<1> QED BY <1>5, <1>6, <1>7 DEF PickerInv

\* The picker's inductive invariant, for any sections, buttons and bounds.
THEOREM PickerInvariance == PickerSpec => []PickerInv
<1>1. PickerInit => PickerInv
  BY PickerStarts
<1>2. PickerInv /\ [PickerNext]_pickerVars => PickerInv'
  <2> SUFFICES ASSUME PickerInv, [PickerNext]_pickerVars PROVE PickerInv'
    OBVIOUS
  <2>1. CASE UNCHANGED pickerVars
    <3>1. PickerTypeOK' /\ ServingTyped' /\ Unspent(draft)'
      BY <2>1 DEF pickerVars, PickerInv, PickerTypeOK, ServingTyped, Unspent
    <3>2. BoardsSent' /\ NextUnspent' /\ TapUnderWay'
      BY <2>1 DEF pickerVars, PickerInv, BoardsSent, NextUnspent, TapUnderWay, Unspent
    <3> QED BY <3>1, <3>2 DEF PickerInv
  <2>2. CASE Arrive \/ ArriveAnew
    BY <2>2, ArriveKeeps
  <2>3. CASE Handle
    BY <2>3, HandleKeeps
  <2>4. CASE ShowElsewhere
    BY <2>4, ShowElsewhereKeeps
  <2>5. CASE ShowPicker
    BY <2>5, ShowPickerKeeps
  <2>6. CASE ShowFails
    BY <2>6, ShowFailsKeeps
  <2>7. CASE Undo \/ PickerDeath
    BY <2>7, UndoOrDeathKeeps
  <2>8. CASE \E act \in Acts : Press(act) \/ Type(act)
    BY <2>8, PressKeeps, TypeKeeps
  <2>9. CASE \E tap \in queued : Serve(tap) \/ Dismiss(tap)
    BY <2>9, ServeKeeps, DismissKeeps
  <2> QED BY <2>1, <2>2, <2>3, <2>4, <2>5, <2>6, <2>7, <2>8, <2>9 DEF PickerNext
<1> QED BY <1>1, <1>2, PTL DEF PickerSpec

\* The picker's variables keep their types.
THEOREM PickerTypeCorrect == PickerSpec => []PickerTypeOK
<1>1. PickerInv => PickerTypeOK
  BY DEF PickerInv
<1> QED BY <1>1, PickerInvariance, PTL

\* The stored form holds the effect of at most one tap on each keyboard, however
\* the taps queue up and whichever call fails or process dies.
THEOREM TapsCountOnce == PickerSpec => []TapAtMostOnce
<1>1. PickerInv => TapAtMostOnce
  BY DEF PickerInv, Unspent, TapAtMostOnce
<1> QED BY <1>1, PickerInvariance, PTL

-----------------------------------------------------------------------------
(***************************************************************************)
(* The customer form.  Whoever is past the question of the deal has chosen *)
(* one, and the ways back keep it, so only what drops the answers has to   *)
(* drop the edit and the step to resume as well.                           *)
(***************************************************************************)

FormInv == FormTypeOK /\ NoStepWithoutDeal

\* A list of steps that starts with the deal, and has it nowhere else.
StartsOnce(s) ==
    /\ s \in Seq(FormSteps) /\ Len(s) >= 1 /\ s[1] = "deal_type"
    /\ \A i \in 2..Len(s) : s[i] # "deal_type"

LEMMA StartsOnceConcat ==
    ASSUME NEW s, StartsOnce(s), NEW t \in Seq(FormSteps \ {"deal_type"})
    PROVE  StartsOnce(s \o t) /\ Len(s \o t) = Len(s) + Len(t)
<1>1. s \in Seq(FormSteps) /\ t \in Seq(FormSteps) /\ Len(s) \in Nat /\ Len(t) \in Nat
  BY DEF StartsOnce
<1>2. /\ s \o t \in Seq(FormSteps) /\ Len(s \o t) = Len(s) + Len(t)
      /\ \A i \in 1..Len(s) + Len(t) :
            (s \o t)[i] = IF i <= Len(s) THEN s[i] ELSE t[i - Len(s)]
  BY <1>1, ConcatProperties
<1>3. \A j \in 1..Len(t) : t[j] # "deal_type"
  OBVIOUS
<1> QED BY <1>1, <1>2, <1>3 DEF StartsOnce

\* The steps of every form start with the deal and end with the review.
LEMMA StepsRange ==
    ASSUME NEW f \in Forms
    PROVE  /\ StartsOnce(StepsOf(f)) /\ Len(StepsOf(f)) \in Nat /\ Len(StepsOf(f)) > 1
           /\ \A i \in 1..Len(StepsOf(f)) :
                 StepsOf(f)[i] # "review" => i < Len(StepsOf(f))
<1> DEFINE L == FormSteps \ {"deal_type"}
           a == <<"deal_type", "area", "min_rooms", "district">>
           b == IF f.deal = "sale" THEN <<"max_budget">> ELSE <<"max_deposit", "max_rent">>
           c == <<"features", "urgency">>
           d == IF f.phone THEN <<>> ELSE <<"contact">>
           r == <<"review">>
<1>1. StartsOnce(a)
  BY DEF FormSteps, StartsOnce
<1>2. b \in Seq(L) /\ c \in Seq(L) /\ d \in Seq(L)
  <2>1. <<"max_budget">> \in Seq(L) /\ <<"max_deposit", "max_rent">> \in Seq(L)
    BY DEF FormSteps
  <2>2. <<"contact">> \in Seq(L) /\ <<>> \in Seq(L) /\ c \in Seq(L)
    BY DEF FormSteps
  <2> QED BY <2>1, <2>2
<1>3. r \in Seq(L) /\ Len(r) = 1 /\ r[1] = "review"
  BY DEF FormSteps
<1>4. StepsOf(f) = a \o b \o c \o d \o r
  BY DEF StepsOf
<1> HIDE DEF L, a, b, c, d, r
<1> DEFINE ab == a \o b
           abc == ab \o c
           abcd == abc \o d
<1>5. StartsOnce(ab)
  BY <1>1, <1>2, StartsOnceConcat DEF L
<1> HIDE DEF ab
<1>6. StartsOnce(abc)
  BY <1>2, <1>5, StartsOnceConcat DEF L
<1> HIDE DEF abc
<1>7. StartsOnce(abcd)
  BY <1>2, <1>6, StartsOnceConcat DEF L
<1>8. StepsOf(f) = abcd \o r
  BY <1>4 DEF ab, abc
<1> HIDE DEF abcd
<1>9. StartsOnce(abcd \o r) /\ Len(abcd \o r) = Len(abcd) + 1
  BY <1>3, <1>7, StartsOnceConcat DEF L
<1>10. abcd \in Seq(FormSteps) /\ Len(abcd) \in Nat /\ Len(abcd) >= 1
  BY <1>7 DEF StartsOnce
<1>11. r \in Seq(FormSteps)
  BY <1>3 DEF L
<1>12. (abcd \o r)[Len(abcd) + 1] = "review"
  <2>1. \A i \in 1..Len(abcd) + Len(r) :
            (abcd \o r)[i] = IF i <= Len(abcd) THEN abcd[i] ELSE r[i - Len(abcd)]
    BY <1>10, <1>11, ConcatProperties
  <2> QED BY <1>3, <1>10, <2>1
<1> QED BY <1>8, <1>9, <1>10, <1>12

\* The step before a step of the form, and the one after any but the last.
LEMMA Neighbours ==
    ASSUME NEW f \in Forms, NEW step \in ToSet(StepsOf(f))
    PROVE  /\ step \in FormSteps /\ StepBefore(f, step) \in FormSteps
           /\ step # "review" => StepAfter(f, step) \in FormSteps
<1> DEFINE s == StepsOf(f)
           p == Position(f, step)
<1>1. /\ s \in Seq(FormSteps) /\ Len(s) \in Nat
      /\ \A i \in 1..Len(s) : s[i] # "review" => i < Len(s)
  BY StepsRange DEF StartsOnce
<1>2. \E i \in DOMAIN s : s[i] = step
  BY <1>1 DEF ToSet
<1>3. p \in DOMAIN s /\ s[p] = step
  BY <1>2 DEF Position
<1>4. StepBefore(f, step) = IF p = 1 THEN step ELSE s[p - 1]
  BY DEF StepBefore
<1>5. StepAfter(f, step) = s[p + 1]
  BY DEF StepAfter
<1> HIDE DEF s, p
<1>6. p \in 1..Len(s) /\ step \in FormSteps
  BY <1>1, <1>3
<1>7. p # 1 => s[p - 1] \in FormSteps
  BY <1>1, <1>6
<1>8. step # "review" => s[p + 1] \in FormSteps
  BY <1>1, <1>3, <1>6
<1> QED BY <1>4, <1>5, <1>6, <1>7, <1>8

\* Nothing comes before the deal.
LEMMA FirstStep ==
    ASSUME NEW f \in Forms
    PROVE  StepBefore(f, "deal_type") = "deal_type"
<1> DEFINE s == StepsOf(f)
           p == Position(f, "deal_type")
<1>1. Len(s) \in Nat /\ Len(s) > 1 /\ s[1] = "deal_type" /\ DOMAIN s = 1..Len(s)
      /\ \A i \in 2..Len(s) : s[i] # "deal_type"
  BY StepsRange DEF StartsOnce
<1>2. \E i \in DOMAIN s : s[i] = "deal_type"
  BY <1>1
<1>3. p \in DOMAIN s /\ s[p] = "deal_type"
  BY <1>2 DEF Position
<1> HIDE DEF s, p
<1>4. p = 1
  BY <1>1, <1>3
<1> QED BY <1>4 DEF StepBefore, p

\* A new form has no answers, and nothing to go on with.
LEMMA EmptyForm ==
    /\ Empty \in Forms /\ Empty.step = "menu" /\ Empty.resume = NoStep /\ Empty.edit = FALSE
    /\ ~PastTheDeal(Empty)
<1>1. /\ Empty \in Forms /\ Empty.step = "menu" /\ Empty.resume = NoStep /\ Empty.edit = FALSE
  BY DEF Empty, Forms, Menus, Deals, Amount
<1>2. ~PastTheDeal(Empty)
  BY <1>1 DEF PastTheDeal, FormSteps
<1> QED BY <1>1, <1>2

\* An answer that is not the last leads to a step of the form.
LEMMA AdvancedForm ==
    ASSUME NEW f \in Forms, NEW field \in ToSet(StepsOf(f)), field # "review",
           NEW covered \in {NoStep, "district", "features", "review", "contact"}
    PROVE  Advanced(f, field, covered) \in Forms /\ Advanced(f, field, covered).deal = f.deal
<1> DEFINE following == IF covered # NoStep THEN covered ELSE StepAfter(f, field)
           step == IF following = "max_rent" /\ f.full THEN "features" ELSE following
           deal == IF f.deal = "sale" THEN "max_budget" ELSE "max_deposit"
<1>1. step \in Menus \cup FormSteps /\ deal \in Menus \cup FormSteps
  BY Neighbours DEF FormSteps
<1>2. \/ Advanced(f, field, covered) = [f EXCEPT !.step = step]
      \/ Advanced(f, field, covered) = [f EXCEPT !.step = deal]
      \/ Advanced(f, field, covered) = [f EXCEPT !.step = "max_rent"]
      \/ Advanced(f, field, covered) = [f EXCEPT !.edit = FALSE, !.step = "review"]
  BY DEF Advanced
<1> HIDE DEF step, deal
<1>3. "max_rent" \in FormSteps /\ "review" \in FormSteps
  BY DEF FormSteps
<1>4. ASSUME NEW to \in Menus \cup FormSteps
      PROVE  [f EXCEPT !.step = to] \in Forms /\ [f EXCEPT !.step = to].deal = f.deal
  BY <1>4 DEF Forms
<1> DEFINE r == [f EXCEPT !.edit = FALSE, !.step = "review"]
<1>5. r \in Forms /\ r.deal = f.deal
  BY <1>3 DEF Forms
<1> QED BY <1>1, <1>2, <1>3, <1>4, <1>5

\* A form that is saved with a deal, or at its first question, keeps the invariant.
LEMMA SavedKeeps ==
    ASSUME FormInv, NEW next \in Forms, PastTheDeal(next) => next.deal # "none", Save(next)
    PROVE  FormInv'
<1>1. form' = next /\ lead' = lead
  BY DEF Save
<1>2. FormTypeOK'
  BY <1>1 DEF FormInv, FormTypeOK
<1>3. NoStepWithoutDeal'
  BY <1>1 DEF NoStepWithoutDeal, PastTheDeal
<1> QED BY <1>2, <1>3 DEF FormInv

\* Past its first question a form may go anywhere with the deal it has.
LEMMA DealKept ==
    ASSUME FormInv, form.step \in FormSteps \ {"deal_type"},
           NEW next \in Forms, next.deal = form.deal, Save(next)
    PROVE  FormInv'
<1>1. form.deal # "none"
  BY DEF FormInv, NoStepWithoutDeal, PastTheDeal
<1> QED BY <1>1, SavedKeeps

\* The step to resume is one of the form's, and the deal's own only without one.
LEMMA KeptStep ==
    ASSUME FormInv, NEW worth \in BOOLEAN
    PROVE  /\ Kept(form, worth) \in FormSteps \cup {NoStep}
           /\ Kept(form, worth) \notin {NoStep, "deal_type"} => form.deal # "none"
<1>1. form \in Forms /\ form.resume \in FormSteps \cup {NoStep}
  BY DEF FormInv, FormTypeOK, Forms
<1>2. InForm(form) => form.step \in FormSteps
  BY <1>1, Neighbours DEF InForm
<1>3. (Kept(form, worth) = form.step /\ InForm(form)) \/ Kept(form, worth) = form.resume
  BY DEF Kept
<1> QED BY <1>1, <1>2, <1>3 DEF FormInv, NoStepWithoutDeal, PastTheDeal

\* The menus keep the deal; a new search drops all that goes by it.
LEMMA MenuKeeps ==
    ASSUME FormInv, Home \/ MainMenu \/ Find \/ AskNewRequest \/ Profile \/ NotUnderstood
    PROVE  FormInv'
<1>1. form \in Forms
  BY DEF FormInv, FormTypeOK
<1>2. ASSUME NEW resume \in FormSteps \cup {NoStep}, NEW step \in {"menu", "new_request_confirm"},
             resume \notin {NoStep, "deal_type"} => form.deal # "none",
             Save([form EXCEPT !.resume = resume, !.step = step])
      PROVE  FormInv'
  <2> DEFINE e == [form EXCEPT !.resume = resume, !.step = step]
  <2>1. /\ e \in Forms /\ e.step = step /\ e.resume = resume
        /\ e.deal = form.deal /\ e.edit = form.edit
    BY <1>1 DEF Forms, Menus
  <2>2. Save(e)
    BY <1>2
  <2> HIDE DEF e
  <2>3. PastTheDeal(e) => e.deal # "none"
    BY <1>2, <2>1 DEF FormInv, NoStepWithoutDeal, PastTheDeal, FormSteps
  <2> QED BY <2>1, <2>2, <2>3, SavedKeeps
<1>3. CASE Home \/ MainMenu \/ AskNewRequest
  <2>1. HasData(form) \in BOOLEAN /\ (form.deal # "none") \in BOOLEAN
    BY DEF HasData
  <2>2. PICK worth \in BOOLEAN, step \in {"menu", "new_request_confirm"} :
            Save([form EXCEPT !.resume = Kept(form, worth), !.step = step])
    BY <1>3, <2>1 DEF Home, MainMenu, AskNewRequest
  <2>3. /\ Kept(form, worth) \in FormSteps \cup {NoStep}
        /\ Kept(form, worth) \notin {NoStep, "deal_type"} => form.deal # "none"
    BY KeptStep
  <2> QED BY <1>2, <2>2, <2>3
<1>4. CASE Find
  <2> DEFINE e == [Empty EXCEPT !.phone = form.phone, !.dirty = TRUE, !.step = "deal_type"]
  <2>1. form.phone \in BOOLEAN
    BY <1>1 DEF Forms
  <2>2. e \in Forms /\ e.step = "deal_type" /\ e.resume = NoStep /\ e.edit = FALSE
    BY <2>1 DEF Empty, Forms, Menus, FormSteps, Deals, Amount
  <2> HIDE DEF e
  <2>3. PastTheDeal(e) => e.deal # "none"
    BY <2>2 DEF PastTheDeal, FormSteps
  <2>4. Save(e)
    BY <1>4 DEF Find, e
  <2> QED BY <2>2, <2>3, <2>4, SavedKeeps
<1>5. CASE Profile
  <2> DEFINE e == [form EXCEPT !.step = "need_menu"]
  <2>1. /\ e \in Forms /\ e.step = "need_menu" /\ e.resume = form.resume
        /\ e.deal = form.deal /\ e.edit = form.edit
    BY <1>1 DEF Forms, Menus
  <2>2. Save(e)
    BY <1>5 DEF Profile
  <2> HIDE DEF e
  <2>3. PastTheDeal(e) => e.deal # "none"
    BY <2>1 DEF FormInv, NoStepWithoutDeal, PastTheDeal, FormSteps
  <2> QED BY <2>1, <2>2, <2>3, SavedKeeps
<1>6. CASE NotUnderstood
  BY <1>1, <1>6, SavedKeeps DEF NotUnderstood, FormInv, NoStepWithoutDeal
<1> QED BY <1>3, <1>4, <1>5, <1>6

\* Sharing the contact ends the question for it.
LEMMA ContactKeeps ==
    ASSUME FormInv, ShareContact
    PROVE  FormInv'
<1> DEFINE step == IF form.step # "contact" THEN form.step
                   ELSE IF form.urgency THEN "review" ELSE "deal_type"
           e == [form EXCEPT !.phone = TRUE, !.step = step]
<1>1. form \in Forms
  BY DEF FormInv, FormTypeOK
<1>2. /\ step \in Menus \cup FormSteps
      /\ step \in {form.step, "deal_type"} \/ form.step = "contact"
  BY <1>1 DEF Forms, FormSteps
<1>3. Save(e)
  BY DEF ShareContact
<1> HIDE DEF step
<1>4. /\ e \in Forms /\ e.step = step /\ e.resume = form.resume
      /\ e.deal = form.deal /\ e.edit = form.edit
  BY <1>1, <1>2 DEF Forms
<1> HIDE DEF e
<1>5. PastTheDeal(e) => e.deal # "none"
  BY <1>2, <1>4 DEF FormInv, NoStepWithoutDeal, PastTheDeal, FormSteps
<1> QED BY <1>3, <1>4, <1>5, SavedKeeps

\* The registered need has the deal of the lead.
LEMMA RegisteredForm ==
    ASSUME FormInv, lead # "none", NEW deposit \in RegisteredAmounts, NEW rent \in RegisteredAmounts
    PROVE  Registered(form, deposit, rent) \in Forms /\ Registered(form, deposit, rent).deal # "none"
<1> DEFINE budget == IF lead = "sale" THEN "some" ELSE "unset"
           e == [form EXCEPT !.deal = lead, !.budget = budget, !.deposit = deposit,
                             !.rent = rent, !.place = TRUE, !.urgency = TRUE]
<1>1. form \in Forms /\ lead \in Deals
  BY DEF FormInv, FormTypeOK
<1>2. budget \in {"unset", "some"} /\ deposit \in Amount /\ rent \in Amount
  BY DEF RegisteredAmounts, Amount
<1>3. Registered(form, deposit, rent) = e
  BY Zenon DEF Registered
<1> HIDE DEF budget
<1>4. e \in Forms /\ e.deal = lead
  BY <1>1, <1>2 DEF Forms
<1> HIDE DEF e
<1> QED BY <1>3, <1>4

\* An edit begins in a menu, and only of a form that has a deal.
LEMMA EditNeedKeeps ==
    ASSUME FormInv, EditNeed
    PROVE  FormInv'
<1>1. form \in Forms
  BY DEF FormInv, FormTypeOK
<1>2. PICK deposit \in RegisteredAmounts, rent \in RegisteredAmounts :
        LET loaded == IF lead = "none" \/ form.dirty THEN form
                      ELSE Registered(form, deposit, rent)
        IN  Save([loaded EXCEPT
                !.step = IF loaded.deal # "none" THEN "edit_menu" ELSE "deal_type"])
  BY DEF EditNeed
<1> DEFINE loaded == IF lead = "none" \/ form.dirty THEN form
                     ELSE Registered(form, deposit, rent)
           step == IF loaded.deal # "none" THEN "edit_menu" ELSE "deal_type"
           e == [loaded EXCEPT !.step = step]
<1>3. loaded \in Forms /\ (loaded = form \/ loaded.deal # "none")
  BY <1>1, RegisteredForm
<1>4. Save(e)
  BY <1>2
<1> HIDE DEF loaded
<1>5. step \in Menus \cup FormSteps /\ (step = "deal_type" \/ loaded.deal # "none")
  BY DEF Menus, FormSteps
<1> HIDE DEF step
<1>6. /\ e \in Forms /\ e.step = step /\ e.resume = loaded.resume
      /\ e.deal = loaded.deal /\ e.edit = loaded.edit
  BY <1>3, <1>5 DEF Forms
<1> HIDE DEF e
<1>7. PastTheDeal(e) => e.deal # "none"
  BY <1>3, <1>5, <1>6 DEF FormInv, NoStepWithoutDeal, PastTheDeal, FormSteps
<1> QED BY <1>4, <1>6, <1>7, SavedKeeps

\* A suggestion is taken up with the deal of the registered need.
LEMMA ApplyKeeps ==
    ASSUME FormInv, ApplySuggestion
    PROVE  FormInv'
<1>1. PICK deposit \in RegisteredAmounts, rent \in RegisteredAmounts :
        Save([Registered(form, deposit, rent) EXCEPT
            !.full = FALSE, !.dirty = TRUE,
            !.step = IF form.phone THEN "review" ELSE "contact"])
  BY DEF ApplySuggestion
<1> DEFINE r == Registered(form, deposit, rent)
           step == IF form.phone THEN "review" ELSE "contact"
           e == [r EXCEPT !.full = FALSE, !.dirty = TRUE, !.step = step]
<1>2. r \in Forms /\ r.deal # "none"
  BY RegisteredForm DEF ApplySuggestion
<1>3. Save(e) /\ step \in FormSteps
  BY <1>1 DEF FormSteps
<1> HIDE DEF r, step
<1>4. e \in Forms /\ e.deal = r.deal
  BY <1>2, <1>3 DEF Forms
<1> HIDE DEF e
<1> QED BY <1>2, <1>3, <1>4, SavedKeeps

\* What is resumed or edited has its deal.
LEMMA ReturnKeeps ==
    ASSUME FormInv, ResumeForm \/ \E field \in FormSteps : EditAnswer(field)
    PROVE  FormInv'
<1>1. form \in Forms
  BY DEF FormInv, FormTypeOK
<1>2. CASE ResumeForm
  <2> DEFINE step == IF form.resume = NoStep THEN "deal_type" ELSE form.resume
             e == [form EXCEPT !.step = step, !.resume = NoStep]
  <2>1. step \in FormSteps /\ (step = "deal_type" \/ (step = form.resume /\ step # NoStep))
    <3>1. form.resume \in FormSteps \cup {NoStep}
      BY <1>1 DEF Forms
    <3> QED BY <3>1 DEF FormSteps
  <2>2. Save(e)
    BY <1>2 DEF ResumeForm
  <2> HIDE DEF step
  <2>3. /\ e \in Forms /\ e.step = step /\ e.resume = NoStep
        /\ e.deal = form.deal /\ e.edit = form.edit
    BY <1>1, <2>1 DEF Forms
  <2> HIDE DEF e
  <2>4. PastTheDeal(e) => e.deal # "none"
    BY <2>1, <2>3 DEF FormInv, NoStepWithoutDeal, PastTheDeal, FormSteps
  <2> QED BY <2>2, <2>3, <2>4, SavedKeeps
<1>3. ASSUME NEW field \in FormSteps, EditAnswer(field)
      PROVE  FormInv'
  <2> DEFINE e == [form EXCEPT !.step = field, !.edit = TRUE, !.dirty = TRUE]
  <2>1. e \in Forms /\ e.deal = form.deal /\ Save(e)
    BY <1>1, <1>3 DEF Forms, EditAnswer
  <2>2. form.deal # "none"
    BY <1>3 DEF EditAnswer, FormInv, NoStepWithoutDeal, PastTheDeal
  <2> HIDE DEF e
  <2> QED BY <2>1, <2>2, SavedKeeps
<1> QED BY <1>2, <1>3

\* Back leads to a step of the form or to a menu, with the same deal, and to the
\* menu of the edit only while one is on.
GoesBack(f, g) ==
    /\ g \in Forms /\ g.deal = f.deal /\ g.resume = f.resume /\ (g.edit => f.edit)
    /\ \/ g.step \in {"menu", "search_menu", f.step}
       \/ g.step = "edit_menu" /\ f.edit
       \/ f.step \in FormSteps \ {"deal_type"}

LEMMA BackForm ==
    ASSUME NEW f \in Forms
    PROVE  GoesBack(f, BackFrom(f))
<1> DEFINE stepped(step) == [f EXCEPT !.step = step]
           edited == [f EXCEPT !.edit = FALSE, !.step = "edit_menu"]
           budget == [f EXCEPT !.step = "max_deposit", !.section = "none"]
           closed == [f EXCEPT !.section = "none"]
<1>1. /\ edited \in Forms /\ edited.deal = f.deal /\ edited.resume = f.resume
      /\ edited.edit = FALSE /\ edited.step = "edit_menu"
  BY DEF Forms, Menus
<1>2. /\ budget \in Forms /\ budget.deal = f.deal /\ budget.resume = f.resume
      /\ budget.edit = f.edit
  BY DEF Forms, FormSteps
<1>3. /\ closed \in Forms /\ closed.deal = f.deal /\ closed.resume = f.resume
      /\ closed.edit = f.edit
  BY DEF Forms
<1>4. ASSUME NEW step \in Menus \cup FormSteps
      PROVE  /\ stepped(step) \in Forms /\ stepped(step).deal = f.deal
             /\ stepped(step).resume = f.resume /\ stepped(step).edit = f.edit
             /\ stepped(step).step = step
  BY <1>4 DEF Forms
<1>5. InForm(f) => f.step \in FormSteps /\ StepBefore(f, f.step) \in Menus \cup FormSteps
  BY Neighbours DEF InForm
<1>6. InForm(f) /\ f.step = "deal_type" => StepBefore(f, f.step) = "deal_type"
  BY FirstStep DEF InForm
<1>7. /\ {"search_menu", "menu", "district", "area", "urgency"} \subseteq Menus \cup FormSteps
      /\ {"features", "max_deposit", "district", "contact"} \subseteq FormSteps \ {"deal_type"}
  BY DEF Menus, FormSteps
<1>8. BackFrom(f) =
        CASE f.edit /\ InForm(f) -> edited
          [] f.step = "new_request_confirm" -> stepped("search_menu")
          [] f.step \in Menus \ {"new_request_confirm"} -> stepped("menu")
          [] f.step = "features" /\ f.deal = "rent" -> budget
          [] f.step = "max_deposit" /\ f.section # "none" -> closed
          [] f.step = "max_deposit" -> stepped("district")
          [] f.step = "district" -> stepped("area")
          [] f.step = "contact" -> stepped("urgency")
          [] InForm(f) -> stepped(StepBefore(f, f.step))
          [] OTHER -> f
  BY DEF BackFrom
<1> HIDE DEF stepped, edited, budget, closed
<1>9. GoesBack(f, edited) \/ ~(f.edit /\ InForm(f))
  BY <1>1, <1>5 DEF GoesBack
<1>10. GoesBack(f, stepped("search_menu")) /\ GoesBack(f, stepped("menu")) /\ GoesBack(f, f)
  BY <1>4, <1>7 DEF GoesBack
<1>11. f.step \in {"features", "max_deposit", "district", "contact"} =>
         /\ GoesBack(f, budget) /\ GoesBack(f, closed)
         /\ \A step \in {"district", "area", "urgency"} : GoesBack(f, stepped(step))
  BY <1>2, <1>3, <1>4, <1>7 DEF GoesBack
<1>12. InForm(f) => GoesBack(f, stepped(StepBefore(f, f.step)))
  BY <1>4, <1>5, <1>6 DEF GoesBack
<1> QED BY <1>8, <1>9, <1>10, <1>11, <1>12

\* Back from a question or a menu.
LEMMA BackKeeps ==
    ASSUME FormInv, Back
    PROVE  FormInv'
<1> DEFINE e == BackFrom(form)
<1>1. form \in Forms
  BY DEF FormInv, FormTypeOK
<1>2. GoesBack(form, e)
  BY <1>1, BackForm
<1>3. Save(e)
  BY DEF Back
<1> HIDE DEF e
<1>4. PastTheDeal(e) => e.deal # "none"
  BY <1>2 DEF GoesBack, FormInv, NoStepWithoutDeal, PastTheDeal, FormSteps
<1> QED BY <1>2, <1>3, <1>4, SavedKeeps DEF GoesBack

\* What is asked depends on the deal and the phone alone.
LEMMA SameSteps ==
    ASSUME NEW f, NEW g, f.deal = g.deal, f.phone = g.phone
    PROVE  StepsOf(f) = StepsOf(g)
BY DEF StepsOf

\* An answer that changes one field, then advances.
LEMMA AnswerKeeps ==
    ASSUME FormInv, NEW field \in FormSteps \ {"deal_type", "review"}, Answers(field),
           NEW f \in Forms, f.deal = form.deal, f.phone = form.phone,
           NEW covered \in {NoStep, "district", "features", "review", "contact"},
           Save(Advanced(f, field, covered))
    PROVE  FormInv'
<1>1. field \in ToSet(StepsOf(form)) /\ form.step = field
  BY DEF Answers, InForm
<1>2. field \in ToSet(StepsOf(f))
  BY <1>1, SameSteps
<1>3. Advanced(f, field, covered) \in Forms /\ Advanced(f, field, covered).deal = form.deal
  BY <1>2, AdvancedForm
<1> QED BY <1>1, <1>3, DealKept

\* The deal is chosen: the question after it is one of the new deal's.
LEMMA DealKeeps ==
    ASSUME FormInv, NEW deal \in {"sale", "rent"}, NEW full \in BOOLEAN, AnswerDeal(deal, full)
    PROVE  FormInv'
<1>1. form \in Forms
  BY DEF FormInv, FormTypeOK
<1> DEFINE cleared == [form EXCEPT !.budget = "unset", !.deposit = "unset", !.rent = "unset"]
<1>2. cleared \in Forms
  BY <1>1 DEF Forms, Amount
<1> HIDE DEF cleared
<1> DEFINE last(g) == [g EXCEPT !.section = "none", !.deal = deal, !.full = full,
                                !.rent = IF full THEN "zero" ELSE @]
<1>3. WithDeal(form, deal, full) \in Forms /\ WithDeal(form, deal, full).deal = deal
  <2>1. ASSUME NEW g \in Forms
        PROVE  last(g) \in Forms /\ last(g).deal = deal
    <3> DEFINE rent == IF full THEN "zero" ELSE g.rent
               e == [g EXCEPT !.section = "none", !.deal = deal, !.full = full, !.rent = rent]
    <3>1. rent \in Amount /\ last(g) = e
      BY DEF Forms, Amount
    <3> HIDE DEF rent, last
    <3>2. e \in Forms /\ e.deal = deal
      BY <2>1, <3>1 DEF Forms, Deals
    <3> QED BY <3>1, <3>2
  <2>2. WithDeal(form, deal, full) = last(IF form.deal = deal THEN form ELSE cleared)
    BY DEF WithDeal, cleared
  <2> HIDE DEF last
  <2> QED BY <1>1, <1>2, <2>1, <2>2
<1> DEFINE f == WithDeal(form, deal, full)
<1> HIDE DEF f
<1>4. "deal_type" \in ToSet(StepsOf(f))
  <2>1. f \in Forms
    BY <1>3 DEF f
  <2>2. StepsOf(f)[1] = "deal_type" /\ 1 \in DOMAIN StepsOf(f)
    BY <2>1, StepsRange DEF StartsOnce
  <2> QED BY <2>2 DEF ToSet
<1>5. /\ Advanced(f, "deal_type", NoStep) \in Forms
      /\ Advanced(f, "deal_type", NoStep).deal # "none"
  BY <1>3, <1>4, AdvancedForm DEF f
<1>6. Save(Advanced(f, "deal_type", NoStep))
  BY DEF AnswerDeal, f
<1> QED BY <1>5, <1>6, SavedKeeps

\* The answers that only lead on.
LEMMA PlainAnswersKeep ==
    ASSUME FormInv,
           \/ \E covered \in {NoStep, "district"} : AnswerArea(covered)
           \/ AnswerRooms \/ FeaturesContinue
    PROVE  FormInv'
<1>1. form \in Forms
  BY DEF FormInv, FormTypeOK
<1>2. ASSUME NEW covered \in {NoStep, "district"}, AnswerArea(covered)
      PROVE  FormInv'
  BY <1>1, <1>2, AnswerKeeps DEF AnswerArea, FormSteps
<1>3. CASE AnswerRooms
  BY <1>1, <1>3, AnswerKeeps DEF AnswerRooms, FormSteps
<1>4. CASE FeaturesContinue
  BY <1>1, <1>4, AnswerKeeps DEF FeaturesContinue, FormSteps
<1> QED BY <1>2, <1>3, <1>4

\* The answers that are kept in the form.
LEMMA StoredAnswersKeep ==
    ASSUME FormInv,
           \/ TypeDistrict \/ AnswerBudget \/ FeaturesDone \/ AnswerUrgency
           \/ \E amount \in {"zero", "some"} : TypeDeposit(amount) \/ AnswerRent(amount)
           \/ \E deposit, rent \in {"zero", "some"} : TypeBoth(deposit, rent)
    PROVE  FormInv'
<1>1. form \in Forms
  BY DEF FormInv, FormTypeOK
<1>2. CASE TypeDistrict
  <2> DEFINE f == [form EXCEPT !.place = TRUE]
  <2>1. f \in Forms /\ f.deal = form.deal /\ f.phone = form.phone
    BY <1>1 DEF Forms
  <2>2. Answers("district") /\ Save(Advanced(f, "district", NoStep))
    BY <1>2 DEF TypeDistrict
  <2> HIDE DEF f
  <2> QED BY <2>1, <2>2, AnswerKeeps DEF FormSteps
<1>3. CASE AnswerBudget
  <2> DEFINE f == [form EXCEPT !.budget = "some"]
  <2>1. f \in Forms /\ f.deal = form.deal /\ f.phone = form.phone
    BY <1>1 DEF Forms
  <2>2. Answers("max_budget") /\ Save(Advanced(f, "max_budget", NoStep))
    BY <1>3 DEF AnswerBudget
  <2> HIDE DEF f
  <2> QED BY <2>1, <2>2, AnswerKeeps DEF FormSteps
<1>4. CASE FeaturesDone
  <2> DEFINE f == [form EXCEPT !.urgency = TRUE]
             covered == IF form.phone THEN "review" ELSE "contact"
  <2>1. f \in Forms /\ f.deal = form.deal /\ f.phone = form.phone
    BY <1>1 DEF Forms
  <2>2. Answers("features") /\ Save(Advanced(f, "features", covered))
    BY <1>4 DEF FeaturesDone
  <2>3. covered \in {"review", "contact"}
    OBVIOUS
  <2> HIDE DEF f, covered
  <2> QED BY <2>1, <2>2, <2>3, AnswerKeeps DEF FormSteps
<1>5. CASE AnswerUrgency
  <2> DEFINE f == [form EXCEPT !.urgency = TRUE]
  <2>1. f \in Forms /\ f.deal = form.deal /\ f.phone = form.phone
    BY <1>1 DEF Forms
  <2>2. Answers("urgency") /\ Save(Advanced(f, "urgency", NoStep))
    BY <1>5 DEF AnswerUrgency
  <2> HIDE DEF f
  <2> QED BY <2>1, <2>2, AnswerKeeps DEF FormSteps
<1>6. ASSUME NEW amount \in {"zero", "some"}, TypeDeposit(amount)
      PROVE  FormInv'
  <2> DEFINE f == [form EXCEPT !.deposit = amount]
  <2>1. f \in Forms /\ f.deal = form.deal /\ f.phone = form.phone
    BY <1>1 DEF Forms, Amount
  <2>2. Answers("max_deposit") /\ Save(Advanced(f, "max_deposit", NoStep))
    BY <1>6 DEF TypeDeposit
  <2> HIDE DEF f
  <2> QED BY <2>1, <2>2, AnswerKeeps DEF FormSteps
<1>7. ASSUME NEW amount \in {"zero", "some"}, AnswerRent(amount)
      PROVE  FormInv'
  <2> DEFINE f == [form EXCEPT !.rent = amount]
  <2>1. f \in Forms /\ f.deal = form.deal /\ f.phone = form.phone
    BY <1>1 DEF Forms, Amount
  <2>2. Answers("max_rent") /\ Save(Advanced(f, "max_rent", NoStep))
    BY <1>7 DEF AnswerRent
  <2> HIDE DEF f
  <2> QED BY <2>1, <2>2, AnswerKeeps DEF FormSteps
<1>8. ASSUME NEW deposit \in {"zero", "some"}, NEW rent \in {"zero", "some"},
             TypeBoth(deposit, rent)
      PROVE  FormInv'
  <2> DEFINE f == [form EXCEPT !.deposit = deposit, !.rent = rent]
  <2>1. f \in Forms /\ f.deal = form.deal /\ f.phone = form.phone
    BY <1>1 DEF Forms, Amount
  <2>2. Answers("max_deposit") /\ Save(Advanced(f, "max_deposit", "features"))
    BY <1>8 DEF TypeBoth
  <2> HIDE DEF f
  <2> QED BY <2>1, <2>2, AnswerKeeps DEF FormSteps
<1> QED BY <1>2, <1>3, <1>4, <1>5, <1>6, <1>7, <1>8

\* The pickers' steps and what they lead to.
LEMMA PickedKeeps ==
    ASSUME FormInv,
           \/ DistrictsDone \/ BudgetDone
           \/ \E some \in BOOLEAN : ToggleDistrict(some)
           \/ \E section \in {"deposit", "rent"} : OpenSection(section)
           \/ \E amount \in {"zero", "some"} : PickAmount(amount)
    PROVE  FormInv'
<1>1. form.step \in FormSteps \ {"deal_type"}
  BY DEF DistrictsDone, BudgetDone, ToggleDistrict, OpenSection, PickAmount, FormSteps
<1>2. form \in Forms
  BY DEF FormInv, FormTypeOK
<1>3. CASE DistrictsDone
  <2> DEFINE step == IF form.edit THEN "review"
                     ELSE IF form.deal = "sale" THEN "max_budget" ELSE "max_deposit"
             e == [form EXCEPT !.section = "none", !.edit = FALSE, !.step = step]
  <2>1. Save(e) /\ step \in FormSteps
    BY <1>3 DEF DistrictsDone, FormSteps
  <2> HIDE DEF step
  <2>2. e \in Forms /\ e.deal = form.deal
    BY <1>2, <2>1 DEF Forms
  <2> HIDE DEF e
  <2> QED BY <1>1, <2>1, <2>2, DealKept
<1>4. CASE BudgetDone
  <2> DEFINE step == IF form.edit THEN "review" ELSE "features"
             full == form.rent = "zero"
             e == [form EXCEPT !.full = full, !.section = "none", !.edit = FALSE, !.step = step]
  <2>1. Save(e) /\ step \in FormSteps /\ full \in BOOLEAN
    BY <1>4 DEF BudgetDone, FormSteps
  <2> HIDE DEF step, full
  <2>2. e \in Forms /\ e.deal = form.deal
    BY <1>2, <2>1 DEF Forms
  <2> HIDE DEF e
  <2> QED BY <1>1, <2>1, <2>2, DealKept
<1>5. ASSUME NEW some \in BOOLEAN, ToggleDistrict(some)
      PROVE  FormInv'
  <2> DEFINE e == [form EXCEPT !.place = some]
  <2>1. e \in Forms /\ e.deal = form.deal /\ Save(e)
    BY <1>2, <1>5 DEF Forms, ToggleDistrict
  <2> HIDE DEF e
  <2> QED BY <1>1, <2>1, DealKept
<1>6. ASSUME NEW section \in {"deposit", "rent"}, OpenSection(section)
      PROVE  FormInv'
  <2> DEFINE e == [form EXCEPT !.section = section]
  <2>1. e \in Forms /\ e.deal = form.deal /\ Save(e)
    BY <1>2, <1>6 DEF Forms, OpenSection
  <2> HIDE DEF e
  <2> QED BY <1>1, <2>1, DealKept
<1>7. ASSUME NEW amount \in {"zero", "some"}, PickAmount(amount)
      PROVE  FormInv'
  <2> DEFINE d == [form EXCEPT !.deposit = amount]
             r == [form EXCEPT !.rent = amount]
  <2>1. d \in Forms /\ r \in Forms /\ d.deal = form.deal /\ r.deal = form.deal
    BY <1>2 DEF Forms, Amount
  <2>2. Save(d) \/ Save(r)
    BY <1>7, Zenon DEF PickAmount
  <2> HIDE DEF d, r
  <2> QED BY <1>1, <2>1, <2>2, DealKept
<1> QED BY <1>3, <1>4, <1>5, <1>6, <1>7

\* The review's button, with and without a phone, a submission that fails, and
\* a form that expires.
LEMMA ReviewButtonKeeps ==
    ASSUME FormInv, ConfirmWithoutPhone \/ ConfirmFails \/ ConfirmNeed \/ Expire
    PROVE  FormInv'
<1>1. form \in Forms /\ lead \in Deals /\ form.deal \in Deals
  BY DEF FormInv, FormTypeOK, Forms
<1>2. CASE ConfirmWithoutPhone
  <2> DEFINE e == [form EXCEPT !.step = "contact"]
  <2>1. e \in Forms /\ e.deal = form.deal
    BY <1>1 DEF Forms, FormSteps
  <2>2. Save(e) /\ form.step \in FormSteps \ {"deal_type"}
    BY <1>2 DEF ConfirmWithoutPhone, FormSteps
  <2> HIDE DEF e
  <2> QED BY <2>1, <2>2, DealKept
<1>3. CASE ConfirmFails
  <2>1. form' = form /\ (lead' = lead \/ lead' = form.deal)
    BY <1>3 DEF ConfirmFails
  <2> QED BY <1>1, <2>1 DEF FormInv, FormTypeOK, NoStepWithoutDeal, PastTheDeal
<1>4. CASE ConfirmNeed
  <2> DEFINE e == [form EXCEPT !.step = "menu", !.dirty = FALSE, !.edit = FALSE,
                               !.resume = NoStep]
  <2>1. form' = e /\ lead' = form.deal
    BY <1>4 DEF ConfirmNeed
  <2>2. e \in Forms /\ e.step = "menu" /\ e.edit = FALSE /\ e.resume = NoStep
    BY <1>1 DEF Forms, Menus
  <2> HIDE DEF e
  <2> QED BY <1>1, <2>1, <2>2 DEF FormInv, FormTypeOK, NoStepWithoutDeal, PastTheDeal, FormSteps
<1>5. CASE Expire
  <2>1. form' = Empty /\ lead' = lead
    BY <1>5 DEF Expire
  <2> QED BY <1>1, <2>1, EmptyForm DEF FormInv, FormTypeOK, NoStepWithoutDeal, PastTheDeal
<1> QED BY <1>2, <1>3, <1>4, <1>5

\* The form's inductive invariant: its types, and a deal for whatever goes by it.
THEOREM FormInvariance == FormSpec => []FormInv
<1>1. FormInit => FormInv
  BY EmptyForm DEF FormInit, FormInv, FormTypeOK, NoStepWithoutDeal, PastTheDeal, Deals
<1>2. FormInv /\ [FormNext]_formVars => FormInv'
  <2> SUFFICES ASSUME FormInv, [FormNext]_formVars PROVE FormInv'
    OBVIOUS
  <2>1. CASE UNCHANGED formVars
    BY <2>1 DEF formVars, FormInv, FormTypeOK, NoStepWithoutDeal, PastTheDeal
  <2>2. CASE Home \/ MainMenu \/ Find \/ AskNewRequest \/ Profile \/ NotUnderstood
    BY <2>2, MenuKeeps
  <2>3. CASE ShareContact
    BY <2>3, ContactKeeps
  <2>4. CASE EditNeed \/ ApplySuggestion
    BY <2>4, EditNeedKeeps, ApplyKeeps
  <2>5. CASE ResumeForm \/ \E field \in FormSteps : EditAnswer(field)
    BY <2>5, ReturnKeeps
  <2>6. CASE Back
    BY <2>6, BackKeeps
  <2>7. CASE \E deal \in {"sale", "rent"}, full \in BOOLEAN : AnswerDeal(deal, full)
    BY <2>7, DealKeeps
  <2>8. CASE \/ \E covered \in {NoStep, "district"} : AnswerArea(covered)
             \/ AnswerRooms \/ FeaturesContinue
    BY <2>8, PlainAnswersKeep
  <2>9. CASE \/ TypeDistrict \/ AnswerBudget \/ FeaturesDone \/ AnswerUrgency
             \/ \E amount \in {"zero", "some"} : TypeDeposit(amount) \/ AnswerRent(amount)
             \/ \E deposit, rent \in {"zero", "some"} : TypeBoth(deposit, rent)
    BY <2>9, StoredAnswersKeep
  <2>10. CASE \/ DistrictsDone \/ BudgetDone
              \/ \E some \in BOOLEAN : ToggleDistrict(some)
              \/ \E section \in {"deposit", "rent"} : OpenSection(section)
              \/ \E amount \in {"zero", "some"} : PickAmount(amount)
    BY <2>10, PickedKeeps
  <2>11. CASE ConfirmWithoutPhone \/ ConfirmFails \/ ConfirmNeed \/ Expire
    BY <2>11, ReviewButtonKeeps
  <2> QED BY <2>1, <2>2, <2>3, <2>4, <2>5, <2>6, <2>7, <2>8, <2>9, <2>10, <2>11 DEF FormNext
<1> QED BY <1>1, <1>2, PTL DEF FormSpec

\* The form's variables keep their types: whichever way the customer goes, the
\* stored step is one that exists.
THEOREM FormTypeCorrect == FormSpec => []FormTypeOK
<1>1. FormInv => FormTypeOK
  BY DEF FormInv
<1> QED BY <1>1, FormInvariance, PTL

\* No question, edit or resumption outlives the deal it belongs to.
THEOREM StepsHaveTheirDeal == FormSpec => []NoStepWithoutDeal
<1>1. FormInv => NoStepWithoutDeal
  BY DEF FormInv
<1> QED BY <1>1, FormInvariance, PTL

=============================================================================
