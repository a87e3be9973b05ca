--------------------------- MODULE SearchRuns_proofs ---------------------------
(***************************************************************************)
(* A search run never skips a listing: for any site, any number of threads *)
(* and any interruptions, its checkpoint stays behind what is persisted    *)
(* and a completed run covers the readable site.                           *)
(***************************************************************************)
EXTENDS SearchRuns, TLAPS

-----------------------------------------------------------------------------
(***************************************************************************)
(* Places, apart from the state they occur in: its is what is persisted,   *)
(* bl the unreadable targets.                                              *)
(***************************************************************************)
IsPast(place, t, p, x) ==
    \/ t < place.target
    \/ t = place.target /\ p < place.page
    \/ t = place.target /\ p = place.page /\ place.pending # {} /\ x \notin place.pending

\* The cursor behind a page is the site's.
NextRight(place) ==
    place.next = IF place.page < Len(Site[place.target]) THEN place.page + 1 ELSE NoPage

OnSite(place) ==
    place.target \in Targets =>
        /\ place.page \in 1..Len(Site[place.target])
        /\ place.pending # {} => NextRight(place)

\* All that lies behind the place is persisted, and its cursors are the site's.
Sound(place, its, bl) ==
    /\ OnSite(place)
    /\ \A t \in Targets \ bl : \A p \in 1..Len(Site[t]) : \A x \in Site[t][p] :
          IsPast(place, t, p, x) => x \in its

\* The page in hand is persisted but for its pending candidates.
PageInHand(place, its, bl) ==
    /\ NextRight(place)
    /\ place.target \notin bl =>
          \A x \in Site[place.target][place.page] : x \in place.pending \/ x \in its

TargetServed(t, its, bl) ==
    t \notin bl => \A p \in 1..Len(Site[t]) : \A x \in Site[t][p] : x \in its

SiteServed(its, bl) == \A t \in Targets : TargetServed(t, its, bl)

\* What one thread knows at each of its steps.
LegOK(w) ==
    /\ seen[w] \subseteq items /\ mark[w].seen \subseteq items
    /\ Sound(at[w], items, blind) /\ Sound(mark[w].place, items, blind)
    /\ mark[w] = Unmarked \/ mark[w].place.target # 0
    /\ pc[w] \in {"crawl", "page", "recorded", "targetDone"} => at[w].target \in Targets
    /\ pc[w] \in {"page", "recorded"} => PageInHand(at[w], items, blind)
    /\ pc[w] = "targetDone" => TargetServed(at[w].target, items, blind)
    /\ pc[w] \in {"recheck", "heads"} => at[w].target = Len(Site) + 1
    /\ pc[w] = "finish" /\ why[w] = "done" => SiteServed(items, blind)

RowOK ==
    /\ Sound(cp, items, blind) /\ cp.target # 0 /\ cpSeen \subseteq items
    /\ status = "completed" => SiteServed(items, blind)

RunInv == SearchTypeOK /\ RowOK /\ \A w \in Workers : LegOK(w)

-----------------------------------------------------------------------------
\* The site's sizes are natural numbers.
LEMMA SiteSizes ==
    /\ Len(Site) \in Nat
    /\ \A t \in Targets : Len(Site[t]) \in Nat /\ Len(Site[t]) > 0
    /\ \A t \in Targets : \A p \in 1..Len(Site[t]) : Site[t][p] \subseteq Listings
BY SearchRunsAssumption DEF Targets

\* The fields of a place.
LEMMA PlaceFields ==
    ASSUME NEW t, NEW p, NEW n, NEW S
    PROVE  /\ Place(t, p, n, S).target = t /\ Place(t, p, n, S).page = p
           /\ Place(t, p, n, S).next = n /\ Place(t, p, n, S).pending = S
BY DEF Place

\* A place with its parts in range is one.
LEMMA PlaceType ==
    ASSUME NEW t \in 0..(Len(Site) + 1), NEW p \in Nat \ {0}, NEW n \in Nat, NEW S \in SUBSET Items
    PROVE  Place(t, p, n, S) \in Places
BY DEF Place, Places

\* Nowhere is a place.
LEMMA NowhereType == Nowhere \in Places
BY SiteSizes DEF Nowhere, Place, Places, NoCursor, NoPage

\* No mark is one, and so is a place with what was seen by then.
LEMMA MarkType ==
    /\ Unmarked \in Marks /\ Unmarked.place = Nowhere /\ Unmarked.seen = {}
    /\ \A place \in Places : \A S \in SUBSET Items : [place |-> place, seen |-> S] \in Marks
BY NowhereType DEF Unmarked, Marks

\* A place stays sound when more is persisted or unreadable.
LEMMA SoundGrows ==
    ASSUME NEW place, NEW its, NEW its2, NEW bl, NEW bl2,
           its \subseteq its2, bl \subseteq bl2, Sound(place, its, bl)
    PROVE  Sound(place, its2, bl2)
BY DEF Sound

\* So does the page in hand, and a served target or site.
LEMMA ServedGrows ==
    ASSUME NEW its, NEW its2, NEW bl, NEW bl2, its \subseteq its2, bl \subseteq bl2
    PROVE  /\ \A place : PageInHand(place, its, bl) => PageInHand(place, its2, bl2)
           /\ \A t : TargetServed(t, its, bl) => TargetServed(t, its2, bl2)
           /\ SiteServed(its, bl) => SiteServed(its2, bl2)
BY DEF PageInHand, TargetServed, SiteServed

\* At the start, and where no leg stands, nothing is behind.
LEMMA StartIsSound ==
    ASSUME NEW its, NEW bl
    PROVE  Sound(HeadOf(1), its, bl) /\ Sound(Nowhere, its, bl)
BY SiteSizes DEF Sound, OnSite, IsPast, HeadOf, Nowhere, Place, Targets, NoCursor, NoPage

\* A page that is served.
LEMMA FetchedIsSound ==
    ASSUME NEW place \in Places, NEW its, NEW bl, NEW found,
           place.target \in Targets, Sound(place, its, bl),
           Site[place.target][place.page] \subseteq found,
           place.pending = {}
    PROVE  LET n == IF place.page < Len(Site[place.target]) THEN place.page + 1 ELSE NoPage
               new == Place(place.target, place.page, n, found)
           IN  Sound(new, its, bl) /\ PageInHand(new, its, bl)
<1> DEFINE t == place.target
           p == place.page
           n == IF p < Len(Site[t]) THEN p + 1 ELSE NoPage
           new == Place(t, p, n, found)
<1>1. /\ new.target = t /\ new.page = p /\ new.next = n /\ new.pending = found
      /\ t \in Targets /\ t \in Nat /\ p \in 1..Len(Site[t])
  BY PlaceFields DEF Sound, OnSite, Places
<1> HIDE DEF new
<1>2. OnSite(new) /\ PageInHand(new, its, bl)
  BY <1>1 DEF OnSite, PageInHand, NextRight
<1>3. \A u \in Targets \ bl : \A q \in 1..Len(Site[u]) : \A x \in Site[u][q] :
         IsPast(new, u, q, x) => IsPast(place, u, q, x)
  BY <1>1 DEF IsPast
<1>4. Sound(new, its, bl)
  BY <1>2, <1>3 DEF Sound
<1> QED BY <1>2, <1>4 DEF new

\* The candidates left by an earlier leg are the rest of a page.
LEMMA PendingIsInHand ==
    ASSUME NEW place, NEW its, NEW bl,
           place.target \in Targets, place.pending # {}, Sound(place, its, bl)
    PROVE  PageInHand(place, its, bl)
BY DEF Sound, OnSite, IsPast, PageInHand

\* A persisted candidate is taken off the page.
LEMMA HandledIsSound ==
    ASSUME NEW place, NEW its, NEW bl, NEW x, x \in its, Sound(place, its, bl)
    PROVE  LET new == Place(place.target, place.page, place.next, place.pending \ {x})
           IN  /\ Sound(new, its, bl)
               /\ PageInHand(place, its, bl) => PageInHand(new, its, bl)
BY PlaceFields DEF Sound, OnSite, IsPast, PageInHand, NextRight

\* A page without pending candidates lies behind the cursor that follows it.
LEMMA PageEndIsSound ==
    ASSUME NEW place \in Places, NEW its, NEW bl,
           place.target \in Targets, place.pending = {},
           Sound(place, its, bl), PageInHand(place, its, bl)
    PROVE  LET n == place.next
               new == Place(place.target, IF n = NoPage THEN NoCursor ELSE n, NoPage, {})
           IN  /\ Sound(new, its, bl) /\ new \in Places
               /\ n = NoPage => TargetServed(place.target, its, bl)
<1> DEFINE n == place.next
           t == place.target
           p == place.page
           new == Place(t, IF n = NoPage THEN NoCursor ELSE n, NoPage, {})
<1>1. /\ t \in Nat /\ p \in Nat /\ n \in Nat /\ Len(Site[t]) \in Nat /\ Len(Site[t]) > 0
      /\ p \in 1..Len(Site[t])
      /\ n = IF p < Len(Site[t]) THEN p + 1 ELSE NoPage
  BY SiteSizes DEF Sound, OnSite, PageInHand, NextRight, Places
<1>2. t \notin bl => \A x \in Site[t][p] : x \in its
  BY DEF PageInHand
<1>3. t \notin bl => \A q \in 1..Len(Site[t]) : \A x \in Site[t][q] : q <= p => x \in its
  BY <1>1, <1>2 DEF Sound, IsPast
<1>4. OnSite(new)
  BY <1>1, PlaceFields DEF OnSite, NoPage, NoCursor
<1>5. \A u \in Targets \ bl : \A q \in 1..Len(Site[u]) : \A x \in Site[u][q] :
         IsPast(new, u, q, x) => x \in its
  <2> SUFFICES ASSUME NEW u \in Targets \ bl, NEW q \in 1..Len(Site[u]), NEW x \in Site[u][q],
                      IsPast(new, u, q, x)
               PROVE  x \in its
    OBVIOUS
  <2>1. CASE u < t
    BY <2>1 DEF Sound, IsPast
  <2>2. CASE u = t
    BY <1>1, <1>3, <2>2, PlaceFields DEF IsPast, NoPage, NoCursor
  <2> QED BY <1>1, <2>1, <2>2, PlaceFields DEF IsPast
<1>6. n = NoPage => TargetServed(t, its, bl)
  BY <1>1, <1>3 DEF TargetServed, NoPage
<1>7. new \in Places
  BY <1>1 DEF Place, Places, NoPage, NoCursor
<1> QED BY <1>4, <1>5, <1>6, <1>7 DEF Sound

\* A served target lies behind the head of the next.
LEMMA TargetEndIsSound ==
    ASSUME NEW place \in Places, NEW its, NEW bl,
           place.target \in Targets, Sound(place, its, bl),
           TargetServed(place.target, its, bl)
    PROVE  Sound(HeadOf(place.target + 1), its, bl) /\ HeadOf(place.target + 1) \in Places
BY SiteSizes, PlaceFields DEF Sound, OnSite, IsPast, TargetServed, HeadOf, Place, Places, Targets,
   NoCursor, NoPage

\* Behind the last target lies the whole site.
LEMMA EndIsSound ==
    ASSUME NEW place, NEW its, NEW bl, place.target = Len(Site) + 1
    PROVE  /\ Sound(place, its, bl) <=> SiteServed(its, bl)
           /\ Sound(HeadOf(Len(Site) + 1), its, bl) <=> SiteServed(its, bl)
BY SiteSizes DEF Sound, OnSite, IsPast, SiteServed, TargetServed, HeadOf, Place, Targets


-----------------------------------------------------------------------------
\* A thread that does not move keeps what it knows.
LEMMA IdleLegKept ==
    ASSUME NEW v \in Workers, LegOK(v), items \subseteq items', blind \subseteq blind',
           pc'[v] = pc[v], at'[v] = at[v], seen'[v] = seen[v], mark'[v] = mark[v], why'[v] = why[v]
    PROVE  LegOK(v)'
<1>1. Sound(at[v], items', blind') /\ Sound(mark[v].place, items', blind')
  BY SoundGrows DEF LegOK
<1> QED BY <1>1, ServedGrows DEF LegOK

\* The row keeps its part while its checkpoint and status stay.
LEMMA RowKept ==
    ASSUME RowOK, items \subseteq items', blind \subseteq blind', UNCHANGED cpVars,
           status' = "completed" => status = "completed"
    PROVE  RowOK'
<1>1. Sound(cp, items', blind')
  BY SoundGrows DEF RowOK
<1> QED BY <1>1, ServedGrows DEF RowOK, cpVars

\* A step of one thread is judged by that thread and the row.
LEMMA StepRule ==
    ASSUME RunInv, NEW w \in Workers, SearchTypeOK', items \subseteq items', blind \subseteq blind',
           \A v \in Workers \ {w} :
              /\ pc'[v] = pc[v] /\ at'[v] = at[v] /\ seen'[v] = seen[v]
              /\ mark'[v] = mark[v] /\ why'[v] = why[v],
           LegOK(w)', RowOK'
    PROVE  RunInv'
<1>1. \A v \in Workers \ {w} : LegOK(v)'
  BY IdleLegKept DEF RunInv
<1> QED BY <1>1 DEF RunInv

\* The first state: nothing is read, nothing is behind.
LEMMA RunInvInit == SearchInit => RunInv
<1> SUFFICES ASSUME SearchInit PROVE RunInv
  OBVIOUS
<1>1. HeadOf(1) \in Places /\ Nowhere \in Places /\ HeadOf(1).target # 0
  BY SiteSizes DEF HeadOf, Nowhere, Place, Places, NoCursor, NoPage
<1>2. SearchTypeOK
  BY <1>1, MarkType DEF SearchInit, SearchTypeOK, Statuses, Sources, Steps
<1>3. RowOK
  BY <1>1, StartIsSound DEF SearchInit, RowOK
<1>4. ASSUME NEW w \in Workers PROVE LegOK(w)
  BY StartIsSound, MarkType DEF SearchInit, LegOK
<1> QED BY <1>2, <1>3, <1>4 DEF RunInv

\* A step that only moves a thread, or enters it at the start of its leg.
LEMMA StartInv ==
    ASSUME RunInv, NEW w \in Workers,
           \/ Resume(w) \/ LegCheck(w) \/ WorkerStops(w) \/ LegBegin(w) \/ LegAborts(w) \/ AfterLeg(w)
    PROVE  RunInv'
<1> USE DEF RunInv
<1>1. /\ UNCHANGED <<cpVars, items, legVars, blind>>
      /\ pc' \in [Workers -> Steps] /\ \A v \in Workers \ {w} : pc'[v] = pc[v]
      /\ pc'[w] \in {"idle", "start", "begin", "load", "after"}
      /\ status' = "completed" => status = "completed"
  BY DEF Resume, LegCheck, WorkerStops, LegBegin, LegAborts, AfterLeg, Goto, SearchTypeOK, Steps, runRow
<1>2. SearchTypeOK'
  BY <1>1 DEF Resume, LegCheck, WorkerStops, LegBegin, LegAborts, AfterLeg, SearchTypeOK, Statuses, Sources,
     runRow, cpVars, legVars
<1>3. LegOK(w)'
  BY <1>1 DEF LegOK, legVars
<1>4. RowOK'
  BY <1>1, RowKept
<1> QED BY <1>1, <1>2, <1>3, <1>4, StepRule DEF legVars

\* A leg ends in the crawl: a refusal or the end of its time.
LEMMA StopInv ==
    ASSUME RunInv, NEW w \in Workers,
           FetchRefused(w) \/ StopBetweenPages(w) \/ RecheckRefused(w)
    PROVE  RunInv'
<1> USE DEF RunInv
<1>1. /\ UNCHANGED <<runRow, cpVars, items, head, at, seen, mark, blind>>
      /\ pc' = [pc EXCEPT ![w] = "finish"]
      /\ \E r \in {"time", "refused"} : why' = [why EXCEPT ![w] = r]
  BY DEF FetchRefused, StopBetweenPages, RecheckRefused, EndLeg, Goto
<1>2. SearchTypeOK'
  BY <1>1 DEF SearchTypeOK, Steps, runRow, cpVars
<1>3. LegOK(w)'
  BY <1>1 DEF LegOK, SearchTypeOK
<1>4. RowOK'
  BY <1>1, RowKept DEF runRow
<1>5. \A v \in Workers \ {w} : pc'[v] = pc[v] /\ why'[v] = why[v]
  BY <1>1 DEF SearchTypeOK
<1> QED BY <1>1, <1>2, <1>3, <1>4, <1>5, StepRule

\* The checkpoint is loaded: what it has behind it is persisted.
LEMMA LoadInv ==
    ASSUME RunInv, NEW w \in Workers, LegLoad(w)
    PROVE  RunInv'
<1> USE DEF RunInv
<1>1. /\ at'[w] = cp /\ seen'[w] = cpSeen \cup items /\ mark'[w] = Unmarked /\ why'[w] = "done"
      /\ pc'[w] = IF cp.target > Len(Site) THEN "recheck" ELSE "crawl"
      /\ \A v \in Workers \ {w} :
            /\ pc'[v] = pc[v] /\ at'[v] = at[v] /\ seen'[v] = seen[v]
            /\ mark'[v] = mark[v] /\ why'[v] = why[v]
  BY DEF LegLoad, Goto, SearchTypeOK
<1>3. SearchTypeOK'
  BY MarkType DEF LegLoad, Goto, SearchTypeOK, Steps, runRow, cpVars
<1>4. cp.target \in 1..(Len(Site) + 1)
  BY SiteSizes DEF RowOK, SearchTypeOK, Places
<1>5. LegOK(w)'
  BY <1>1, <1>4, StartIsSound, MarkType, SiteSizes DEF LegOK, RowOK, LegLoad, Targets
<1>6. RowOK'
  BY RowKept DEF LegLoad, runRow
<1> QED BY <1>1, <1>3, <1>5, <1>6, StepRule DEF LegLoad

\* The rest of a page an earlier leg has left.
LEMMA TakeUpInv ==
    ASSUME RunInv, NEW w \in Workers, TakeUpPending(w)
    PROVE  RunInv'
<1> USE DEF RunInv
<1>1. PageInHand(at[w], items, blind)
  BY PendingIsInHand DEF TakeUpPending, LegOK
<1>2. /\ pc'[w] = "page" /\ \A v \in Workers \ {w} : pc'[v] = pc[v]
      /\ UNCHANGED <<runRow, cpVars, items, head, legVars, blind>>
  BY DEF TakeUpPending, Goto, SearchTypeOK
<1>3. SearchTypeOK'
  BY DEF TakeUpPending, Goto, SearchTypeOK, Steps, runRow, cpVars, legVars
<1>4. LegOK(w)'
  BY <1>1, <1>2 DEF TakeUpPending, LegOK, legVars
<1>5. RowOK'
  BY <1>2, RowKept DEF runRow
<1> QED BY <1>2, <1>3, <1>4, <1>5, StepRule DEF legVars

\* A page is served, whatever its listings and wherever its cursor leads.
LEMMA FetchInv ==
    ASSUME RunInv, NEW w \in Workers, FetchPage(w)
    PROVE  RunInv'
<1> USE DEF RunInv
<1> DEFINE t == at[w].target
           p == at[w].page
           found == Candidates(t, p)
           n == IF p < Len(Site[t]) THEN p + 1 ELSE NoPage
           new == Place(t, p, n, found)
<1>1. /\ at[w] \in Places /\ t \in Targets /\ Sound(at[w], items, blind) /\ p \in 1..Len(Site[t])
      /\ Len(Site[t]) \in Nat /\ p \in Nat
  BY SiteSizes DEF FetchPage, LegOK, Sound, OnSite, SearchTypeOK
<1>2. found \subseteq Items /\ Site[t][p] \subseteq found
  BY <1>1, SiteSizes DEF Candidates, Items, SearchTypeOK
<1>3. Sound(new, items, blind) /\ PageInHand(new, items, blind) /\ new.target = t
  <2>1. at[w].pending = {}
    BY DEF FetchPage
  <2>2. Sound(new, items, blind) /\ PageInHand(new, items, blind)
    <3> HIDE DEF found
    <3> QED BY <1>1, <1>2, <2>1, FetchedIsSound
  <2> QED BY <2>2, PlaceFields
<1>4. new \in Places
  <2>1. t \in 0..(Len(Site) + 1) /\ p \in Nat \ {0} /\ n \in Nat
    BY <1>1 DEF Places, NoPage
  <2> QED BY <1>2, <2>1, PlaceType
<1>5. /\ at' = [at EXCEPT ![w] = new] /\ pc' = [pc EXCEPT ![w] = "page"]
      /\ UNCHANGED <<runRow, cpVars, items, head, seen, mark, why, blind>>
  BY DEF FetchPage, Goto
<1> HIDE DEF new
<1>6. SearchTypeOK'
  BY <1>4, <1>5 DEF SearchTypeOK, Steps, runRow, cpVars
<1>7. /\ at'[w] = new /\ pc'[w] = "page"
      /\ \A v \in Workers \ {w} : pc'[v] = pc[v] /\ at'[v] = at[v]
  BY <1>5 DEF SearchTypeOK
<1>8. LegOK(w)'
  BY <1>1, <1>3, <1>5, <1>7 DEF LegOK
<1>9. RowOK'
  BY <1>5, RowKept DEF runRow
<1> QED BY <1>5, <1>6, <1>7, <1>8, <1>9, StepRule

\* A head without listings closes its target, as an unreadable one.
LEMMA EmptyHeadInv ==
    ASSUME RunInv, NEW w \in Workers, FetchEmptyHead(w)
    PROVE  RunInv'
<1> USE DEF RunInv
<1>1. /\ pc'[w] = "targetDone" /\ \A v \in Workers \ {w} : pc'[v] = pc[v]
      /\ UNCHANGED <<runRow, cpVars, items, head, legVars>>
      /\ blind' = blind \cup {at[w].target} /\ at[w].target \in Targets
  BY DEF FetchEmptyHead, Goto, SearchTypeOK, LegOK
<1>2. SearchTypeOK'
  BY <1>1 DEF FetchEmptyHead, Goto, SearchTypeOK, Steps, runRow, cpVars, legVars
<1>3. LegOK(w)'
  <2>1. Sound(at[w], items, blind') /\ Sound(mark[w].place, items, blind')
    BY <1>1, SoundGrows DEF LegOK
  <2>2. TargetServed(at[w].target, items, blind')
    BY <1>1 DEF TargetServed
  <2> QED BY <1>1, <2>1, <2>2 DEF LegOK, legVars
<1>4. RowOK'
  BY <1>1, RowKept DEF runRow
<1> QED BY <1>1, <1>2, <1>3, <1>4, StepRule DEF legVars

\* A checkpoint saved from a sound place is sound.
LEMMA SavedRow ==
    ASSUME RunInv, NEW w \in Workers, NEW place, Save(w, place), Sound(place, items, blind),
           place.target # 0, status' = status, items' = items, blind' = blind
    PROVE  RowOK'
BY DEF RunInv, RowOK, LegOK, Save

\* The time of a leg ends inside a page.
LEMMA StopInPageInv ==
    ASSUME RunInv, NEW w \in Workers, StopInPage(w)
    PROVE  RunInv'
<1> USE DEF RunInv
<1> DEFINE m == [place |-> at[w], seen |-> seen[w]]
<1>0. m \in Marks /\ m.place = at[w] /\ m.seen = seen[w]
  BY MarkType DEF SearchTypeOK
<1>1. /\ UNCHANGED <<status, canResume, items, head, at, seen, blind>> /\ Save(w, at[w])
      /\ pc' = [pc EXCEPT ![w] = "finish"] /\ why' = [why EXCEPT ![w] = "time"]
      /\ mark' = [mark EXCEPT ![w] = m] /\ cp' = at[w] /\ cpSeen' = seen[w]
      /\ source' = "time_budget_reached" /\ pc[w] = "page"
  BY DEF StopInPage, EndLeg, Goto, Save, Mark
<1> HIDE DEF m
<1>2. at[w].target # 0 /\ Sound(at[w], items, blind)
  BY <1>1, SiteSizes DEF LegOK, Targets
<1>3. SearchTypeOK'
  BY <1>0, <1>1 DEF SearchTypeOK, Steps, Sources
<1>4. LegOK(w)'
  BY <1>0, <1>1, <1>2 DEF LegOK, SearchTypeOK
<1>5. RowOK'
  BY <1>1, <1>2, SavedRow
<1>6. \A v \in Workers \ {w} : pc'[v] = pc[v] /\ why'[v] = why[v] /\ mark'[v] = mark[v]
  BY <1>1 DEF SearchTypeOK
<1> QED BY <1>1, <1>3, <1>4, <1>5, <1>6, StepRule

\* The candidate in hand is one of the pending.
LEMMA NextIsPending ==
    ASSUME NEW w \in Workers, at[w].pending # {}
    PROVE  NextOf(w) \in at[w].pending
BY DEF NextOf

\* A candidate is handled: skipped as persisted before, or persisted now.
LEMMA HandleInv ==
    ASSUME RunInv, NEW w \in Workers, SkipSeen(w) \/ Record(w)
    PROVE  RunInv'
<1> USE DEF RunInv
<1> DEFINE x == NextOf(w)
           new == Place(at[w].target, at[w].page, at[w].next, at[w].pending \ {x})
<1>1. /\ pc[w] = "page" /\ at' = [at EXCEPT ![w] = new]
      /\ UNCHANGED <<runRow, cpVars, head, mark, why, blind>>
      /\ items' = items \/ items' = items \cup {x}
      /\ seen' = seen \/ (seen' = [seen EXCEPT ![w] = @ \cup {x}] /\ items' = items \cup {x})
      /\ x \in items'
      /\ pc' = pc \/ pc' = [pc EXCEPT ![w] = "recorded"]
  BY DEF SkipSeen, Record, Handled, Goto, LegOK
<1>2. at[w] \in Places /\ x \in Items
  BY NextIsPending DEF SkipSeen, Record, SearchTypeOK, Places
<1>3. new \in Places
  BY <1>2 DEF Place, Places
<1>4. Sound(new, items', blind) /\ PageInHand(new, items', blind) /\ new.target = at[w].target
  <2>1. Sound(at[w], items', blind) /\ PageInHand(at[w], items', blind)
    BY <1>1, SoundGrows, ServedGrows DEF LegOK
  <2> QED BY <1>1, <2>1, HandledIsSound, PlaceFields
<1> HIDE DEF new, x
<1>5. SearchTypeOK'
  BY <1>1, <1>2, <1>3 DEF SearchTypeOK, Steps, runRow, cpVars
<1>6. /\ at'[w] = new /\ pc'[w] \in {"page", "recorded"} /\ seen'[w] \subseteq items'
      /\ \A v \in Workers \ {w} : pc'[v] = pc[v] /\ at'[v] = at[v] /\ seen'[v] = seen[v]
  BY <1>1 DEF SearchTypeOK, LegOK
<1>7. LegOK(w)'
  <2>1. Sound(mark[w].place, items', blind)
    BY <1>1, SoundGrows DEF LegOK
  <2> QED BY <1>1, <1>4, <1>6, <2>1 DEF LegOK
<1>8. RowOK'
  BY <1>1, RowKept DEF runRow
<1> QED BY <1>1, <1>5, <1>6, <1>7, <1>8, StepRule

\* The checkpoint after a record keeps the cursor of the page.
LEMMA SaveRecordInv ==
    ASSUME RunInv, NEW w \in Workers, SaveAfterRecord(w)
    PROVE  RunInv'
<1> USE DEF RunInv
<1> DEFINE m == [place |-> at[w], seen |-> seen[w]]
<1>0. m \in Marks /\ m.place = at[w] /\ m.seen = seen[w]
  BY MarkType DEF SearchTypeOK
<1>1. /\ UNCHANGED <<status, canResume, items, head, at, seen, why, blind>> /\ Save(w, at[w])
      /\ pc' = [pc EXCEPT ![w] = "page"] /\ mark' = [mark EXCEPT ![w] = m]
      /\ cp' = at[w] /\ cpSeen' = seen[w] /\ source' = "running" /\ pc[w] = "recorded"
  BY DEF SaveAfterRecord, ResumePoint, Goto, Save, Mark
<1> HIDE DEF m
<1>2. at[w].target # 0 /\ Sound(at[w], items, blind)
  BY <1>1, SiteSizes DEF LegOK, Targets
<1>3. SearchTypeOK'
  BY <1>0, <1>1 DEF SearchTypeOK, Steps, Sources
<1>4. LegOK(w)'
  BY <1>0, <1>1, <1>2 DEF LegOK, SearchTypeOK
<1>5. RowOK'
  BY <1>1, <1>2, SavedRow
<1>6. \A v \in Workers \ {w} : pc'[v] = pc[v] /\ mark'[v] = mark[v]
  BY <1>1 DEF SearchTypeOK
<1> QED BY <1>1, <1>3, <1>4, <1>5, <1>6, StepRule

\* A step that saves the place it goes to, at the end of a page or a target.
LEMMA AdvanceRule ==
    ASSUME RunInv, NEW w \in Workers, NEW place \in Places, NEW step \in Steps,
           Save(w, place), at' = [at EXCEPT ![w] = place], Goto(w, step), source' = "running",
           UNCHANGED <<status, canResume, items, head, seen, why, blind>>,
           Sound(place, items, blind), place.target # 0,
           \/ step = "crawl" /\ place.target \in Targets
           \/ step = "targetDone" /\ place.target \in Targets
                /\ TargetServed(place.target, items, blind)
           \/ step = "recheck" /\ place.target = Len(Site) + 1
    PROVE  RunInv'
<1> USE DEF RunInv
<1> DEFINE m == [place |-> place, seen |-> seen[w]]
<1>0. /\ m \in Marks /\ m.place = place /\ m.seen = seen[w]
      /\ cp' = place /\ cpSeen' = seen[w] /\ mark' = [mark EXCEPT ![w] = m]
  BY MarkType DEF SearchTypeOK, Save, Mark
<1> HIDE DEF m
<1>1. SearchTypeOK'
  BY <1>0 DEF SearchTypeOK, Goto, Sources
<1>2. LegOK(w)'
  BY <1>0 DEF LegOK, SearchTypeOK, Goto
<1>3. RowOK'
  BY SavedRow
<1>4. \A v \in Workers \ {w} : pc'[v] = pc[v] /\ mark'[v] = mark[v] /\ at'[v] = at[v]
  BY DEF SearchTypeOK, Save, Mark, Goto
<1> QED BY <1>1, <1>2, <1>3, <1>4, StepRule

\* The cursor moves on over a page whose candidates are all handled.
LEMMA PageEndInv ==
    ASSUME RunInv, NEW w \in Workers, PageEnd(w)
    PROVE  RunInv'
<1> DEFINE t == at[w].target
           n == at[w].next
           place == Place(t, IF n = NoPage THEN NoCursor ELSE n, NoPage, {})
           step == IF n = NoPage THEN "targetDone" ELSE "crawl"
<1>1. /\ at[w] \in Places /\ t \in Targets /\ at[w].pending = {}
      /\ Sound(at[w], items, blind) /\ PageInHand(at[w], items, blind)
  BY DEF PageEnd, RunInv, LegOK, SearchTypeOK
<1>2. /\ Sound(place, items, blind) /\ place \in Places
      /\ n = NoPage => TargetServed(t, items, blind)
  BY <1>1, PageEndIsSound
<1>3. place.target = t /\ t # 0
  BY <1>1, PlaceFields, SiteSizes DEF Targets
<1>4. /\ Save(w, place) /\ at' = [at EXCEPT ![w] = place] /\ Goto(w, step)
      /\ source' = "running" /\ UNCHANGED <<status, canResume, items, head, seen, why, blind>>
  BY DEF PageEnd
<1>5. step \in Steps /\ (step = "crawl" \/ (step = "targetDone" /\ n = NoPage))
  BY DEF Steps
<1> HIDE DEF place, step, n
<1> QED BY <1>1, <1>2, <1>3, <1>4, <1>5, AdvanceRule

\* The cursor moves on over a target.
LEMMA TargetEndInv ==
    ASSUME RunInv, NEW w \in Workers, TargetEnd(w)
    PROVE  RunInv'
<1> DEFINE t == at[w].target
           place == HeadOf(t + 1)
           step == IF place.target > Len(Site) THEN "recheck" ELSE "crawl"
<1>1. /\ at[w] \in Places /\ t \in Targets
      /\ Sound(at[w], items, blind) /\ TargetServed(t, items, blind)
  BY DEF TargetEnd, RunInv, LegOK, SearchTypeOK
<1>2. Sound(place, items, blind) /\ place \in Places
  BY <1>1, TargetEndIsSound
<1>3. place.target = t + 1 /\ place.target # 0
  BY <1>1, SiteSizes DEF HeadOf, Place, Targets
<1>4. /\ Save(w, place) /\ at' = [at EXCEPT ![w] = place] /\ Goto(w, step)
      /\ source' = "running" /\ UNCHANGED <<status, canResume, items, head, seen, why, blind>>
  BY DEF TargetEnd
<1>5. \/ step = "crawl" /\ place.target \in Targets
      \/ step = "recheck" /\ place.target = Len(Site) + 1
  BY <1>1, <1>3, SiteSizes DEF Targets
<1>6. step \in Steps
  BY DEF Steps
<1> HIDE DEF place, step
<1> QED BY <1>2, <1>3, <1>4, <1>5, <1>6, AdvanceRule

\* A step of the head recheck, behind the last target, where no page counts.
LEMMA RecheckRule ==
    ASSUME RunInv, NEW w \in Workers, pc[w] \in {"recheck", "heads"},
           NEW place \in Places, place.target = at[w].target,
           at' = [at EXCEPT ![w] = place], pc' = pc \/ pc' = [pc EXCEPT ![w] = "heads"],
           items \subseteq items', items' \subseteq Items,
           NEW S \in SUBSET Items, seen' = [seen EXCEPT ![w] = S], S \subseteq items',
           UNCHANGED <<runRow, cpVars, head, mark, why, blind>>
    PROVE  RunInv'
<1> USE DEF RunInv
<1>1. place.target = Len(Site) + 1 /\ Sound(at[w], items', blind) /\ Sound(mark[w].place, items', blind)
  BY SoundGrows DEF LegOK
<1>2. Sound(place, items', blind)
  BY <1>1, EndIsSound DEF LegOK
<1>3. SearchTypeOK'
  BY DEF SearchTypeOK, Steps, runRow, cpVars
<1>4. LegOK(w)'
  BY <1>1, <1>2 DEF LegOK, SearchTypeOK
<1>5. RowOK'
  BY RowKept DEF runRow
<1>6. \A v \in Workers \ {w} : pc'[v] = pc[v] /\ at'[v] = at[v] /\ seen'[v] = seen[v]
  BY DEF SearchTypeOK
<1> QED BY <1>3, <1>4, <1>5, <1>6, StepRule

\* The heads are fetched once more.
LEMMA RecheckFetchInv ==
    ASSUME RunInv, NEW w \in Workers, NEW readable \in SUBSET Targets, RecheckFetch(w, readable)
    PROVE  RunInv'
<1> DEFINE found == UNION {Candidates(t, NoCursor) : t \in readable}
           place == Place(at[w].target, NoCursor, NoPage, found)
<1>1. found \subseteq Items
  BY SiteSizes DEF Candidates, Items, RunInv, SearchTypeOK, NoCursor
<1>2. at[w].target \in 0..(Len(Site) + 1) /\ NoCursor \in Nat \ {0} /\ NoPage \in Nat
  BY DEF RunInv, SearchTypeOK, Places, NoCursor, NoPage
<1> HIDE DEF found
<1>3. place \in Places /\ place.target = at[w].target
  BY <1>1, <1>2, PlaceType, PlaceFields
<1>4. /\ at' = [at EXCEPT ![w] = place] /\ pc' = [pc EXCEPT ![w] = "heads"]
      /\ pc[w] \in {"recheck", "heads"}
      /\ UNCHANGED <<runRow, cpVars, items, head, seen, mark, why, blind>>
  BY DEF RecheckFetch, Goto, found
<1>5. /\ seen[w] \in SUBSET Items /\ seen[w] \subseteq items /\ items \subseteq Items
      /\ seen' = [seen EXCEPT ![w] = seen[w]]
  BY <1>4 DEF RunInv, SearchTypeOK, LegOK
<1> HIDE DEF place
<1> QED BY <1>3, <1>4, <1>5, RecheckRule

\* A listing of a head is persisted, or was.
LEMMA RecheckHandleInv ==
    ASSUME RunInv, NEW w \in Workers, RecheckHandle(w)
    PROVE  RunInv'
<1> DEFINE x == NextOf(w)
           place == Place(at[w].target, at[w].page, at[w].next, at[w].pending \ {x})
<1>1. at[w] \in Places /\ x \in Items /\ seen[w] \in SUBSET Items /\ seen[w] \subseteq items
      /\ items \subseteq Items
  BY NextIsPending DEF RecheckHandle, RunInv, LegOK, SearchTypeOK, Places
<1>2. place \in Places /\ place.target = at[w].target
  BY <1>1 DEF Place, Places
<1>3. /\ at' = [at EXCEPT ![w] = place] /\ pc' = pc /\ pc[w] \in {"recheck", "heads"}
      /\ items' = items \cup {x}
      /\ seen' = [seen EXCEPT ![w] = seen[w] \cup {x}]
      /\ UNCHANGED <<runRow, cpVars, head, mark, why, blind>>
  BY <1>1 DEF RecheckHandle, Handled
<1> HIDE DEF place, x
<1> DEFINE S == seen[w] \cup {x}
<1>4. /\ S \in SUBSET Items /\ S \subseteq items' /\ items \subseteq items' /\ items' \subseteq Items
      /\ seen' = [seen EXCEPT ![w] = S]
  BY <1>1, <1>3
<1> HIDE DEF S
<1> QED BY <1>2, <1>3, <1>4, RecheckRule

\* Behind the recheck the site is served: the leg is done.
LEMMA RecheckEndInv ==
    ASSUME RunInv, NEW w \in Workers, RecheckEnd(w)
    PROVE  RunInv'
<1> USE DEF RunInv
<1> DEFINE end == HeadOf(Len(Site) + 1)
<1>1. SiteServed(items, blind) /\ Sound(end, items, blind)
  BY EndIsSound DEF RecheckEnd, LegOK
<1>2. end \in Places /\ end.target # 0
  BY SiteSizes DEF HeadOf, Place, Places, NoCursor, NoPage
<1> DEFINE m == [place |-> end, seen |-> seen[w]]
<1>0. m \in Marks /\ m.place = end /\ m.seen = seen[w]
  BY <1>2, MarkType DEF SearchTypeOK
<1>3. /\ mark' = [mark EXCEPT ![w] = m] /\ why' = [why EXCEPT ![w] = "done"]
      /\ pc' = [pc EXCEPT ![w] = "finish"]
      /\ UNCHANGED <<runRow, cpVars, items, head, at, seen, blind>>
  BY DEF RecheckEnd, EndLeg, Goto, Mark
<1> HIDE DEF end, m
<1>4. SearchTypeOK'
  BY <1>0, <1>3 DEF SearchTypeOK, Steps, runRow, cpVars
<1>5. LegOK(w)'
  BY <1>0, <1>1, <1>2, <1>3 DEF LegOK, SearchTypeOK
<1>6. RowOK'
  BY <1>3, RowKept DEF runRow
<1>7. \A v \in Workers \ {w} : pc'[v] = pc[v] /\ why'[v] = why[v] /\ mark'[v] = mark[v]
  BY <1>3 DEF SearchTypeOK
<1> QED BY <1>3, <1>4, <1>5, <1>6, <1>7, StepRule

\* A thread that has forgotten its leg knows nothing that could be wrong.
LEMMA ForgetRule ==
    ASSUME RunInv, NEW w \in Workers, ForgetLeg(w), NEW step \in {"after", "idle"}, Goto(w, step),
           UNCHANGED <<items, head, blind>>, RowOK',
           status' \in Statuses, source' \in Sources, canResume' \in BOOLEAN,
           cp' \in Places, cpSeen' \subseteq Items
    PROVE  RunInv'
<1> USE DEF RunInv
<1>1. SearchTypeOK'
  BY NowhereType, MarkType DEF SearchTypeOK, Steps, Goto, ForgetLeg
<1>2. LegOK(w)'
  BY StartIsSound, MarkType DEF LegOK, SearchTypeOK, ForgetLeg, Goto
<1>3. \A v \in Workers \ {w} :
        /\ pc'[v] = pc[v] /\ at'[v] = at[v] /\ seen'[v] = seen[v]
        /\ mark'[v] = mark[v] /\ why'[v] = why[v]
  BY DEF SearchTypeOK, ForgetLeg, Goto
<1> QED BY <1>1, <1>2, <1>3, StepRule

\* The report of a leg is stored: complete only when the site is served.
LEMMA FinishInv ==
    ASSUME RunInv, NEW w \in Workers, LegFinish(w)
    PROVE  RunInv'
<1>1. /\ ForgetLeg(w) /\ Goto(w, "after") /\ UNCHANGED <<items, head, blind>> /\ pc[w] = "finish"
      /\ status' = IF why[w] = "done" THEN "completed" ELSE "interrupted"
      /\ cp' = (IF mark[w] = Unmarked THEN cp ELSE mark[w].place)
      /\ cpSeen' = (IF mark[w] = Unmarked THEN cpSeen ELSE mark[w].seen)
      /\ canResume' \in BOOLEAN
  BY DEF LegFinish
<1>2. source' \in Sources /\ status' \in Statuses
  BY DEF LegFinish, Sources, Statuses
<1>3. cp' \in Places /\ cpSeen' \subseteq Items
  BY <1>1 DEF RunInv, SearchTypeOK, Marks
<1>4. RowOK'
  BY <1>1 DEF RunInv, RowOK, LegOK
<1> QED BY <1>1, <1>2, <1>3, <1>4, ForgetRule

\* A leg fails: its checkpoint stays.
LEMMA FailInv ==
    ASSUME RunInv, NEW w \in Workers, LegFails(w)
    PROVE  RunInv'
<1>1. /\ ForgetLeg(w) /\ Goto(w, "idle") /\ UNCHANGED <<cpVars, items, head, blind>>
      /\ status' = "failed" /\ source' = "internal_error" /\ canResume' = TRUE
  BY DEF LegFails
<1>2. RowOK'
  BY <1>1, RowKept DEF RunInv
<1>3. /\ cp' \in Places /\ cpSeen' \subseteq Items
      /\ source' \in Sources /\ status' \in Statuses /\ canResume' \in BOOLEAN
  BY <1>1 DEF RunInv, SearchTypeOK, cpVars, Sources, Statuses
<1> QED BY <1>1, <1>2, <1>3, ForgetRule

\* The process dies between any two steps: the row is what the last commit left.
LEMMA CrashInv == ASSUME RunInv, SearchCrash PROVE RunInv'
<1>1. SearchTypeOK'
  BY NowhereType, MarkType DEF RunInv, SearchCrash, SearchTypeOK, Steps, runRow, cpVars
<1>2. RowOK'
  BY RowKept DEF RunInv, SearchCrash, runRow
<1>3. ASSUME NEW w \in Workers PROVE LegOK(w)'
  BY StartIsSound, MarkType DEF LegOK, SearchCrash
<1> QED BY <1>1, <1>2, <1>3 DEF RunInv

\* Somebody publishes a listing, or nothing happens.
LEMMA OutsideInv ==
    ASSUME RunInv, (\E t \in Targets, x \in Fresh : Publish(t, x)) \/ UNCHANGED searchVars
    PROVE  RunInv'
<1>1. /\ UNCHANGED <<runRow, cpVars, items, pc, legVars, blind>>
      /\ head' = head \/ \E t \in Targets, x \in Fresh : head' = [head EXCEPT ![t] = @ \cup {x}]
  BY DEF Publish, searchVars
<1>2. SearchTypeOK'
  BY <1>1 DEF RunInv, SearchTypeOK, runRow, cpVars, legVars
<1>3. RowOK'
  BY <1>1, RowKept DEF RunInv, runRow
<1>4. ASSUME NEW w \in Workers PROVE LegOK(w)'
  BY <1>1, IdleLegKept DEF RunInv, legVars
<1> QED BY <1>2, <1>3, <1>4 DEF RunInv

\* Every step keeps the invariant.
LEMMA RunInvNext == RunInv /\ [SearchNext]_searchVars => RunInv'
<1> SUFFICES ASSUME RunInv, [SearchNext]_searchVars PROVE RunInv'
  OBVIOUS
<1>1. ASSUME NEW w \in Workers, SearchWorker(w) PROVE RunInv'
  <2>1. CASE Resume(w) \/ LegCheck(w) \/ WorkerStops(w) \/ LegBegin(w) \/ LegAborts(w) \/ AfterLeg(w)
    BY <2>1, StartInv
  <2>2. CASE FetchRefused(w) \/ StopBetweenPages(w) \/ RecheckRefused(w)
    BY <2>2, StopInv
  <2>3. CASE LegLoad(w) \/ TakeUpPending(w) \/ FetchPage(w) \/ FetchEmptyHead(w)
    BY <2>3, LoadInv, TakeUpInv, FetchInv, EmptyHeadInv
  <2>4. CASE StopInPage(w) \/ SkipSeen(w) \/ Record(w) \/ SaveAfterRecord(w)
    BY <2>4, StopInPageInv, HandleInv, SaveRecordInv
  <2>5. CASE PageEnd(w) \/ TargetEnd(w)
    BY <2>5, PageEndInv, TargetEndInv
  <2>6. CASE (\E readable \in SUBSET Targets : RecheckFetch(w, readable))
             \/ RecheckHandle(w) \/ RecheckEnd(w)
    BY <2>6, RecheckFetchInv, RecheckHandleInv, RecheckEndInv
  <2>7. CASE LegFinish(w) \/ LegFails(w)
    BY <2>7, FinishInv, FailInv
  <2> QED BY <1>1, <2>1, <2>2, <2>3, <2>4, <2>5, <2>6, <2>7 DEF SearchWorker
<1>2. CASE SearchCrash
  BY <1>2, CrashInv
<1>3. CASE (\E t \in Targets, x \in Fresh : Publish(t, x)) \/ UNCHANGED searchVars
  BY <1>3, OutsideInv
<1> QED BY <1>1, <1>2, <1>3 DEF SearchNext

\* The inductive invariant holds in every state of a search run.
THEOREM SearchRunsInvariance == SearchSpec => []RunInv
BY RunInvInit, RunInvNext, PTL DEF SearchSpec

\* Every variable of a search run keeps its type, whatever the site's size.
THEOREM SearchTypeCorrect == SearchSpec => []SearchTypeOK
<1>1. RunInv => SearchTypeOK
  BY DEF RunInv
<1> QED BY <1>1, SearchRunsInvariance, PTL

\* For any site and any number of concurrent legs, refusals, failures and
\* crashes, the checkpoint has behind it only listings that are persisted.
THEOREM CheckpointStaysBehind == SearchSpec => []CheckpointBehindItems
<1>1. RunInv => CheckpointBehindItems
  BY DEF RunInv, RowOK, CheckpointBehindItems, Behind, Sound, IsPast
<1> QED BY <1>1, SearchRunsInvariance, PTL

\* For any site, a completed run has every listing of every readable target.
THEOREM CompletionCovers == SearchSpec => []CompletedCoversSite
<1>1. RunInv => CompletedCoversSite
  <2> SUFFICES ASSUME SiteServed(items, blind)
               PROVE  Behind(HeadOf(Len(Site) + 1)) \subseteq items
    BY DEF RunInv, RowOK, CompletedCoversSite
  <2> QED BY DEF SiteServed, TargetServed, Behind
<1> QED BY <1>1, SearchRunsInvariance, PTL
=============================================================================
