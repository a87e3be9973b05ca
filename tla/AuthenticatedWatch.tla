------------------------- MODULE AuthenticatedWatch -------------------------
(***************************************************************************)
(* The authenticated watch (crawler/authenticated_watch.py): one process   *)
(* that, cycle after cycle, starts a head run for each deal, goes on with  *)
(* the oldest head run left unfinished, and goes on with the backfill of   *)
(* seven days.  What it owes is in a state file; the runs are rows of the  *)
(* database, and a leg of a run ends in one of four ways.  The filters of  *)
(* a run are those of the policy that the process read when it started;    *)
(* one started with another policy goes on with none of the former's runs. *)
(***************************************************************************)
EXTENDS Integers, Sequences, SequencesExt

CONSTANTS
    Deals,         \* the deals in their order, a sequence
    Policies,      \* what the policy file, or another one, may say
    Day,           \* 86400 seconds in the code
    Pause,         \* at least 300 seconds in the code
    MaxWatchTime, MaxRows  \* bounds

DealSet == {Deals[k] : k \in 1..Len(Deals)}

ASSUME WatchAssumption ==
    Deals \in Seq(DealSet) /\ Deals # <<>> /\ {Day, Pause, MaxWatchTime, MaxRows} \subseteq Nat

VARIABLES
    rows,   \* SearchRun rows of the watch, by id
    disk,   \* the state file
    mem,    \* the state in the process
    task,   \* which task of the cycle is at work, 0 between cycles
    phase,  \* how far that task is
    chosen, \* its run, 0 for none
    wtime,
    policy, \* the policy of the process
    since   \* history: the runs there were when the policy last changed

watchVars == <<rows, disk, mem, task, phase, chosen, wtime, policy, since>>
policyVars == <<policy, since>>

Ids == 1..MaxRows
RunKinds == {"head", "backfill"}
\* A refusal stands for every failure: none is told from it.
LegEnds == {"completed", "time", "refused", "limited"}

State == [head: [DealSet -> Ids \cup {0}], backfill: [DealSet -> Ids \cup {0}],
          queue: [DealSet -> Seq(Ids)], retry: Nat]

\* The tasks of a cycle: both heads, both backlogs, both backfills.
CycleTasks ==
    [k \in 1..Len(Deals) |-> <<"head", Deals[k]>>]
      \o [k \in 1..Len(Deals) |-> <<"head_backlog", Deals[k]>>]
      \o [k \in 1..Len(Deals) |-> <<"backfill", Deals[k]>>]
Kind == CycleTasks[task][1]
Deal == CycleTasks[task][2]

WatchTypeOK ==
    /\ rows \in Seq([deal: DealSet, kind: RunKinds, policy: Policies, ref: Nat,
                     resumable: BOOLEAN,
                     status: {"pending", "begun", "completed"}])
    /\ disk \in State /\ mem \in State
    /\ task \in 0..Len(CycleTasks) /\ phase \in {"choose", "created", "begin", "leg"}
    /\ chosen \in Ids \cup {0} /\ wtime \in 0..MaxWatchTime
    /\ policy \in Policies /\ since \in 0..Len(rows)

WatchInit ==
    /\ rows = <<>>
    /\ disk = [head |-> [d \in DealSet |-> 0], backfill |-> [d \in DealSet |-> 0],
               queue |-> [d \in DealSet |-> <<>>], retry |-> 0]
    /\ mem = disk
    /\ task = 0 /\ phase = "choose" /\ chosen = 0 /\ wtime = 0
    /\ policy \in Policies /\ since = 0

\* Mutant: runs of another policy are taken for its own.
AnyPolicy(r) == TRUE

\* _matches_policy: the run's filters are those of the process.
Matches(r) == rows[r].policy = policy

Old(r) == wtime - rows[r].ref >= Day

-----------------------------------------------------------------------------
\* cycle: not before the pause after a 429 is over.
CycleStart ==
    /\ task = 0 /\ wtime >= mem.retry
    /\ mem' = [mem EXCEPT !.retry = 0] /\ disk' = mem'
    /\ task' = 1 /\ phase' = "choose" /\ chosen' = 0
    /\ UNCHANGED <<rows, wtime, policyVars>>

\* The next task, or the end of the cycle, which saves the state.
NextTask ==
    /\ task' = (task + 1) % (Len(CycleTasks) + 1)
    /\ phase' = "choose" /\ chosen' = 0

\* create_run
NewRow(kind) ==
    /\ Len(rows) < MaxRows
    /\ rows' = Append(rows, [deal |-> Deal, kind |-> kind, policy |-> policy,
                             ref |-> wtime, resumable |-> TRUE, status |-> "pending"])
    /\ chosen' = Len(rows) + 1
    /\ phase' = "created"

\* Mutant: the former head is taken for finished.
NeverRemembered(r) == mem.queue[Deal]

\* Mutant: neither a missing nor a finished head is told apart.
RememberedBlindly(r) ==
    IF r \notin ToSet(mem.queue[Deal]) THEN Append(mem.queue[Deal], r) ELSE mem.queue[Deal]

\* _remember_head: a head of the same policy left unfinished joins the queue.
Remembered(r) ==
    IF r # 0 /\ Matches(r) /\ rows[r].resumable /\ r \notin ToSet(mem.queue[Deal])
    THEN Append(mem.queue[Deal], r) ELSE mem.queue[Deal]

ChooseHead ==
    /\ task # 0 /\ phase = "choose" /\ Kind = "head"
    /\ mem' = [mem EXCEPT !.queue[Deal] = Remembered(mem.head[Deal])]
    /\ NewRow("head")
    /\ UNCHANGED <<disk, task, wtime, policyVars>>

\* _next_pending_head: finished and expired heads, and those of another policy,
\* leave the queue's front.
Pruned(queue) ==
    LET live == {k \in 1..Len(queue) :
                   Matches(queue[k]) /\ rows[queue[k]].resumable /\ ~Old(queue[k])}
    IN IF live = {} THEN <<>>
       ELSE SubSeq(queue, CHOOSE k \in live : \A l \in live : k <= l, Len(queue))

ChooseBacklog ==
    /\ task # 0 /\ phase = "choose" /\ Kind = "head_backlog"
    /\ mem' = [mem EXCEPT !.queue[Deal] = Pruned(@)]
    /\ IF mem'.queue[Deal] = <<>>
       THEN /\ disk' = mem' /\ NextTask
       ELSE /\ chosen' = Head(mem'.queue[Deal]) /\ phase' = "begin"
            /\ UNCHANGED <<disk, task>>
    /\ UNCHANGED <<rows, wtime, policyVars>>

\* Mutant: every cycle begins a backfill of its own.
BackfillAnew(r) == TRUE

\* A backfill is repeated when the finished one is a day old, and begun anew
\* under another policy.
BackfillDue(r) ==
    IF r = 0 THEN TRUE ELSE ~Matches(r) \/ (~rows[r].resumable /\ Old(r))

ChooseBackfill ==
    /\ task # 0 /\ phase = "choose" /\ Kind = "backfill"
    /\ LET r == mem.backfill[Deal] IN
       IF BackfillDue(r) THEN NewRow("backfill") /\ UNCHANGED task
       ELSE IF rows[r].resumable
       THEN chosen' = r /\ phase' = "begin" /\ UNCHANGED <<rows, task>>
       ELSE NextTask /\ UNCHANGED rows
    /\ UNCHANGED <<disk, mem, wtime, policyVars>>

\* The new run is entered in the state file.
SaveChosen ==
    /\ task # 0 /\ phase = "created"
    /\ mem' = IF Kind = "head" THEN [mem EXCEPT !.head[Deal] = chosen]
              ELSE [mem EXCEPT !.backfill[Deal] = chosen]
    /\ disk' = mem' /\ phase' = "begin"
    /\ UNCHANGED <<rows, task, chosen, wtime, policyVars>>

\* The leg begins; a run that a dead process left running is recovered first.
\* A run begun is running, interrupted or failed, which nothing here tells apart.
LegBegins ==
    /\ task # 0 /\ phase = "begin"
    /\ rows' = [rows EXCEPT ![chosen].status = "begun"]
    /\ phase' = "leg"
    /\ UNCHANGED <<disk, mem, task, chosen, wtime, policyVars>>

Ended(end) ==
    [rows EXCEPT ![chosen].status = IF end = "completed" THEN "completed" ELSE "begun",
                 ![chosen].resumable = (end # "completed")]

\* A completed head of the backlog leaves the queue.
Dequeued(end) ==
    IF Kind = "head_backlog" /\ end = "completed"
    THEN [mem EXCEPT !.queue[Deal] = RemoveFirst(@, chosen)] ELSE mem

\* The leg is completed or its time is over: the cycle goes on.
LegEndsWell(end) ==
    /\ task # 0 /\ phase = "leg" /\ end \in {"completed", "time"}
    /\ rows' = Ended(end)
    /\ mem' = Dequeued(end) /\ disk' = mem'
    /\ NextTask
    /\ UNCHANGED <<wtime, policyVars>>

\* The source refused or limited the rate, or the leg failed: the cycle is over.
LegEndsBadly(end) ==
    /\ task # 0 /\ phase = "leg" /\ end \in {"refused", "limited"}
    /\ rows' = Ended(end)
    /\ mem' = [mem EXCEPT !.retry = IF end = "limited" THEN wtime + Pause ELSE @]
    /\ disk' = mem'
    /\ task' = 0 /\ phase' = "choose" /\ chosen' = 0
    /\ UNCHANGED <<wtime, policyVars>>

\* The process dies and is started again with the state file, and with the
\* policy that it now reads.
WatchRestart ==
    /\ policy' \in Policies
    /\ since' = IF policy' = policy THEN since ELSE Len(rows)
    /\ mem' = disk /\ task' = 0 /\ phase' = "choose" /\ chosen' = 0
    /\ UNCHANGED <<rows, disk, wtime>>

WatchTick ==
    /\ wtime < MaxWatchTime /\ wtime' = wtime + 1
    /\ UNCHANGED <<rows, disk, mem, task, phase, chosen, policyVars>>

WatchNext ==
    \/ CycleStart \/ ChooseHead \/ ChooseBacklog \/ ChooseBackfill
    \/ SaveChosen \/ LegBegins
    \/ \E end \in LegEnds : LegEndsWell(end) \/ LegEndsBadly(end)
    \/ WatchRestart \/ WatchTick

WatchSpec == WatchInit /\ [][WatchNext]_watchVars

-----------------------------------------------------------------------------
(***************************************************************************)
(* A head run that has begun under the policy in force, and is unfinished  *)
(* and younger than a day, is in the state file, as the head of its deal   *)
(* or in its queue, wherever the process is and though it may die now: no  *)
(* cycle and no restart forgets it until the policy changes.               *)
(***************************************************************************)
NoHeadForgotten ==
    \A r \in since + 1..Len(rows) :
        rows[r].kind = "head" /\ rows[r].status # "pending" /\ rows[r].resumable /\ ~Old(r)
          => r = disk.head[rows[r].deal] \/ r \in ToSet(disk.queue[rows[r].deal])

(***************************************************************************)
(* While the policy stays the same, the backfills of a deal are worked on  *)
(* one after the other: a later one begins only when the earlier one has   *)
(* reached the end of the source.                                          *)
(***************************************************************************)
BackfillsInTurn ==
    \A r, s \in since + 1..Len(rows) :
        /\ r < s /\ rows[r].deal = rows[s].deal
        /\ rows[r].kind = "backfill" /\ rows[s].kind = "backfill"
        /\ rows[r].status # "pending" /\ rows[s].status # "pending"
        => rows[r].status = "completed"

(***************************************************************************)
(* The watch works only on runs with the filters of its own policy: a      *)
(* checkpoint with other filters is not reused                             *)
(* (tests/test_owner_search_policy.py:45), whatever the state file of the  *)
(* former process says.                                                    *)
(***************************************************************************)
OwnFiltersOnly == phase \in {"begin", "leg"} => rows[chosen].policy = policy
=============================================================================
