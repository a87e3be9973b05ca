--------------------------- MODULE ExtractionJobs ---------------------------
(***************************************************************************)
(* The durable extraction queue of telegram_bot/extraction_jobs.py: the    *)
(* SQLite table "jobs" behind class ExtractionJobs.  Each operator below   *)
(* is one method, that is one SQLite transaction.  A job's id is its       *)
(* position in the table.                                                  *)
(*                                                                         *)
(* The column "updated" is compared only with now-300 (a running job) and  *)
(* now-60 (a failed one).  The model keeps the age now-updated instead, in *)
(* coarse units, while the state is one of those two, and stops counting   *)
(* once every comparison has come true.                                    *)
(***************************************************************************)
EXTENDS Customers

CONSTANTS
    RequestKeys,  \* values of request_key
    NoKey,        \* request_key=None
    Lease,        \* 300 s: a running job older than this may be taken again
    Cooldown,     \* 60 s: a failed job older than this may be queued again
    MaxJobs,      \* bound on the rows of the table
    MaxDay        \* bound on the UTC dates a behaviour spans

ASSUME JobsAssumption ==
    /\ Lease \in Nat /\ Cooldown \in Nat /\ Cooldown <= Lease
    /\ NoKey \in RequestKeys
    /\ MaxJobs \in Nat /\ MaxDay \in Nat \ {0}

VARIABLES
    jobs,         \* the table, in id order
    day           \* datetime.utcnow().date()

JobStates == {"queued", "running", "ready", "empty", "failed", "cancelled"}

\* A job whose customer has a result: enqueue() leaves these rows alone.
Answered == {"ready", "empty"}

Request == [lead: Leads, crit: Criteria, key: RequestKeys]

Job == [lead: Leads, crit: Criteria, key: RequestKeys, day: 1..MaxDay,
        state: JobStates, age: 0..(Lease + 1)]

JobsTypeOK ==
    /\ jobs \in Seq(Job)
    /\ Len(jobs) <= MaxJobs
    /\ day \in 1..MaxDay

JobsInit == jobs = << >> /\ day = 1

\* The sha256 of lead, date, criteria and request key.
DedupKey(j) == <<j.lead, j.day, j.crit, j.key>>

SameRequest(r) ==
    {i \in DOMAIN jobs : DedupKey(jobs[i]) = <<r.lead, day, r.crit, r.key>>}

NewJob(r) == [lead |-> r.lead, crit |-> r.crit, key |-> r.key, day |-> day,
              state |-> "queued", age |-> 0]

\* SET state=s, updated=<now>.  (The UPDATE of a stale job in claim() keeps its
\* "updated", which nothing reads of a queued row.)
Marked(j, s) == [lead |-> j.lead, crit |-> j.crit, key |-> j.key, day |-> j.day,
                 state |-> s, age |-> 0]

\* Mutant: a new submission restarts the job whatever its state.
RequeuedAlways(j) == Marked(j, "queued")

\* The two UPDATEs of enqueue(): failed rows past the cooldown, cancelled rows.
Requeued(j) ==
    IF j.state = "cancelled" \/ (j.state = "failed" /\ j.age > Cooldown)
    THEN Marked(j, "queued")
    ELSE j

\* The id enqueue() returns.
EnqueuedId(r) ==
    IF SameRequest(r) = {} THEN Len(jobs) + 1 ELSE CHOOSE i \in SameRequest(r) : TRUE

Enqueue(r) ==
    \/ /\ SameRequest(r) = {}
       /\ Len(jobs) < MaxJobs
       /\ jobs' = Append(jobs, NewJob(r))
    \/ /\ SameRequest(r) # {}
       /\ jobs' = [i \in 1..Len(jobs) |->
                     IF i \in SameRequest(r) THEN Requeued(jobs[i]) ELSE jobs[i]]

\* Mutant: claim() does not take back running jobs.
NeverStale(j) == FALSE

Stale(j) == j.state = "running" /\ j.age > Lease

Reclaimed(j) == IF Stale(j) THEN Marked(j, "queued") ELSE j

Claimable(i) == Reclaimed(jobs[i]).state = "queued"

\* claim(): requeue every stale job, then take the queued one of lowest id.
Claim(i) ==
    /\ i \in DOMAIN jobs
    /\ Claimable(i)
    /\ \A n \in 1..(i - 1) : ~Claimable(n)
    /\ jobs' = [n \in 1..Len(jobs) |->
                  IF n = i THEN Marked(jobs[i], "running") ELSE Reclaimed(jobs[n])]

\* finish(): an UPDATE with no condition on the state it overwrites.
Finish(i, s) == jobs' = [jobs EXCEPT ![i] = Marked(jobs[i], s)]

\* "updated" is read of running and of failed jobs only.
Aging(j) == \/ j.state = "running" /\ j.age <= Lease
            \/ j.state = "failed" /\ j.age <= Cooldown

Older(j) == IF Aging(j) THEN [j EXCEPT !.age = @ + 1] ELSE j

\* Time passes for every row.
JobsElapse == jobs' = [i \in 1..Len(jobs) |-> Older(jobs[i])]

\* Midnight UTC.
NewDay == day < MaxDay /\ day' = day + 1
=============================================================================
