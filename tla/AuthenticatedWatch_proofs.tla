----------------------- MODULE AuthenticatedWatch_proofs -----------------------
(***************************************************************************)
(* While its policy stays the same the watch forgets no head and works on  *)
(* one backfill at a time, and it never works on a run of another policy,  *)
(* for any deals, policies, number of runs and deaths of the process.      *)
(***************************************************************************)
EXTENDS AuthenticatedWatch, SequenceTheorems, WellFoundedInduction, TLAPS

-----------------------------------------------------------------------------
(***************************************************************************)
(* The invariant.  The promises are about the state file; the process      *)
(* works on its own copy, which is the next state file, so each is kept of *)
(* both.  What ties a copy to the rows depends on how far the task is.     *)
(***************************************************************************)

\* What a state may refer to: runs of the right deal and kind.
RefersWell(st) ==
    \A d \in DealSet :
        /\ st.head[d] # 0 =>
             st.head[d] \in 1..Len(rows) /\ rows[st.head[d]].deal = d /\ rows[st.head[d]].kind = "head"
        /\ st.backfill[d] # 0 =>
             /\ st.backfill[d] \in 1..Len(rows) /\ rows[st.backfill[d]].deal = d
             /\ rows[st.backfill[d]].kind = "backfill"
        /\ \A r \in ToSet(st.queue[d]) :
             r \in 1..Len(rows) /\ rows[r].deal = d /\ rows[r].kind = "head"

\* What NoHeadForgotten says, of either state.
Remembers(st) ==
    \A r \in 1..Len(rows) :
        r > since /\ rows[r].kind = "head" /\ rows[r].status # "pending" /\ rows[r].resumable /\ ~Old(r)
          => r = st.head[rows[r].deal] \/ r \in ToSet(st.queue[rows[r].deal])

\* The backfill a state refers to is the last that began under the policy, and
\* the only one of them that may be unfinished.
BackfillIsLast(st) ==
    \A r \in 1..Len(rows) :
        r > since /\ rows[r].kind = "backfill" /\ rows[r].status # "pending"
          => /\ r <= st.backfill[rows[r].deal]
             /\ rows[r].status = "completed" \/ r = st.backfill[rows[r].deal]

Promises(st) == RefersWell(st) /\ Remembers(st) /\ BackfillIsLast(st)

\* The runs created since the policy changed have its filters.
PolicySince == \A r \in 1..Len(rows) : r > since => rows[r].policy = policy

ResumableUnlessCompleted ==
    \A r \in 1..Len(rows) : rows[r].resumable <=> rows[r].status # "completed"

\* While a task chooses its run, what the process knows is saved.
SavedWhileChoosing == phase = "choose" => mem = disk

\* A run just created is the last row; the deal's former run is accounted for.
CreatedRun ==
    phase = "created" =>
        /\ task # 0 /\ Kind \in RunKinds /\ chosen = Len(rows) /\ chosen # 0
        /\ rows[chosen].deal = Deal /\ rows[chosen].kind = Kind
        /\ rows[chosen].status = "pending" /\ rows[chosen].policy = policy
        /\ Kind = "head" /\ mem.head[Deal] > since /\ rows[mem.head[Deal]].resumable
             => mem.head[Deal] \in ToSet(mem.queue[Deal])
        /\ Kind = "backfill" /\ mem.backfill[Deal] > since
             => rows[mem.backfill[Deal]].status = "completed"

\* A run about to begin or under way is unfinished, and both states refer to it.
EnteredIn(st) ==
    /\ Kind = "head" => rows[chosen].kind = "head" /\ st.head[Deal] = chosen
    /\ Kind = "head_backlog" => rows[chosen].kind = "head" /\ chosen \in ToSet(st.queue[Deal])
    /\ Kind = "backfill" => rows[chosen].kind = "backfill" /\ st.backfill[Deal] = chosen

RunInHand ==
    phase \in {"begin", "leg"} =>
        /\ task # 0 /\ chosen \in 1..Len(rows)
        /\ rows[chosen].deal = Deal /\ rows[chosen].resumable /\ rows[chosen].policy = policy
        /\ EnteredIn(disk) /\ EnteredIn(mem)

WatchInv ==
    /\ WatchTypeOK /\ Promises(disk) /\ Promises(mem)
    /\ PolicySince /\ ResumableUnlessCompleted /\ SavedWhileChoosing /\ CreatedRun /\ RunInHand

-----------------------------------------------------------------------------
(***************************************************************************)
(* Sequences.                                                              *)
(***************************************************************************)

\* A set of positions has a first one.
LEMMA FirstPosition ==
    ASSUME NEW I \in SUBSET Nat, I # {}
    PROVE  \E k \in I : \A l \in I : k <= l
<1>1. \E k \in I : \A l \in I : ~ (<<l, k>> \in OpToRel(<, Nat))
  BY NatLessThanWellFounded, WFMin, Zenon
<1>2. PICK k \in I : \A l \in I : ~ (<<l, k>> \in OpToRel(<, Nat))
  BY <1>1
<1>3. ASSUME NEW l \in I  PROVE k <= l
  <2>1. k \in Nat /\ l \in Nat
    OBVIOUS
  <2>2. ~ (l < k)
    BY <1>2, <2>1 DEF OpToRel
  <2> QED BY <2>1, <2>2
<1> QED BY <1>3

\* list.remove takes out one occurrence of its element and nothing else.
LEMMA FirstRemoved ==
    ASSUME NEW S, NEW s \in Seq(S), NEW e
    PROVE  /\ RemoveFirst(s, e) \in Seq(S)
           /\ ToSet(RemoveFirst(s, e)) \subseteq ToSet(s)
           /\ \A x \in ToSet(s) : x = e \/ x \in ToSet(RemoveFirst(s, e))
<1>1. CASE ~ \E i \in 1..Len(s) : s[i] = e
  BY <1>1, Zenon DEF RemoveFirst
<1>2. CASE \E i \in 1..Len(s) : s[i] = e
  <2> DEFINE I == {i \in 1..Len(s) : s[i] = e}
             k == Min(I)
             a == SubSeq(s, 1, k - 1)
             b == SubSeq(s, k + 1, Len(s))
  <2>1. Len(s) \in Nat /\ \A i \in 1..Len(s) : s[i] \in S
    BY LenProperties, ElementOfSeq
  <2>2. I \in SUBSET Nat /\ I # {} /\ I \subseteq 1..Len(s)
    BY <1>2, <2>1
  <2>3. k \in I
    BY <2>2, FirstPosition, Zenon DEF Min
  <2>4. k \in 1..Len(s) /\ s[k] = e
    BY <2>3
  <2>5. RemoveFirst(s, e) = a \o b
    BY <1>2, <2>2, Zenon DEF RemoveFirst, RemoveAt, SelectInSeq
  <2> HIDE DEF I, k
  <2>6. /\ a \in Seq(S) /\ Len(a) = k - 1
        /\ \A i \in 1..k - 1 : a[i] = s[i]
    BY <2>1, <2>4, SubSeqProperties
  <2>7. /\ b \in Seq(S) /\ Len(b) = Len(s) - k
        /\ \A i \in 1..Len(s) - k : b[i] = s[k + i]
    BY <2>1, <2>4, SubSeqProperties
  <2> HIDE DEF a, b
  <2> DEFINE c == a \o b
  <2>8. /\ c \in Seq(S) /\ Len(c) = Len(a) + Len(b)
        /\ \A i \in 1..Len(a) + Len(b) : c[i] = IF i <= Len(a) THEN a[i] ELSE b[i - Len(a)]
    BY <2>6, <2>7, ConcatProperties, Zenon
  <2>9. Len(c) = Len(s) - 1 /\ DOMAIN c = 1..Len(s) - 1 /\ DOMAIN s = 1..Len(s)
    BY <2>1, <2>4, <2>6, <2>7, <2>8, LenProperties
  <2> HIDE DEF c
  <2>10. ASSUME NEW i \in 1..Len(s) - 1  PROVE c[i] = IF i < k THEN s[i] ELSE s[i + 1]
    <3>1. i \in Int /\ i >= 1 /\ i <= Len(s) - 1 /\ k \in Int
      BY <2>1, <2>4
    <3>2. CASE i < k
      <4>1. i <= Len(a) /\ i \in 1..k - 1
        BY <2>6, <3>1, <3>2
      <4>2. i \in 1..Len(a) + Len(b)
        BY <2>1, <2>4, <2>6, <2>7, <3>1
      <4>3. c[i] = a[i] /\ a[i] = s[i]
        BY <2>6, <2>8, <4>1, <4>2
      <4> QED BY <3>2, <4>3
    <3>3. CASE i >= k
      <4>1. i - (k - 1) \in 1..Len(s) - k /\ k + (i - (k - 1)) = i + 1
        BY <2>1, <2>4, <3>1, <3>3
      <4>2. c[i] = b[i - (k - 1)]
        <5>1. i \in 1..Len(a) + Len(b) /\ ~ (i <= Len(a)) /\ i - Len(a) = i - (k - 1)
          BY <2>1, <2>4, <2>6, <2>7, <3>1, <3>3
        <5>2. c[i] = b[i - Len(a)]
          BY <2>8, <5>1
        <5> QED BY <5>1, <5>2
      <4>3. b[i - (k - 1)] = s[k + (i - (k - 1))]
        BY <2>7, <4>1
      <4> QED BY <3>1, <3>3, <4>1, <4>2, <4>3
    <3> QED BY <3>1, <3>2, <3>3
  <2>11. ASSUME NEW x \in ToSet(c)  PROVE x \in ToSet(s)
    <3>1. PICK i \in 1..Len(s) - 1 : x = c[i]
      BY <2>9 DEF ToSet
    <3>2. PICK l \in 1..Len(s) : x = s[l]
      <4>1. i \in 1..Len(s) /\ i + 1 \in 1..Len(s)
        BY <2>1
      <4> QED BY <2>10, <3>1, <4>1
    <3> QED BY <2>9, <3>2 DEF ToSet
  <2>12. ASSUME NEW x \in ToSet(s), x # e  PROVE x \in ToSet(c)
    <3>1. PICK i \in 1..Len(s) : x = s[i]
      BY <2>9 DEF ToSet
    <3>2. PICK l \in 1..Len(s) - 1 : c[l] = s[i]
      <4>1. i \in Int /\ k \in Int /\ i # k
        BY <2>1, <2>4, <2>12, <3>1
      <4>2. CASE i < k
        <5>1. i \in 1..Len(s) - 1 /\ c[i] = s[i]
          BY <2>1, <2>4, <2>10, <4>1, <4>2
        <5> QED BY <5>1
      <4>3. CASE i > k
        <5>1. i - 1 \in 1..Len(s) - 1 /\ ~ (i - 1 < k) /\ (i - 1) + 1 = i
          BY <2>1, <2>4, <4>1, <4>3
        <5>2. c[i - 1] = s[(i - 1) + 1]
          BY <2>10, <5>1
        <5> QED BY <5>1, <5>2
      <4> QED BY <4>1, <4>2, <4>3
    <3> QED BY <2>9, <3>1, <3>2 DEF ToSet
  <2> QED BY <2>5, <2>8, <2>11, <2>12 DEF c
<1> QED BY <1>1, <1>2

\* What an appended element adds.
LEMMA AppendAdds ==
    ASSUME NEW S, NEW s \in Seq(S), NEW e \in S
    PROVE  ToSet(Append(s, e)) = ToSet(s) \cup {e}
<1>1. /\ Append(s, e) \in Seq(S) /\ Len(Append(s, e)) = Len(s) + 1 /\ Len(s) \in Nat
      /\ \A i \in 1..Len(s) : Append(s, e)[i] = s[i]
      /\ Append(s, e)[Len(s) + 1] = e
  BY AppendProperties, LenProperties
<1>2. DOMAIN s = 1..Len(s) /\ DOMAIN Append(s, e) = 1..Len(s) + 1
  BY <1>1, LenProperties
<1>3. ASSUME NEW x \in ToSet(s)  PROVE x \in ToSet(Append(s, e))
  <2>1. PICK i \in 1..Len(s) : x = s[i]
    BY <1>2 DEF ToSet
  <2> QED BY <1>1, <1>2, <2>1 DEF ToSet
<1>4. e \in ToSet(Append(s, e))
  BY <1>1, <1>2 DEF ToSet
<1>5. ASSUME NEW x \in ToSet(Append(s, e))  PROVE x \in ToSet(s) \cup {e}
  <2>1. PICK i \in 1..Len(s) + 1 : x = Append(s, e)[i]
    BY <1>2 DEF ToSet
  <2>2. CASE i \in 1..Len(s)
    BY <1>1, <1>2, <2>1, <2>2 DEF ToSet
  <2>3. CASE i = Len(s) + 1
    BY <1>1, <2>1, <2>3
  <2> QED BY <1>1, <2>2, <2>3
<1> QED BY <1>3, <1>4, <1>5

-----------------------------------------------------------------------------
(***************************************************************************)
(* The operators of the watch.                                             *)
(***************************************************************************)

\* A cycle goes through tasks, each of a kind and about a deal.
LEMMA TasksAreTyped ==
    /\ CycleTasks \in Seq({"head", "head_backlog", "backfill"} \X DealSet)
    /\ Len(CycleTasks) \in Nat \ {0}
    /\ \A t \in 1..Len(CycleTasks) :
          /\ CycleTasks[t][1] \in {"head", "head_backlog", "backfill"}
          /\ CycleTasks[t][2] \in DealSet
<1> DEFINE Tasks == {"head", "head_backlog", "backfill"} \X DealSet
<1>1. Len(Deals) \in Nat \ {0} /\ \A k \in 1..Len(Deals) : Deals[k] \in DealSet
  BY WatchAssumption, LenProperties, EmptySeq DEF DealSet
<1>2. ASSUME NEW kind \in {"head", "head_backlog", "backfill"}
      PROVE  [k \in 1..Len(Deals) |-> <<kind, Deals[k]>>] \in Seq(Tasks)
  BY <1>1
<1>3. CycleTasks \in Seq(Tasks) /\ Len(CycleTasks) = 3 * Len(Deals)
  BY <1>1, <1>2, ConcatProperties DEF CycleTasks
<1>4. \A t \in 1..Len(CycleTasks) : CycleTasks[t] \in Tasks
  BY <1>3, ElementOfSeq
<1>5. Len(CycleTasks) \in Nat \ {0}
  BY <1>1, <1>3
<1> QED BY <1>3, <1>4, <1>5

\* A change of one queue changes nothing else of a state.
LEMMA QueueChange ==
    ASSUME NEW st \in State, NEW d \in DealSet, NEW q \in Seq(Ids)
    PROVE  /\ [st EXCEPT !.queue[d] = q] \in State
           /\ [st EXCEPT !.queue[d] = q].head = st.head
           /\ [st EXCEPT !.queue[d] = q].backfill = st.backfill
           /\ [st EXCEPT !.queue[d] = q].queue = [st.queue EXCEPT ![d] = q]
BY DEF State

\* The same for the head run of a deal.
LEMMA HeadChange ==
    ASSUME NEW st \in State, NEW d \in DealSet, NEW r \in Ids
    PROVE  /\ [st EXCEPT !.head[d] = r] \in State
           /\ [st EXCEPT !.head[d] = r].queue = st.queue
           /\ [st EXCEPT !.head[d] = r].backfill = st.backfill
           /\ [st EXCEPT !.head[d] = r].head = [st.head EXCEPT ![d] = r]
BY DEF State

\* The same for its backfill.
LEMMA BackfillChange ==
    ASSUME NEW st \in State, NEW d \in DealSet, NEW r \in Ids
    PROVE  /\ [st EXCEPT !.backfill[d] = r] \in State
           /\ [st EXCEPT !.backfill[d] = r].queue = st.queue
           /\ [st EXCEPT !.backfill[d] = r].head = st.head
           /\ [st EXCEPT !.backfill[d] = r].backfill = [st.backfill EXCEPT ![d] = r]
BY DEF State

\* The pause after a 429 changes nothing else of a state.
LEMMA RetryChange ==
    ASSUME NEW st \in State, NEW t \in Nat
    PROVE  /\ [st EXCEPT !.retry = t] \in State
           /\ [st EXCEPT !.retry = t].head = st.head
           /\ [st EXCEPT !.retry = t].backfill = st.backfill
           /\ [st EXCEPT !.retry = t].queue = st.queue
BY DEF State

\* _remember_head keeps the queue and adds at most the head.
LEMMA RememberedKeeps ==
    ASSUME mem \in State, Deal \in DealSet, NEW r \in Ids \cup {0}
    PROVE  /\ Remembered(r) \in Seq(Ids)
           /\ ToSet(mem.queue[Deal]) \subseteq ToSet(Remembered(r))
           /\ ToSet(Remembered(r)) \subseteq ToSet(mem.queue[Deal]) \cup {r}
           /\ r # 0 /\ Matches(r) /\ rows[r].resumable => r \in ToSet(Remembered(r))
           /\ r = 0 => Remembered(r) = mem.queue[Deal]
<1>1. mem.queue[Deal] \in Seq(Ids)
  BY DEF State
<1>2. r # 0 => /\ Append(mem.queue[Deal], r) \in Seq(Ids)
               /\ ToSet(Append(mem.queue[Deal], r)) = ToSet(mem.queue[Deal]) \cup {r}
  BY <1>1, AppendAdds, AppendProperties
<1> QED BY <1>1, <1>2, Zenon DEF Remembered

\* _next_pending_head drops only runs that are finished, expired or of another
\* policy, and stops at one that is none of these.
LEMMA PrunedKeeps ==
    ASSUME NEW queue \in Seq(Ids)
    PROVE  /\ Pruned(queue) \in Seq(Ids)
           /\ ToSet(Pruned(queue)) \subseteq ToSet(queue)
           /\ \A r \in ToSet(queue) :
                 Matches(r) /\ rows[r].resumable /\ ~Old(r) => r \in ToSet(Pruned(queue))
           /\ Pruned(queue) # <<>> => /\ Head(Pruned(queue)) \in ToSet(Pruned(queue))
                                      /\ rows[Head(Pruned(queue))].resumable
                                      /\ Matches(Head(Pruned(queue)))
<1> DEFINE live == {k \in 1..Len(queue) :
                      Matches(queue[k]) /\ rows[queue[k]].resumable /\ ~Old(queue[k])}
           first == CHOOSE k \in live : \A l \in live : k <= l
           rest == SubSeq(queue, first, Len(queue))
<1>1. /\ Len(queue) \in Nat /\ DOMAIN queue = 1..Len(queue)
      /\ \A k \in 1..Len(queue) : queue[k] \in Ids
  BY LenProperties, ElementOfSeq
<1>2. Pruned(queue) = IF live = {} THEN <<>> ELSE rest
  BY Zenon DEF Pruned
<1>3. CASE live = {}
  <2>1. Pruned(queue) = <<>> /\ ToSet(<<>>) = {} /\ <<>> \in Seq(Ids)
    BY <1>2, <1>3 DEF ToSet
  <2>2. ASSUME NEW r \in ToSet(queue), Matches(r), rows[r].resumable, ~Old(r)  PROVE FALSE
    <3>1. PICK k \in 1..Len(queue) : r = queue[k]
      BY <1>1 DEF ToSet
    <3>2. k \in live
      BY <2>2, <3>1, Zenon
    <3> QED BY <1>3, <3>2
  <2> QED BY <2>1, <2>2
<1>4. CASE live # {}
  <2>1. live \in SUBSET Nat
    BY <1>1
  <2>2. first \in live /\ \A l \in live : first <= l
    BY <1>4, <2>1, FirstPosition, Zenon
  <2>3. first \in 1..Len(queue) /\ rows[queue[first]].resumable /\ Matches(queue[first])
    BY <2>2, Zenon
  <2> HIDE DEF first
  <2>4. /\ rest \in Seq(Ids) /\ Len(rest) = Len(queue) - first + 1
        /\ \A i \in 1..Len(queue) - first + 1 : rest[i] = queue[first + i - 1]
    BY <1>1, <2>3, SubSeqProperties
  <2> HIDE DEF rest
  <2>5. DOMAIN rest = 1..Len(queue) - first + 1
    BY <2>4, LenProperties
  <2>6. ASSUME NEW x \in ToSet(rest)  PROVE x \in ToSet(queue)
    <3>1. PICK i \in 1..Len(queue) - first + 1 : x = rest[i]
      BY <2>5 DEF ToSet
    <3>2. first + i - 1 \in 1..Len(queue) /\ x = queue[first + i - 1]
      BY <1>1, <2>3, <2>4, <3>1
    <3> QED BY <1>1, <3>2 DEF ToSet
  <2>7. ASSUME NEW r \in ToSet(queue), Matches(r), rows[r].resumable, ~Old(r)  PROVE r \in ToSet(rest)
    <3>1. PICK k \in 1..Len(queue) : r = queue[k]
      BY <1>1 DEF ToSet
    <3>2. first <= k
      <4>1. k \in live
        BY <2>7, <3>1, Zenon
      <4> QED BY <2>2, <4>1
    <3>3. k - first + 1 \in 1..Len(queue) - first + 1 /\ first + (k - first + 1) - 1 = k
      BY <1>1, <2>3, <3>2
    <3>4. rest[k - first + 1] = queue[k]
      BY <2>4, <3>3
    <3> QED BY <2>5, <3>1, <3>3, <3>4 DEF ToSet
  <2>8. Head(rest) = queue[first] /\ Head(rest) \in ToSet(rest)
    <3>1. 1 \in 1..Len(queue) - first + 1 /\ rest[1] = queue[first] /\ rest # <<>>
      BY <1>1, <2>3, <2>4
    <3>2. Head(rest) = rest[1]
      BY <2>4, <3>1, HeadTailProperties
    <3> QED BY <2>5, <3>1, <3>2 DEF ToSet
  <2> QED BY <1>2, <1>4, <2>3, <2>4, <2>6, <2>7, <2>8
<1> QED BY <1>3, <1>4

\* A completed head leaves the queue of its deal, and nothing else does.
LEMMA DequeuedKeeps ==
    ASSUME mem \in State, Deal \in DealSet, NEW end
    PROVE  /\ Dequeued(end) \in State
           /\ Dequeued(end).head = mem.head /\ Dequeued(end).backfill = mem.backfill
           /\ \A d \in DealSet :
                 /\ ToSet(Dequeued(end).queue[d]) \subseteq ToSet(mem.queue[d])
                 /\ \A r \in ToSet(mem.queue[d]) :
                       \/ r \in ToSet(Dequeued(end).queue[d])
                       \/ r = chosen /\ end = "completed"
<1>1. mem.queue \in [DealSet -> Seq(Ids)]
  BY DEF State
<1>2. CASE ~ (Kind = "head_backlog" /\ end = "completed")
  BY <1>2, Zenon DEF Dequeued
<1>3. CASE Kind = "head_backlog" /\ end = "completed"
  <2> DEFINE q == RemoveFirst(mem.queue[Deal], chosen)
             new == [mem EXCEPT !.queue[Deal] = q]
  <2>1. /\ q \in Seq(Ids) /\ ToSet(q) \subseteq ToSet(mem.queue[Deal])
        /\ \A x \in ToSet(mem.queue[Deal]) : x = chosen \/ x \in ToSet(q)
    BY <1>1, FirstRemoved
  <2> HIDE DEF q
  <2>2. /\ new \in State /\ new.head = mem.head /\ new.backfill = mem.backfill
        /\ new.queue = [mem.queue EXCEPT ![Deal] = q]
    BY <2>1, QueueChange, ZenonT(40)
  <2> HIDE DEF new
  <2>3. Dequeued(end) = new
    BY <1>3 DEF Dequeued, new, q
  <2> QED BY <1>1, <1>3, <2>1, <2>2, <2>3
<1> QED BY <1>2, <1>3

-----------------------------------------------------------------------------
(***************************************************************************)
(* What a step does to the rows, and what the promises need of it.         *)
(***************************************************************************)
Rows == [deal: DealSet, kind: RunKinds, policy: Policies, ref: Nat, resumable: BOOLEAN,
         status: {"pending", "begun", "completed"}]

\* A state has entered a run: it knows it as the head, in the queue or as the
\* backfill of its deal.
Entered(st, r) ==
    /\ rows[r].kind = "head" => r = st.head[rows[r].deal] \/ r \in ToSet(st.queue[rows[r].deal])
    /\ rows[r].kind = "backfill" => r = st.backfill[rows[r].deal]

\* Rows are only added, as pending ones, and only a run that was entered begins or
\* changes its outcome.
RowsFollow(st) ==
    /\ rows' \in Seq(Rows) /\ Len(rows') >= Len(rows)
    /\ \A r \in 1..Len(rows) :
          /\ rows'[r].deal = rows[r].deal /\ rows'[r].kind = rows[r].kind
          /\ rows'[r].ref = rows[r].ref /\ rows'[r].policy = rows[r].policy
    /\ \A r \in 1..Len(rows') :
          r > Len(rows) => rows'[r].policy = policy
    /\ \A r \in 1..Len(rows') :
          rows'[r].status # "pending" =>
            /\ r \in 1..Len(rows)
            /\ \/ rows'[r].status = rows[r].status /\ rows'[r].resumable = rows[r].resumable
               \/ Entered(st, r)

\* The promises survive when the state stays, but for heads that join the queue
\* and for runs that leave it finished, expired or of another policy.
LEMMA PromisesKept ==
    ASSUME WatchTypeOK, PolicySince, NEW st \in State, NEW new \in State,
           Promises(st), RowsFollow(st), since' \in Nat, since' >= since, wtime' \in Nat, wtime' >= wtime,
           new.head = st.head, new.backfill = st.backfill,
           \A d \in DealSet :
             /\ \A r \in ToSet(new.queue[d]) : r \in ToSet(st.queue[d]) \/ (r # 0 /\ r = st.head[d])
             /\ \A r \in ToSet(st.queue[d]) :
                  \/ r \in ToSet(new.queue[d])
                  \/ ~rows'[r].resumable
                  \/ Old(r)
                  \/ ~Matches(r)
    PROVE  Promises(new)'
<1> USE DEF Promises
<1>1. Len(rows) \in Nat /\ Len(rows') \in Nat /\ Len(rows) <= Len(rows') /\ wtime \in Nat /\ Day \in Nat
  BY LenProperties, WatchAssumption DEF WatchTypeOK, RowsFollow
<1>2. \A r \in 1..Len(rows) : rows[r] \in Rows
  BY ElementOfSeq DEF WatchTypeOK, Rows
<1>9. ASSUME NEW r \in 1..Len(rows'), r > since'  PROVE r > since
  BY <1>1, <1>9 DEF WatchTypeOK
<1>3. 1..Len(rows) \subseteq 1..Len(rows')
  BY <1>1
<1>4. \A r \in 1..Len(rows) : rows[r].deal \in DealSet /\ rows[r].ref \in Nat
  BY <1>2 DEF Rows
<1>5. RefersWell(new)'
  <2>1. ASSUME NEW d \in DealSet, NEW r, NEW kind,
               r \in 1..Len(rows) /\ rows[r].deal = d /\ rows[r].kind = kind
        PROVE  r \in 1..Len(rows') /\ rows'[r].deal = d /\ rows'[r].kind = kind
    BY <1>3, <2>1, Zenon DEF RowsFollow
  <2>2. ASSUME NEW d \in DealSet, NEW r \in ToSet(new.queue[d])
        PROVE  r \in 1..Len(rows) /\ rows[r].deal = d /\ rows[r].kind = "head"
    <3>1. r \in ToSet(st.queue[d]) \/ (r # 0 /\ r = st.head[d])
      OBVIOUS
    <3>2. RefersWell(st)
      OBVIOUS
    <3>3. CASE r \in ToSet(st.queue[d])
      <4>1. \A x \in ToSet(st.queue[d]) :
               x \in 1..Len(rows) /\ rows[x].deal = d /\ rows[x].kind = "head"
        BY <3>2, Zenon DEF RefersWell
      <4> QED BY <3>3, <4>1, Zenon
    <3>4. CASE r # 0 /\ r = st.head[d]
      BY <3>2, <3>4, Zenon DEF RefersWell
    <3> QED BY <3>1, <3>3, <3>4
  <2>3. ASSUME NEW d \in DealSet
        PROVE  /\ new.head[d] # 0 =>
                    /\ new.head[d] \in 1..Len(rows) /\ rows[new.head[d]].deal = d
                    /\ rows[new.head[d]].kind = "head"
               /\ new.backfill[d] # 0 =>
                    /\ new.backfill[d] \in 1..Len(rows) /\ rows[new.backfill[d]].deal = d
                    /\ rows[new.backfill[d]].kind = "backfill"
    BY SMT DEF RefersWell
  <2> QED BY <2>1, <2>2, <2>3 DEF RefersWell
<1>6. \A r \in 1..Len(rows) : Old(r) => wtime' - rows'[r].ref >= Day
  BY <1>1, <1>4 DEF Old, RowsFollow
<1>7. Remembers(new)'
  <2> SUFFICES ASSUME NEW r \in 1..Len(rows'), r > since',
                      rows'[r].kind = "head", rows'[r].status # "pending", rows'[r].resumable,
                      ~(wtime' - rows'[r].ref >= Day)
               PROVE  r = new.head[rows'[r].deal] \/ r \in ToSet(new.queue[rows'[r].deal])
    BY Zenon DEF Remembers, Old
  <2>1. /\ r \in 1..Len(rows) /\ rows'[r].deal = rows[r].deal /\ rows[r].kind = "head"
        /\ rows[r].deal \in DealSet /\ ~Old(r)
    BY <1>4, <1>6, Zenon DEF RowsFollow
  <2>3. r > since /\ Matches(r)
    BY <1>9, <2>1, Zenon DEF PolicySince, Matches
  <2>2. r = st.head[rows[r].deal] \/ r \in ToSet(st.queue[rows[r].deal])
    BY <2>1, <2>3, Zenon DEF RowsFollow, Entered, Remembers
  <2> QED BY <2>1, <2>2, <2>3, Zenon
<1>8. BackfillIsLast(new)'
  <2> SUFFICES ASSUME NEW r \in 1..Len(rows'), r > since',
                      rows'[r].kind = "backfill", rows'[r].status # "pending"
               PROVE  /\ r <= new.backfill[rows'[r].deal]
                      /\ rows'[r].status = "completed" \/ r = new.backfill[rows'[r].deal]
    BY Zenon DEF BackfillIsLast
  <2>1. r \in 1..Len(rows) /\ rows'[r].deal = rows[r].deal /\ rows[r].kind = "backfill"
    BY Zenon DEF RowsFollow
  <2>2. CASE rows'[r].status = rows[r].status
    BY <1>9, <2>1, <2>2, Zenon DEF BackfillIsLast
  <2>3. CASE Entered(st, r)
    BY <1>1, <2>1, <2>3 DEF Entered
  <2> QED BY <2>2, <2>3, Zenon DEF RowsFollow
<1> QED BY <1>5, <1>7, <1>8

\* Rows that stay follow.
LEMMA RowsStay ==
    ASSUME WatchTypeOK, rows' = rows
    PROVE  \A st : RowsFollow(st)
<1>1. Len(rows) \in Nat /\ rows \in Seq(Rows)
  BY LenProperties DEF WatchTypeOK, Rows
<1> QED BY <1>1 DEF RowsFollow

\* The policy stays while the process lives.
LEMMA PolicyStays ==
    ASSUME WatchTypeOK, PolicySince, NEW st, RowsFollow(st), policy' = policy, since' = since
    PROVE  /\ PolicySince' /\ since' \in Nat /\ since' >= since
           /\ policy' \in Policies /\ since' \in 0..Len(rows')
<1>1. Len(rows) \in Nat /\ Len(rows') \in Nat /\ Len(rows) <= Len(rows')
  BY LenProperties DEF WatchTypeOK, RowsFollow
<1>2. since' \in Nat /\ since' >= since /\ since' \in 0..Len(rows') /\ policy' \in Policies
  BY <1>1 DEF WatchTypeOK
<1>3. ASSUME NEW r \in 1..Len(rows'), r > since'  PROVE rows'[r].policy = policy'
  <2>1. CASE r \in 1..Len(rows)
    BY <1>3, <2>1 DEF PolicySince, RowsFollow
  <2>2. CASE r \notin 1..Len(rows)
    <3>1. r > Len(rows)
      BY <1>1, <2>2
    <3> QED BY <3>1 DEF RowsFollow
  <2> QED BY <2>1, <2>2
<1> QED BY <1>2, <1>3 DEF PolicySince

\* create_run adds a pending row.
LEMMA RowAdded ==
    ASSUME WatchTypeOK, Deal \in DealSet, NEW kind \in RunKinds, NewRow(kind)
    PROVE  /\ \A st : RowsFollow(st)
           /\ Len(rows') = Len(rows) + 1 /\ Len(rows') <= MaxRows /\ chosen' = Len(rows')
           /\ chosen' \in Ids /\ phase' = "created"
           /\ rows'[chosen'] = [deal |-> Deal, kind |-> kind, policy |-> policy, ref |-> wtime,
                                resumable |-> TRUE, status |-> "pending"]
           /\ \A r \in 1..Len(rows) : rows'[r] = rows[r]
<1> DEFINE row == [deal |-> Deal, kind |-> kind, policy |-> policy, ref |-> wtime, resumable |-> TRUE,
                   status |-> "pending"]
<1>1. Len(rows) \in Nat /\ rows \in Seq(Rows) /\ MaxRows \in Nat /\ wtime \in Nat
      /\ policy \in Policies
  BY LenProperties, WatchAssumption DEF WatchTypeOK, Rows
<1>2. row \in Rows
  BY <1>1 DEF Rows
<1>3. rows' = Append(rows, row) /\ Len(rows) < MaxRows /\ chosen' = Len(rows) + 1 /\ phase' = "created"
  BY DEF NewRow
<1> HIDE DEF row
<1>4. /\ rows' \in Seq(Rows) /\ Len(rows') = Len(rows) + 1 /\ rows'[Len(rows) + 1] = row
      /\ \A r \in 1..Len(rows) : rows'[r] = rows[r]
  BY <1>1, <1>2, <1>3, AppendProperties
<1>5. row.status = "pending" /\ row.policy = policy
  BY DEF row
<1>6. \A r \in 1..Len(rows') : r \in 1..Len(rows) \/ r = Len(rows) + 1
  BY <1>1, <1>4
<1>7. ASSUME NEW st  PROVE RowsFollow(st)
  <2>1. \A r \in 1..Len(rows') : r > Len(rows) => rows'[r].policy = policy
    BY <1>1, <1>4, <1>5, <1>6
  <2>2. \A r \in 1..Len(rows') :
           rows'[r].status # "pending" => r \in 1..Len(rows) /\ rows'[r] = rows[r]
    BY <1>4, <1>5, <1>6
  <2> QED BY <1>1, <1>4, <2>1, <2>2 DEF RowsFollow
<1>8. chosen' \in Ids /\ Len(rows') <= MaxRows
  BY <1>1, <1>3, <1>4 DEF Ids
<1> QED BY <1>3, <1>4, <1>7, <1>8 DEF row

\* Rows have a deal and a time of reference.
LEMMA RowsTyped ==
    ASSUME WatchTypeOK
    PROVE  /\ Len(rows) \in Nat
           /\ \A r \in 1..Len(rows) : rows[r].deal \in DealSet /\ rows[r].ref \in Nat
<1>1. rows \in Seq(Rows)
  BY DEF WatchTypeOK, Rows
<1>2. Len(rows) \in Nat /\ \A r \in 1..Len(rows) : rows[r] \in Rows
  BY <1>1, LenProperties, ElementOfSeq
<1> QED BY <1>2 DEF Rows

\* The task at work has a kind and a deal.
LEMMA TaskAtWork ==
    ASSUME WatchTypeOK, task # 0
    PROVE  /\ task \in 1..Len(CycleTasks) /\ Deal \in DealSet
           /\ Kind \in {"head", "head_backlog", "backfill"}
<1>1. task \in 1..Len(CycleTasks)
  BY TasksAreTyped DEF WatchTypeOK
<1> QED BY <1>1, TasksAreTyped DEF Kind, Deal

\* Whatever comes next is a task of the cycle or its end.
LEMMA NextTaskTyped ==
    ASSUME WatchTypeOK, NextTask
    PROVE  task' \in 0..Len(CycleTasks) /\ phase' = "choose" /\ chosen' = 0
BY TasksAreTyped DEF NextTask, WatchTypeOK

\* What a leg writes into the row of its run.
LegWrites(status, resumable) ==
    /\ rows' \in Seq(Rows) /\ Len(rows') = Len(rows)
    /\ \A r \in 1..Len(rows) :
          /\ rows'[r].deal = rows[r].deal /\ rows'[r].kind = rows[r].kind
          /\ rows'[r].ref = rows[r].ref /\ rows'[r].policy = rows[r].policy
          /\ r # chosen => rows'[r] = rows[r]
    /\ rows'[chosen].status = status /\ rows'[chosen].resumable = resumable

\* The beginning of a leg writes the status only.
LEMMA BeginningWrites ==
    ASSUME WatchTypeOK, RunInHand, phase = "begin", LegBegins
    PROVE  LegWrites("begun", TRUE)
<1>1. /\ rows \in Seq(Rows) /\ chosen \in 1..Len(rows) /\ rows[chosen].resumable
      /\ rows' = [rows EXCEPT ![chosen].status = "begun"]
  BY DEF WatchTypeOK, Rows, RunInHand, LegBegins
<1>2. Len(rows) \in Nat /\ DOMAIN rows = 1..Len(rows) /\ \A r \in 1..Len(rows) : rows[r] \in Rows
  BY <1>1, LenProperties, ElementOfSeq
<1> DEFINE row == [rows[chosen] EXCEPT !.status = "begun"]
<1>3. /\ row \in Rows /\ row.deal = rows[chosen].deal /\ row.kind = rows[chosen].kind
      /\ row.ref = rows[chosen].ref /\ row.policy = rows[chosen].policy
      /\ row.status = "begun" /\ row.resumable = TRUE
  BY <1>1, <1>2 DEF Rows
<1>4. rows' = [rows EXCEPT ![chosen] = row]
  BY <1>1
<1> HIDE DEF row
<1>5. /\ rows' \in Seq(Rows) /\ Len(rows') = Len(rows) /\ rows'[chosen] = row
      /\ \A r \in 1..Len(rows) : r # chosen => rows'[r] = rows[r]
  BY <1>1, <1>2, <1>3, <1>4, ExceptSeq
<1> QED BY <1>1, <1>3, <1>5 DEF LegWrites

\* The end of a leg: what is not completed may be resumed.
LEMMA EndWrites ==
    ASSUME WatchTypeOK, RunInHand, phase = "leg", NEW end \in LegEnds, rows' = Ended(end)
    PROVE  \E status \in {"begun", "completed"} :
              /\ LegWrites(status, end # "completed")
              /\ status = "completed" <=> end = "completed"
<1> DEFINE status == IF end = "completed" THEN "completed" ELSE "begun"
           res == end # "completed"
           row == [rows[chosen] EXCEPT !.status = status, !.resumable = res]
<1>1. rows \in Seq(Rows) /\ chosen \in 1..Len(rows) /\ rows[chosen].resumable
  BY DEF WatchTypeOK, Rows, RunInHand
<1>2. Len(rows) \in Nat /\ DOMAIN rows = 1..Len(rows) /\ \A r \in 1..Len(rows) : rows[r] \in Rows
  BY <1>1, LenProperties, ElementOfSeq
<1>3. status \in {"begun", "completed"} /\ (status = "completed" <=> end = "completed")
  BY DEF LegEnds
<1>4. rows' = [rows EXCEPT ![chosen].status = status, ![chosen].resumable = res]
  BY Zenon DEF Ended
<1> HIDE DEF status
<1>5. res \in BOOLEAN
  OBVIOUS
<1> HIDE DEF res
<1>6. /\ row \in Rows /\ row.deal = rows[chosen].deal /\ row.kind = rows[chosen].kind
      /\ row.ref = rows[chosen].ref /\ row.policy = rows[chosen].policy
      /\ row.status = status /\ row.resumable = res
  BY <1>1, <1>2, <1>3, <1>5 DEF Rows
<1>7. rows' = [rows EXCEPT ![chosen] = row]
  BY <1>1, <1>2, <1>4
<1> HIDE DEF row
<1>8. /\ rows' \in Seq(Rows) /\ Len(rows') = Len(rows) /\ rows'[chosen] = row
      /\ \A r \in 1..Len(rows) : r # chosen => rows'[r] = rows[r]
  BY <1>1, <1>2, <1>6, <1>7, ExceptSeq
<1>9. LegWrites(status, res)
  BY <1>1, <1>6, <1>8 DEF LegWrites
<1> QED BY <1>3, <1>9 DEF res

\* A leg follows the rows: both states have entered its run.
LEMMA LegFollows ==
    ASSUME WatchTypeOK, RunInHand, ResumableUnlessCompleted, phase \in {"begin", "leg"},
           NEW status, NEW resumable, LegWrites(status, resumable),
           resumable <=> status # "completed"
    PROVE  RowsFollow(mem) /\ RowsFollow(disk) /\ ResumableUnlessCompleted'
<1>1. Len(rows) \in Nat /\ chosen \in 1..Len(rows) /\ task # 0
  BY LenProperties DEF WatchTypeOK, RunInHand
<1>2. Entered(mem, chosen) /\ Entered(disk, chosen)
  BY <1>1, TaskAtWork DEF RunInHand, EnteredIn, Entered
<1>3. RowsFollow(mem) /\ RowsFollow(disk)
  BY <1>1, <1>2 DEF LegWrites, RowsFollow
<1>4. ResumableUnlessCompleted'
  BY <1>1 DEF LegWrites, ResumableUnlessCompleted
<1> QED BY <1>3, <1>4

-----------------------------------------------------------------------------
(***************************************************************************)
(* The invariant, action by action.                                        *)
(***************************************************************************)

\* Every leaf below reads the invariant.
USE DEF WatchInv

\* A cycle begins on a saved state.
LEMMA CycleStartKeeps ==
    ASSUME WatchInv, CycleStart
    PROVE  WatchInv'
<1>1. mem \in State /\ wtime \in Nat
  BY DEF WatchTypeOK
<1>2. /\ mem' \in State /\ mem'.head = mem.head /\ mem'.backfill = mem.backfill
      /\ mem'.queue = mem.queue /\ disk' = mem'
  BY <1>1, RetryChange, Zenon DEF CycleStart
<1>3. rows' = rows /\ wtime' = wtime /\ phase' = "choose" /\ chosen' = 0 /\ task' = 1
  BY DEF CycleStart
<1>policy. /\ PolicySince' /\ since' \in Nat /\ since' >= since
           /\ policy' \in Policies /\ since' \in 0..Len(rows')
  <2>1. policy' = policy /\ since' = since
    BY Zenon DEF CycleStart, policyVars
  <2> QED BY <1>3, RowsStay, <2>1, PolicyStays
<1>4. Promises(mem)'
  BY <1>1, <1>2, <1>3, <1>policy, RowsStay, PromisesKept
<1>5. Promises(disk)'
  BY <1>2, <1>4
<1>6. WatchTypeOK'
  BY <1>policy, <1>2, <1>3, TasksAreTyped DEF WatchTypeOK
<1>7. ResumableUnlessCompleted'
  BY <1>3 DEF ResumableUnlessCompleted
<1>8. SavedWhileChoosing' /\ CreatedRun' /\ RunInHand'
  BY <1>2, <1>3 DEF SavedWhileChoosing, CreatedRun, RunInHand
<1> QED BY <1>policy, <1>4, <1>5, <1>6, <1>7, <1>8

\* A new head is created beside the former one, which joins the queue of the process.
LEMMA ChooseHeadKeeps ==
    ASSUME WatchInv, ChooseHead
    PROVE  WatchInv'
<1>1. /\ mem \in State /\ disk \in State /\ wtime \in Nat /\ task # 0
      /\ phase = "choose" /\ Kind = "head" /\ Deal \in DealSet /\ NewRow("head")
      /\ disk' = disk /\ task' = task /\ wtime' = wtime
  BY TaskAtWork DEF WatchTypeOK, ChooseHead
<1> DEFINE q == Remembered(mem.head[Deal])
<1>2. mem.head[Deal] \in Ids \cup {0}
  BY <1>1 DEF State
<1>3. /\ q \in Seq(Ids) /\ ToSet(mem.queue[Deal]) \subseteq ToSet(q)
      /\ ToSet(q) \subseteq ToSet(mem.queue[Deal]) \cup {mem.head[Deal]}
      /\ mem.head[Deal] # 0 /\ Matches(mem.head[Deal]) /\ rows[mem.head[Deal]].resumable => mem.head[Deal] \in ToSet(q)
      /\ mem.head[Deal] = 0 => q = mem.queue[Deal]
  BY <1>1, <1>2, RememberedKeeps
<1>4. mem' = [mem EXCEPT !.queue[Deal] = q]
  BY DEF ChooseHead
<1> HIDE DEF q
<1>5. /\ mem' \in State /\ mem'.head = mem.head /\ mem'.backfill = mem.backfill
      /\ mem'.queue = [mem.queue EXCEPT ![Deal] = q]
  <2> DEFINE new == [mem EXCEPT !.queue[Deal] = q]
  <2>1. /\ new \in State /\ new.head = mem.head /\ new.backfill = mem.backfill
        /\ new.queue = [mem.queue EXCEPT ![Deal] = q]
    <3>1. mem \in State /\ Deal \in DealSet /\ q \in Seq(Ids)
      BY <1>1, <1>3
    <3> QED BY <3>1, QueueChange, ZenonT(40)
  <2>2. mem' = new
    BY <1>4
  <2> HIDE DEF new
  <2> QED BY <2>1, <2>2
<1>6. mem.queue \in [DealSet -> Seq(Ids)]
  BY <1>1 DEF State
<1>7. \A d \in DealSet :
         /\ \A r \in ToSet(mem'.queue[d]) : r \in ToSet(mem.queue[d]) \/ (r # 0 /\ r = mem.head[d])
         /\ \A r \in ToSet(mem.queue[d]) :
              r \in ToSet(mem'.queue[d]) \/ ~rows'[r].resumable \/ Old(r)
      /\ ToSet(mem.queue[Deal]) \subseteq ToSet(mem'.queue[Deal])
  BY <1>1, <1>3, <1>5, <1>6
<1>8. /\ \A st : RowsFollow(st)
      /\ Len(rows') = Len(rows) + 1 /\ Len(rows') <= MaxRows /\ chosen' = Len(rows')
      /\ chosen' \in Ids /\ phase' = "created"
      /\ rows'[chosen'] = [deal |-> Deal, kind |-> "head", policy |-> policy, ref |-> wtime,
                           resumable |-> TRUE, status |-> "pending"]
      /\ \A r \in 1..Len(rows) : rows'[r] = rows[r]
  BY <1>1, RowAdded DEF RunKinds
<1>policy. /\ PolicySince' /\ since' \in Nat /\ since' >= since
           /\ policy' \in Policies /\ since' \in 0..Len(rows')
  <2>1. policy' = policy /\ since' = since
    BY Zenon DEF ChooseHead, policyVars
  <2> QED BY <1>8, <2>1, PolicyStays
<1>9. Promises(mem)'
  <2>1. wtime' \in Nat /\ wtime' >= wtime
    BY <1>1
  <2> QED BY <1>1, <1>5, <1>7, <1>8, <2>1, <1>policy, PromisesKept, Zenon
<1>10. Promises(disk)'
  BY <1>1, <1>8, <1>policy, PromisesKept
<1>11. WatchTypeOK'
  BY <1>policy, <1>1, <1>5, <1>8 DEF WatchTypeOK, RowsFollow, Rows
<1>12. Len(rows) \in Nat
  BY LenProperties DEF WatchTypeOK
<1>13. ResumableUnlessCompleted'
  <2>1. \A r \in 1..Len(rows') : r \in 1..Len(rows) \/ r = chosen'
    BY <1>8, <1>12
  <2> QED BY <1>8, <2>1 DEF ResumableUnlessCompleted
<1>14. Kind' = Kind /\ Deal' = Deal
  BY <1>1 DEF Kind, Deal
<1>15. mem.head[Deal] # 0 => mem.head[Deal] \in 1..Len(rows)
  BY <1>1 DEF Promises, RefersWell
<1>16. CreatedRun'
  <2>1. policy' = policy /\ since' = since /\ since \in Nat
    BY DEF ChooseHead, policyVars, WatchTypeOK
  <2>2. mem.head[Deal] > since /\ rows[mem.head[Deal]].resumable
          => mem.head[Deal] \in 1..Len(rows) /\ mem.head[Deal] \in ToSet(q)
    <3>1. mem.head[Deal] > since => mem.head[Deal] # 0
      BY <2>1
    <3> QED BY <1>3, <1>15, <3>1 DEF PolicySince, Matches
  <2>3. /\ task' # 0 /\ Kind' \in RunKinds /\ chosen' = Len(rows') /\ chosen' # 0
        /\ rows'[chosen'].deal = Deal' /\ rows'[chosen'].kind = Kind'
        /\ rows'[chosen'].status = "pending" /\ rows'[chosen'].policy = policy'
    BY <1>1, <1>8, <1>12, <1>14, <2>1 DEF RunKinds
  <2>4. /\ Kind' = "head" /\ Deal' = Deal /\ mem'.head = mem.head /\ mem'.queue[Deal] = q
        /\ \A r \in 1..Len(rows) : rows'[r] = rows[r]
    BY <1>1, <1>5, <1>6, <1>8, <1>14
  <2> HIDE DEF q
  <2>5. mem'.head[Deal'] > since' /\ rows'[mem'.head[Deal']].resumable
          => mem'.head[Deal'] \in ToSet(mem'.queue[Deal'])
    <3> SUFFICES ASSUME mem.head[Deal] > since, rows'[mem.head[Deal]].resumable
                 PROVE  mem.head[Deal] \in ToSet(q)
      BY <2>1, <2>4
    <3>1. mem.head[Deal] \in 1..Len(rows)
      BY <1>15, <2>1
    <3> QED BY <2>2, <2>4, <3>1
  <2> QED BY <2>3, <2>4, <2>5 DEF CreatedRun
<1>17. SavedWhileChoosing' /\ RunInHand'
  BY <1>8 DEF SavedWhileChoosing, RunInHand
<1> QED BY <1>policy, <1>9, <1>10, <1>11, <1>13, <1>16, <1>17

\* The backlog's queue is shortened, in the process only, until a run is chosen.
LEMMA ChooseBacklogKeeps ==
    ASSUME WatchInv, ChooseBacklog
    PROVE  WatchInv'
<1>1. /\ mem \in State /\ mem = disk /\ wtime \in Nat /\ task # 0
      /\ Kind = "head_backlog" /\ Deal \in DealSet /\ rows' = rows /\ wtime' = wtime
  BY TaskAtWork DEF WatchTypeOK, ChooseBacklog, SavedWhileChoosing
<1> DEFINE q == Pruned(mem.queue[Deal])
<1>policy. /\ PolicySince' /\ since' \in Nat /\ since' >= since
           /\ policy' \in Policies /\ since' \in 0..Len(rows')
  <2>1. policy' = policy /\ since' = since
    BY Zenon DEF ChooseBacklog, policyVars
  <2> QED BY <1>1, RowsStay, <2>1, PolicyStays
<1>2. mem.queue \in [DealSet -> Seq(Ids)]
  BY <1>1 DEF State
<1>3. /\ q \in Seq(Ids) /\ ToSet(q) \subseteq ToSet(mem.queue[Deal])
      /\ \A r \in ToSet(mem.queue[Deal]) : Matches(r) /\ rows[r].resumable /\ ~Old(r) => r \in ToSet(q)
      /\ q # <<>> => Head(q) \in ToSet(q) /\ rows[Head(q)].resumable /\ Matches(Head(q))
  BY <1>1, <1>2, PrunedKeeps
<1>4. mem' = [mem EXCEPT !.queue[Deal] = q]
  BY Zenon DEF ChooseBacklog
<1> HIDE DEF q
<1>5. /\ mem' \in State /\ mem'.head = mem.head /\ mem'.backfill = mem.backfill
      /\ mem'.queue = [mem.queue EXCEPT ![Deal] = q]
  <2> DEFINE new == [mem EXCEPT !.queue[Deal] = q]
  <2>1. /\ new \in State /\ new.head = mem.head /\ new.backfill = mem.backfill
        /\ new.queue = [mem.queue EXCEPT ![Deal] = q]
    <3>1. mem \in State /\ Deal \in DealSet /\ q \in Seq(Ids)
      BY <1>1, <1>3
    <3> QED BY <3>1, QueueChange, ZenonT(40)
  <2>2. mem' = new
    BY <1>4
  <2> HIDE DEF new
  <2> QED BY <2>1, <2>2
<1>6. mem'.queue[Deal] = q /\ \A d \in DealSet : d # Deal => mem'.queue[d] = mem.queue[d]
  BY <1>1, <1>2, <1>5
<1>7. Promises(mem)'
  <2>1. \A d \in DealSet :
           /\ \A r \in ToSet(mem'.queue[d]) : r \in ToSet(mem.queue[d]) \/ (r # 0 /\ r = mem.head[d])
           /\ \A r \in ToSet(mem.queue[d]) :
                r \in ToSet(mem'.queue[d]) \/ ~rows'[r].resumable \/ Old(r) \/ ~Matches(r)
    BY <1>1, <1>3, <1>6
  <2>2. wtime' \in Nat /\ wtime' >= wtime
    BY <1>1
  <2> QED BY <1>1, <1>5, <2>1, <2>2, <1>policy, RowsStay, PromisesKept, Zenon
<1>8. ResumableUnlessCompleted'
  BY <1>1 DEF ResumableUnlessCompleted
<1>9. CASE q = <<>>
  <2>1. disk' = mem' /\ NextTask
    BY <1>6, <1>9, Zenon DEF ChooseBacklog
  <2>2. task' \in 0..Len(CycleTasks) /\ phase' = "choose" /\ chosen' = 0
    BY <2>1, NextTaskTyped
  <2>3. WatchTypeOK'
    BY <1>policy, <1>1, <1>5, <2>1, <2>2 DEF WatchTypeOK
  <2>4. Promises(disk)' /\ SavedWhileChoosing' /\ CreatedRun' /\ RunInHand'
    BY <1>7, <2>1, <2>2 DEF SavedWhileChoosing, CreatedRun, RunInHand
  <2> QED BY <1>policy, <1>7, <1>8, <2>3, <2>4
<1>10. CASE q # <<>>
  <2>1. chosen' = Head(q) /\ phase' = "begin" /\ disk' = disk /\ task' = task
    BY <1>6, <1>10, Zenon DEF ChooseBacklog
  <2>2. /\ chosen' \in ToSet(q) /\ chosen' \in ToSet(disk.queue[Deal]) /\ rows[chosen'].resumable
        /\ Matches(chosen')
        /\ chosen' \in 1..Len(rows) /\ rows[chosen'].deal = Deal /\ rows[chosen'].kind = "head"
    <3>1. chosen' \in ToSet(q) /\ chosen' \in ToSet(disk.queue[Deal]) /\ rows[chosen'].resumable
          /\ Matches(chosen')
      BY <1>1, <1>3, <1>10, <2>1
    <3> QED BY <1>1, <3>1 DEF Promises, RefersWell
  <2>3. chosen' \in Ids
    <3>1. /\ DOMAIN q = 1..Len(q) /\ \A k \in 1..Len(q) : q[k] \in Ids
      BY <1>3, LenProperties, ElementOfSeq
    <3> QED BY <2>2, <3>1 DEF ToSet
  <2>4. WatchTypeOK'
    BY <1>policy, <1>1, <1>5, <2>1, <2>3 DEF WatchTypeOK
  <2>5. Promises(disk)'
    BY <1>1, <2>1, <1>policy, RowsStay, PromisesKept
  <2>6. Kind' = Kind /\ Deal' = Deal
    BY <2>1 DEF Kind, Deal
  <2>7. RunInHand'
    BY <1>1, <1>6, <2>1, <2>2, <2>6 DEF RunInHand, EnteredIn, Matches, ChooseBacklog, policyVars
  <2>8. SavedWhileChoosing' /\ CreatedRun'
    BY <2>1 DEF SavedWhileChoosing, CreatedRun
  <2> QED BY <1>policy, <1>7, <1>8, <2>4, <2>5, <2>7, <2>8
<1> QED BY <1>policy, <1>9, <1>10

\* A backfill is begun anew only when the former has reached the end of the source.
LEMMA ChooseBackfillKeeps ==
    ASSUME WatchInv, ChooseBackfill
    PROVE  WatchInv'
<1>1. /\ mem \in State /\ mem = disk /\ wtime \in Nat /\ task # 0
      /\ Kind = "backfill" /\ Deal \in DealSet
      /\ disk' = disk /\ mem' = mem /\ wtime' = wtime
  BY TaskAtWork DEF WatchTypeOK, ChooseBackfill, SavedWhileChoosing
<1>2. wtime' \in Nat /\ wtime' >= wtime
  BY <1>1
<1>3. mem.backfill[Deal] # 0 =>
        /\ mem.backfill[Deal] \in 1..Len(rows) /\ rows[mem.backfill[Deal]].deal = Deal
        /\ rows[mem.backfill[Deal]].kind = "backfill"
  BY <1>1, Zenon DEF Promises, RefersWell
<1>4. ASSUME \A st : RowsFollow(st)
      PROVE  /\ Promises(mem)' /\ Promises(disk)' /\ PolicySince'
             /\ policy' \in Policies /\ since' \in 0..Len(rows')
  <2>1. policy' = policy /\ since' = since
    BY Zenon DEF ChooseBackfill, policyVars
  <2>2. /\ PolicySince' /\ since' \in Nat /\ since' >= since
        /\ policy' \in Policies /\ since' \in 0..Len(rows')
    BY <1>4, <2>1, PolicyStays
  <2>3. Promises(mem)'
    BY <1>1, <1>2, <1>4, <2>2, PromisesKept
  <2>4. Promises(disk)'
    BY <1>1, <1>2, <1>4, <2>2, PromisesKept
  <2> QED BY <2>2, <2>3, <2>4
<1>5. CASE BackfillDue(mem.backfill[Deal])
  <2>1. NewRow("backfill") /\ task' = task
    BY <1>5, Zenon DEF ChooseBackfill
  <2>2. /\ \A st : RowsFollow(st)
        /\ Len(rows') = Len(rows) + 1 /\ Len(rows') <= MaxRows /\ chosen' = Len(rows')
        /\ chosen' \in Ids /\ phase' = "created"
        /\ rows'[chosen'] = [deal |-> Deal, kind |-> "backfill", policy |-> policy, ref |-> wtime,
                             resumable |-> TRUE, status |-> "pending"]
        /\ \A r \in 1..Len(rows) : rows'[r] = rows[r]
    BY <1>1, <2>1, RowAdded DEF RunKinds
  <2>3. Len(rows) \in Nat
    BY LenProperties DEF WatchTypeOK
  <2>4. WatchTypeOK'
    BY <1>1, <1>4, <2>1, <2>2 DEF WatchTypeOK, RowsFollow, Rows
  <2>5. ResumableUnlessCompleted'
    <3>1. \A r \in 1..Len(rows') : r \in 1..Len(rows) \/ r = chosen'
      BY <2>2, <2>3
    <3> QED BY <2>2, <3>1 DEF ResumableUnlessCompleted
  <2>6. Kind' = Kind /\ Deal' = Deal
    BY <2>1 DEF Kind, Deal
  <2>7. mem.backfill[Deal] > since => rows[mem.backfill[Deal]].status = "completed"
    <3>1. mem.backfill[Deal] > since => mem.backfill[Deal] # 0
      BY DEF WatchTypeOK
    <3> QED BY <1>3, <1>5, <3>1 DEF BackfillDue, Matches, PolicySince, ResumableUnlessCompleted
  <2>8. CreatedRun'
    <3>1. policy' = policy /\ since' = since /\ since \in Nat
      BY DEF ChooseBackfill, policyVars, WatchTypeOK
    <3>2. mem.backfill[Deal] > since => mem.backfill[Deal] \in 1..Len(rows)
      BY <1>3, <3>1
    <3> QED BY <1>1, <2>1, <2>2, <2>3, <2>6, <2>7, <3>1, <3>2 DEF CreatedRun, RunKinds
  <2>9. SavedWhileChoosing' /\ RunInHand'
    BY <2>2 DEF SavedWhileChoosing, RunInHand
  <2> QED BY <1>4, <2>2, <2>4, <2>5, <2>8, <2>9
<1>6. CASE ~BackfillDue(mem.backfill[Deal]) /\ rows[mem.backfill[Deal]].resumable
  <2>1. chosen' = mem.backfill[Deal] /\ phase' = "begin" /\ rows' = rows /\ task' = task
    BY <1>6, Zenon DEF ChooseBackfill
  <2>2. chosen' # 0 /\ chosen' \in Ids /\ Matches(chosen')
    BY <1>1, <1>6, <2>1 DEF BackfillDue, State
  <2>3. WatchTypeOK' /\ ResumableUnlessCompleted'
    BY <1>1, <1>4, <2>1, RowsStay, <2>2 DEF WatchTypeOK, ResumableUnlessCompleted
  <2>4. Kind' = Kind /\ Deal' = Deal
    BY <2>1 DEF Kind, Deal
  <2>5. RunInHand'
    BY <1>1, <1>3, <1>6, <2>1, <2>2, <2>4 DEF RunInHand, EnteredIn, Matches, ChooseBackfill, policyVars
  <2>6. SavedWhileChoosing' /\ CreatedRun'
    BY <2>1 DEF SavedWhileChoosing, CreatedRun
  <2> QED BY <1>4, <2>1, <2>3, <2>5, <2>6, RowsStay
<1>7. CASE ~BackfillDue(mem.backfill[Deal]) /\ ~rows[mem.backfill[Deal]].resumable
  <2>1. NextTask /\ rows' = rows
    BY <1>7, Zenon DEF ChooseBackfill
  <2>2. task' \in 0..Len(CycleTasks) /\ phase' = "choose" /\ chosen' = 0
    BY <2>1, NextTaskTyped
  <2>3. WatchTypeOK' /\ ResumableUnlessCompleted'
    BY <1>1, <1>4, <2>1, RowsStay, <2>2 DEF WatchTypeOK, ResumableUnlessCompleted
  <2>4. SavedWhileChoosing' /\ CreatedRun' /\ RunInHand'
    BY <1>1, <2>2 DEF SavedWhileChoosing, CreatedRun, RunInHand
  <2> QED BY <1>4, <2>1, <2>3, <2>4, RowsStay
<1> QED BY <1>5, <1>6, <1>7

\* The new run takes the place of the former one, which is in the queue or finished.
LEMMA SaveChosenKeeps ==
    ASSUME WatchInv, SaveChosen
    PROVE  WatchInv'
<1>1. /\ mem \in State /\ wtime \in Nat /\ task # 0 /\ Deal \in DealSet
      /\ rows' = rows /\ task' = task /\ chosen' = chosen /\ wtime' = wtime
      /\ phase = "created" /\ phase' = "begin" /\ disk' = mem'
  BY TaskAtWork DEF WatchTypeOK, SaveChosen
<1>policy. /\ PolicySince' /\ since' \in Nat /\ since' >= since
           /\ policy' \in Policies /\ since' \in 0..Len(rows')
  <2>1. policy' = policy /\ since' = since
    BY Zenon DEF SaveChosen, policyVars
  <2> QED BY <1>1, RowsStay, <2>1, PolicyStays
<1>2. /\ chosen = Len(rows) /\ chosen \in 1..Len(rows) /\ chosen \in Ids /\ Kind \in RunKinds
      /\ rows[chosen].deal = Deal /\ rows[chosen].kind = Kind /\ rows[chosen].status = "pending"
      /\ rows[chosen].resumable
  <2>1. Len(rows) \in Nat /\ Len(rows) # 0 /\ chosen = Len(rows)
    BY <1>1, LenProperties DEF WatchTypeOK, CreatedRun
  <2>2. chosen \in 1..Len(rows) /\ chosen \in Ids
    BY <2>1 DEF WatchTypeOK, Ids
  <2> QED BY <1>1, <2>1, <2>2 DEF CreatedRun, ResumableUnlessCompleted
<1>3. /\ mem.head \in [DealSet -> Ids \cup {0}] /\ mem.backfill \in [DealSet -> Ids \cup {0}]
  BY <1>1 DEF State
<1>4. /\ mem' \in State /\ mem'.queue = mem.queue
      /\ mem'.head = IF Kind = "head" THEN [mem.head EXCEPT ![Deal] = chosen] ELSE mem.head
      /\ mem'.backfill = IF Kind = "head" THEN mem.backfill ELSE [mem.backfill EXCEPT ![Deal] = chosen]
  <2>1. mem \in State /\ Deal \in DealSet /\ chosen \in Ids
    BY <1>1, <1>2
  <2>2. CASE Kind = "head"
    <3> DEFINE new == [mem EXCEPT !.head[Deal] = chosen]
    <3>1. /\ new \in State /\ new.queue = mem.queue /\ new.backfill = mem.backfill
          /\ new.head = [mem.head EXCEPT ![Deal] = chosen]
      BY <2>1, HeadChange, ZenonT(40)
    <3>2. mem' = new
      BY <2>2, Zenon DEF SaveChosen
    <3> HIDE DEF new
    <3> QED BY <2>2, <3>1, <3>2
  <2>3. CASE Kind # "head"
    <3> DEFINE new == [mem EXCEPT !.backfill[Deal] = chosen]
    <3>1. /\ new \in State /\ new.queue = mem.queue /\ new.head = mem.head
          /\ new.backfill = [mem.backfill EXCEPT ![Deal] = chosen]
      BY <2>1, BackfillChange, ZenonT(40)
    <3>2. mem' = new
      BY <2>3, Zenon DEF SaveChosen
    <3> HIDE DEF new
    <3> QED BY <2>3, <3>1, <3>2
  <2> QED BY <2>2, <2>3
<1>20. /\ policy' = policy /\ since' = since /\ since \in Nat
       /\ rows[chosen].policy = policy
  BY <1>1 DEF SaveChosen, policyVars, WatchTypeOK, CreatedRun
<1>5. RefersWell(mem)'
  BY <1>1, <1>2, <1>3, <1>4 DEF Promises, RefersWell, RunKinds
<1>6. Remembers(mem)'
  <2> SUFFICES ASSUME NEW r \in 1..Len(rows), r > since,
                      rows[r].kind = "head", rows[r].status # "pending", rows[r].resumable, ~Old(r)
               PROVE  r = mem'.head[rows[r].deal] \/ r \in ToSet(mem.queue[rows[r].deal])
    BY <1>1, <1>4, <1>20 DEF Remembers, Old
  <2>1. r = mem.head[rows[r].deal] \/ r \in ToSet(mem.queue[rows[r].deal])
    BY DEF Promises, Remembers
  <2>2. rows[r].deal \in DealSet
    BY RowsTyped
  <2>3. CASE Kind = "head" /\ rows[r].deal = Deal /\ r = mem.head[Deal]
    BY <1>1, <2>3 DEF CreatedRun
  <2>4. CASE ~ (Kind = "head" /\ rows[r].deal = Deal /\ r = mem.head[Deal])
    <3>1. CASE r \in ToSet(mem.queue[rows[r].deal])
      BY <3>1
    <3>2. CASE r = mem.head[rows[r].deal] /\ Kind = "head"
      <4>1. rows[r].deal # Deal
        BY <2>4, <3>2
      <4> QED BY <1>1, <1>3, <1>4, <2>2, <3>2, <4>1
    <3>3. CASE r = mem.head[rows[r].deal] /\ Kind # "head"
      BY <1>4, <3>3
    <3> QED BY <2>1, <3>1, <3>2, <3>3
  <2> QED BY <2>3, <2>4
<1>7. BackfillIsLast(mem)'
  <2> SUFFICES ASSUME NEW r \in 1..Len(rows), r > since, rows[r].kind = "backfill", rows[r].status # "pending"
               PROVE  /\ r <= mem'.backfill[rows[r].deal]
                      /\ rows[r].status = "completed" \/ r = mem'.backfill[rows[r].deal]
    BY <1>1, <1>20 DEF BackfillIsLast
  <2>1. /\ r <= mem.backfill[rows[r].deal]
        /\ rows[r].status = "completed" \/ r = mem.backfill[rows[r].deal]
    BY DEF Promises, BackfillIsLast
  <2>2. rows[r].deal \in DealSet /\ Len(rows) \in Nat /\ r # 0
    BY RowsTyped
  <2>3. CASE Kind # "head" /\ rows[r].deal = Deal
    <3>1. mem'.backfill[Deal] = chosen /\ r <= chosen
      BY <1>1, <1>2, <1>3, <1>4, <2>2, <2>3
    <3>2. rows[r].status = "completed"
      BY <1>1, <1>2, <2>1, <2>2, <2>3 DEF CreatedRun, RunKinds
    <3> QED BY <2>3, <3>1, <3>2
  <2>4. CASE ~ (Kind # "head" /\ rows[r].deal = Deal)
    <3>1. mem'.backfill[rows[r].deal] = mem.backfill[rows[r].deal]
      BY <1>1, <1>3, <1>4, <2>2, <2>4
    <3> QED BY <2>1, <3>1
  <2> QED BY <2>3, <2>4
<1>8. Promises(mem)' /\ Promises(disk)'
  BY <1>1, <1>5, <1>6, <1>7 DEF Promises
<1>9. WatchTypeOK' /\ ResumableUnlessCompleted'
  BY <1>policy, <1>1, <1>4 DEF WatchTypeOK, ResumableUnlessCompleted
<1>10. Kind' = Kind /\ Deal' = Deal
  BY <1>1 DEF Kind, Deal
<1>11. RunInHand'
  BY <1>1, <1>2, <1>3, <1>4, <1>10, <1>20 DEF RunInHand, EnteredIn, RunKinds
<1>12. SavedWhileChoosing' /\ CreatedRun'
  BY <1>1 DEF SavedWhileChoosing, CreatedRun
<1> QED BY <1>policy, <1>8, <1>9, <1>11, <1>12

\* The leg begins on a run that both states have entered.
LEMMA LegBeginsKeeps ==
    ASSUME WatchInv, LegBegins
    PROVE  WatchInv'
<1>1. /\ mem \in State /\ disk \in State /\ wtime \in Nat /\ task # 0 /\ phase = "begin"
      /\ disk' = disk /\ mem' = mem /\ task' = task /\ chosen' = chosen /\ wtime' = wtime
      /\ phase' = "leg"
  BY DEF WatchTypeOK, LegBegins
<1>2. LegWrites("begun", TRUE)
  BY <1>1, BeginningWrites
<1>3. RowsFollow(mem) /\ RowsFollow(disk) /\ ResumableUnlessCompleted'
  BY <1>1, <1>2, LegFollows
<1>policy. /\ PolicySince' /\ since' \in Nat /\ since' >= since
           /\ policy' \in Policies /\ since' \in 0..Len(rows')
  <2>1. policy' = policy /\ since' = since
    BY Zenon DEF LegBegins, policyVars
  <2> QED BY <1>3, <2>1, PolicyStays
<1>4. wtime' \in Nat /\ wtime' >= wtime
  BY <1>1
<1>5. Promises(mem)'
  BY <1>1, <1>3, <1>4, <1>policy, PromisesKept
<1>6. Promises(disk)'
  BY <1>1, <1>3, <1>4, <1>policy, PromisesKept
<1>7. WatchTypeOK'
  BY <1>policy, <1>1, <1>2 DEF WatchTypeOK, LegWrites, Rows
<1>8. Kind' = Kind /\ Deal' = Deal
  BY <1>1 DEF Kind, Deal
<1>9. chosen \in 1..Len(rows) /\ rows[chosen].deal = Deal /\ rows[chosen].policy = policy
      /\ EnteredIn(disk) /\ EnteredIn(mem)
  BY <1>1 DEF RunInHand
<1>10. /\ chosen \in 1..Len(rows') /\ rows'[chosen].deal = Deal
       /\ rows'[chosen].kind = rows[chosen].kind /\ rows'[chosen].policy = policy'
       /\ rows'[chosen].resumable
  BY <1>2, <1>9 DEF LegWrites, LegBegins, policyVars
<1>11. RunInHand'
  BY <1>1, <1>8, <1>9, <1>10 DEF RunInHand, EnteredIn
<1>12. SavedWhileChoosing' /\ CreatedRun'
  BY <1>1 DEF SavedWhileChoosing, CreatedRun
<1> QED BY <1>policy, <1>3, <1>5, <1>6, <1>7, <1>11, <1>12

\* What both ways to end a leg have in common.
LEMMA LegEndKeeps ==
    ASSUME WatchInv, NEW end \in LegEnds, phase = "leg", rows' = Ended(end),
           mem' \in State, mem'.head = mem.head, mem'.backfill = mem.backfill,
           \A d \in DealSet :
             /\ ToSet(mem'.queue[d]) \subseteq ToSet(mem.queue[d])
             /\ \A r \in ToSet(mem.queue[d]) :
                  r \in ToSet(mem'.queue[d]) \/ (r = chosen /\ end = "completed"),
           disk' = mem', wtime' = wtime, policy' = policy, since' = since,
           task' \in 0..Len(CycleTasks), phase' = "choose", chosen' = 0
    PROVE  WatchInv'
<1>1. PICK status \in {"begun", "completed"} :
         LegWrites(status, end # "completed") /\ (status = "completed" <=> end = "completed")
  BY EndWrites
<1>2. RowsFollow(mem) /\ ResumableUnlessCompleted'
  BY <1>1, LegFollows
<1>policy. /\ PolicySince' /\ since' \in Nat /\ since' >= since
           /\ policy' \in Policies /\ since' \in 0..Len(rows')
  BY <1>2, PolicyStays
<1>3. mem \in State /\ wtime \in Nat
  BY DEF WatchTypeOK
<1>4. wtime' \in Nat /\ wtime' >= wtime
  BY <1>3
<1>5. \A d \in DealSet :
         /\ \A r \in ToSet(mem'.queue[d]) : r \in ToSet(mem.queue[d]) \/ (r # 0 /\ r = mem.head[d])
         /\ \A r \in ToSet(mem.queue[d]) :
              r \in ToSet(mem'.queue[d]) \/ ~rows'[r].resumable \/ Old(r)
  BY <1>1 DEF LegWrites
<1>6. Promises(mem)'
  BY <1>2, <1>3, <1>4, <1>5, <1>policy, PromisesKept
<1>7. Promises(disk)'
  BY <1>6
<1>8. WatchTypeOK'
  BY <1>1, <1>policy DEF WatchTypeOK, LegWrites, Rows
<1>9. SavedWhileChoosing' /\ CreatedRun' /\ RunInHand'
  BY DEF SavedWhileChoosing, CreatedRun, RunInHand
<1> QED BY <1>2, <1>policy, <1>6, <1>7, <1>8, <1>9

\* The leg is completed or its time is over.
LEMMA LegEndsWellKeeps ==
    ASSUME WatchInv, NEW end \in LegEnds, LegEndsWell(end)
    PROVE  WatchInv'
<1>1. /\ mem \in State /\ task # 0 /\ phase = "leg" /\ rows' = Ended(end)
      /\ mem' = Dequeued(end) /\ disk' = mem' /\ NextTask /\ wtime' = wtime
  BY DEF WatchTypeOK, LegEndsWell
<1>2. Deal \in DealSet
  BY <1>1, TaskAtWork
<1>3. /\ mem' \in State /\ mem'.head = mem.head /\ mem'.backfill = mem.backfill
      /\ \A d \in DealSet :
            /\ ToSet(mem'.queue[d]) \subseteq ToSet(mem.queue[d])
            /\ \A r \in ToSet(mem.queue[d]) :
                 r \in ToSet(mem'.queue[d]) \/ (r = chosen /\ end = "completed")
  BY <1>1, <1>2, DequeuedKeeps
<1>4. task' \in 0..Len(CycleTasks) /\ phase' = "choose" /\ chosen' = 0
  BY <1>1, NextTaskTyped
<1>policy. policy' = policy /\ since' = since
  BY Zenon DEF LegEndsWell, policyVars
<1> QED BY <1>1, <1>policy, <1>3, <1>4, LegEndKeeps

\* The source refused, limited the rate, or the leg failed.
LEMMA LegEndsBadlyKeeps ==
    ASSUME WatchInv, NEW end \in LegEnds, LegEndsBadly(end)
    PROVE  WatchInv'
<1>1. /\ mem \in State /\ wtime \in Nat /\ Pause \in Nat /\ mem.retry \in Nat
      /\ phase = "leg" /\ rows' = Ended(end) /\ disk' = mem' /\ wtime' = wtime
      /\ task' = 0 /\ phase' = "choose" /\ chosen' = 0
  <2>1. mem \in State /\ wtime \in Nat /\ Pause \in Nat
    BY WatchAssumption DEF WatchTypeOK
  <2>2. mem.retry \in Nat
    BY <2>1 DEF State
  <2>3. /\ phase = "leg" /\ rows' = Ended(end) /\ disk' = mem' /\ wtime' = wtime
        /\ task' = 0 /\ phase' = "choose" /\ chosen' = 0
    BY DEF LegEndsBadly
  <2> QED BY <2>1, <2>2, <2>3
<1> DEFINE t == IF end = "limited" THEN wtime + Pause ELSE mem.retry
<1>2. t \in Nat
  BY <1>1
<1>3. mem' = [mem EXCEPT !.retry = t]
  BY Zenon DEF LegEndsBadly
<1> HIDE DEF t
<1>4. /\ mem' \in State /\ mem'.head = mem.head /\ mem'.backfill = mem.backfill
      /\ mem'.queue = mem.queue
  <2> DEFINE new == [mem EXCEPT !.retry = t]
  <2>1. /\ new \in State /\ new.head = mem.head /\ new.backfill = mem.backfill
        /\ new.queue = mem.queue
    BY <1>1, <1>2, RetryChange, ZenonT(40)
  <2>2. mem' = new
    BY <1>3
  <2> HIDE DEF new
  <2> QED BY <2>1, <2>2
<1>5. task' \in 0..Len(CycleTasks)
  BY <1>1, TasksAreTyped
<1>policy. policy' = policy /\ since' = since
  BY Zenon DEF LegEndsBadly, policyVars
<1> QED BY <1>1, <1>policy, <1>4, <1>5, LegEndKeeps

\* A new process knows what the file says.
LEMMA WatchRestartKeeps ==
    ASSUME WatchInv, WatchRestart
    PROVE  WatchInv'
<1>1. /\ rows' = rows /\ disk' = disk /\ wtime' = wtime /\ mem' = disk
      /\ task' = 0 /\ phase' = "choose" /\ chosen' = 0 /\ disk \in State /\ wtime \in Nat
      /\ policy' \in Policies /\ since' = IF policy' = policy THEN since ELSE Len(rows)
  BY DEF WatchTypeOK, WatchRestart
<1>2. wtime' \in Nat /\ wtime' >= wtime
  BY <1>1
<1>policy. PolicySince' /\ since' \in Nat /\ since' >= since /\ since' \in 0..Len(rows)
  <2>1. Len(rows) \in Nat /\ since \in 0..Len(rows)
    BY LenProperties DEF WatchTypeOK
  <2> QED BY <1>1, <2>1 DEF PolicySince
<1>3. Promises(disk)'
  BY <1>1, <1>2, <1>policy, RowsStay, PromisesKept
<1>4. Promises(mem)'
  BY <1>1, <1>3
<1>5. WatchTypeOK' /\ ResumableUnlessCompleted'
  BY <1>1, <1>policy, TasksAreTyped DEF WatchTypeOK, ResumableUnlessCompleted
<1>6. SavedWhileChoosing' /\ CreatedRun' /\ RunInHand'
  BY <1>1 DEF SavedWhileChoosing, CreatedRun, RunInHand
<1> QED BY <1>policy, <1>3, <1>4, <1>5, <1>6

\* Time makes runs older, and nothing else.
LEMMA WatchTickKeeps ==
    ASSUME WatchInv, WatchTick
    PROVE  WatchInv'
<1>1. /\ rows' = rows /\ disk' = disk /\ mem' = mem /\ task' = task /\ phase' = phase
      /\ chosen' = chosen /\ policy' = policy /\ since' = since /\ mem \in State /\ disk \in State
  BY DEF WatchTypeOK, WatchTick, policyVars
<1>policy. /\ PolicySince' /\ since' \in Nat /\ since' >= since
           /\ policy' \in Policies /\ since' \in 0..Len(rows')
  <2>1. policy' = policy /\ since' = since
    BY Zenon DEF WatchTick, policyVars
  <2> QED BY <1>1, RowsStay, <2>1, PolicyStays
<1>2. wtime' \in 0..MaxWatchTime /\ wtime' \in Nat /\ wtime' >= wtime
  BY WatchAssumption DEF WatchTypeOK, WatchTick
<1>3. Promises(mem)'
  BY <1>1, <1>2, <1>policy, RowsStay, PromisesKept
<1>4. Promises(disk)'
  BY <1>1, <1>2, <1>policy, RowsStay, PromisesKept
<1>5. WatchTypeOK' /\ ResumableUnlessCompleted'
  BY <1>policy, <1>1, <1>2 DEF WatchTypeOK, ResumableUnlessCompleted
<1>6. Kind' = Kind /\ Deal' = Deal
  BY <1>1 DEF Kind, Deal
<1>7. SavedWhileChoosing' /\ CreatedRun' /\ RunInHand'
  BY <1>1, <1>6 DEF SavedWhileChoosing, CreatedRun, RunInHand, EnteredIn
<1> QED BY <1>policy, <1>3, <1>4, <1>5, <1>7

-----------------------------------------------------------------------------
(***************************************************************************)
(* The theorems.                                                           *)
(***************************************************************************)

\* At first there is no run and nothing to remember.
LEMMA WatchInvInit == WatchInit => WatchInv
<1> SUFFICES ASSUME WatchInit PROVE WatchInv
  OBVIOUS
<1>1. /\ rows = <<>> /\ Len(rows) = 0 /\ mem = disk /\ task = 0 /\ phase = "choose" /\ chosen = 0
      /\ wtime = 0 /\ disk.head = [d \in DealSet |-> 0] /\ disk.backfill = [d \in DealSet |-> 0]
      /\ disk.queue = [d \in DealSet |-> <<>>] /\ disk \in State
      /\ policy \in Policies /\ since = 0
  BY DEF WatchInit, State
<1>2. WatchTypeOK
  BY <1>1, TasksAreTyped, WatchAssumption DEF WatchTypeOK
<1>3. Promises(disk) /\ Promises(mem)
  BY <1>1 DEF Promises, RefersWell, Remembers, BackfillIsLast, ToSet
<1>4. PolicySince /\ ResumableUnlessCompleted /\ SavedWhileChoosing /\ CreatedRun /\ RunInHand
  BY <1>1 DEF PolicySince, ResumableUnlessCompleted, SavedWhileChoosing, CreatedRun, RunInHand
<1> QED BY <1>2, <1>3, <1>4

\* The inductive invariant of the watch: what the state file and the process know
\* of the runs, at each step of a cycle.
THEOREM WatchInvariance == WatchSpec => []WatchInv
<1>1. WatchInv /\ [WatchNext]_watchVars => WatchInv'
  <2> SUFFICES ASSUME WatchInv, [WatchNext]_watchVars PROVE WatchInv'
    OBVIOUS
  <2>1. CASE CycleStart
    BY <2>1, CycleStartKeeps
  <2>2. CASE ChooseHead
    BY <2>2, ChooseHeadKeeps
  <2>3. CASE ChooseBacklog
    BY <2>3, ChooseBacklogKeeps
  <2>4. CASE ChooseBackfill
    BY <2>4, ChooseBackfillKeeps
  <2>5. CASE SaveChosen
    BY <2>5, SaveChosenKeeps
  <2>6. CASE LegBegins
    BY <2>6, LegBeginsKeeps
  <2>7. ASSUME NEW end \in LegEnds, LegEndsWell(end) \/ LegEndsBadly(end)
        PROVE  WatchInv'
    BY <2>7, LegEndsWellKeeps, LegEndsBadlyKeeps
  <2>8. CASE WatchRestart
    BY <2>8, WatchRestartKeeps
  <2>9. CASE WatchTick
    BY <2>9, WatchTickKeeps
  <2>10. CASE UNCHANGED watchVars
    <3>1. /\ rows' = rows /\ disk' = disk /\ mem' = mem /\ task' = task /\ phase' = phase
          /\ chosen' = chosen /\ wtime' = wtime /\ policy' = policy /\ since' = since
      BY <2>10 DEF watchVars, policyVars
    <3>2. WatchTypeOK'
      BY <3>1 DEF WatchTypeOK
    <3>3. Promises(disk)' /\ Promises(mem)'
      BY <3>1 DEF Promises, RefersWell, Remembers, BackfillIsLast, Old
    <3>4. PolicySince' /\ ResumableUnlessCompleted' /\ SavedWhileChoosing'
      BY <3>1 DEF PolicySince, ResumableUnlessCompleted, SavedWhileChoosing
    <3>5. CreatedRun' /\ RunInHand'
      BY <3>1 DEF CreatedRun, RunInHand, EnteredIn, Kind, Deal
    <3> QED BY <3>2, <3>3, <3>4, <3>5
  <2> QED BY <2>1, <2>2, <2>3, <2>4, <2>5, <2>6, <2>7, <2>8, <2>9, <2>10 DEF WatchNext
<1> QED BY <1>1, WatchInvInit, PTL DEF WatchSpec

\* The rows, both states and the place in the cycle keep their types.
THEOREM WatchTypeCorrect == WatchSpec => []WatchTypeOK
<1>1. WatchInv => WatchTypeOK
  OBVIOUS
<1> QED BY <1>1, WatchInvariance, PTL

\* No cycle, refusal, pause, death or restart with the same policy makes the watch
\* forget a head run that has begun under this policy, is unfinished and younger
\* than a day (_remember_head, _next_pending_head).
THEOREM HeadsAreRemembered == WatchSpec => []NoHeadForgotten
<1>1. WatchInv => NoHeadForgotten
  <2> SUFFICES ASSUME WatchInv, NEW r \in since + 1..Len(rows),
                      rows[r].kind = "head", rows[r].status # "pending", rows[r].resumable, ~Old(r)
               PROVE  r = disk.head[rows[r].deal] \/ r \in ToSet(disk.queue[rows[r].deal])
    BY DEF NoHeadForgotten
  <2>1. r \in 1..Len(rows) /\ r > since
    BY LenProperties DEF WatchTypeOK
  <2> QED BY <2>1 DEF Promises, Remembers
<1> QED BY <1>1, WatchInvariance, PTL

\* While the policy stays the same, a backfill begins only when those of its deal
\* that began before it have reached the end of the source (_execute).
THEOREM BackfillsTakeTurns == WatchSpec => []BackfillsInTurn
<1>1. WatchInv => BackfillsInTurn
  <2> SUFFICES ASSUME WatchInv, NEW r \in since + 1..Len(rows), NEW s \in since + 1..Len(rows),
                      r < s, rows[r].deal = rows[s].deal,
                      rows[r].kind = "backfill", rows[s].kind = "backfill",
                      rows[r].status # "pending", rows[s].status # "pending"
               PROVE  rows[r].status = "completed"
    BY DEF BackfillsInTurn
  <2>0. /\ r \in 1..Len(rows) /\ r > since /\ s \in 1..Len(rows) /\ s > since
    BY LenProperties DEF WatchTypeOK
  <2>1. Len(rows) \in Nat /\ rows[s].deal \in DealSet /\ disk \in State
    BY <2>0, RowsTyped DEF WatchTypeOK
  <2>2. disk.backfill[rows[s].deal] \in Ids \cup {0}
    BY <2>1 DEF State
  <2>3. disk.backfill[rows[s].deal] \in Int
    BY <2>2, WatchAssumption DEF Ids
  <2>4. /\ s <= disk.backfill[rows[s].deal]
        /\ rows[r].status = "completed" \/ r = disk.backfill[rows[s].deal]
    BY <2>0 DEF Promises, BackfillIsLast
  <2> QED BY <2>0, <2>3, <2>4
<1> QED BY <1>1, WatchInvariance, PTL

\* Whatever the state file of a former process says, a run is worked on only when
\* its filters are those of the policy now in force (_matches_policy).
THEOREM ChosenRunIsOwn == WatchSpec => []OwnFiltersOnly
<1>1. WatchInv => OwnFiltersOnly
  BY DEF RunInHand, OwnFiltersOnly
<1> QED BY <1>1, WatchInvariance, PTL
=============================================================================
