--------------------------- MODULE JobStoreProofs ---------------------------
(***************************************************************************)
(* What is proved of the calls of JobStore, for every specification that   *)
(* makes them.                                                             *)
(***************************************************************************)
EXTENDS JobStore, TLAPS

-----------------------------------------------------------------------------
(* The rows of the store, whatever call is made.                           *)

Rows ==
    /\ last \in 0..MaxJobs
    /\ jobs \in [1..last -> Job]
    /\ \A i \in 1..last : jobs[i].heldUntil > 0 => jobs[i].st = "kept" /\ jobs[i].attempts > 0

\* Every call that pushes leaves rows: push, and the calls made of it.
LEMMA PushRows ==
    ASSUME Rows, NEW k \in Kinds, NEW v \in Keys, NEW at \in Nat, push(k, v, at)
    PROVE  Rows'
<1> USE StoreAssumption DEF StoreAssumption
<1>1. NewJob(k, v, at) \in Job
  BY DEF NewJob, Job, KeyOf
<1>2. last' \in 0..MaxJobs /\ last \in Nat /\ last' = last + 1
  BY DEF push, Rows
<1>3. jobs' \in [1..last' -> Job]
  BY <1>1, <1>2 DEF push, Rows
<1>4. ASSUME NEW i \in 1..last', jobs'[i].heldUntil > 0
      PROVE  jobs'[i].st = "kept" /\ jobs'[i].attempts > 0
  BY <1>2, <1>4 DEF push, Rows, NewJob
<1> QED
  BY <1>2, <1>3, <1>4 DEF Rows

LEMMA PushUniqueRows ==
    ASSUME Rows, NEW k \in Kinds, NEW v \in Keys, NEW at \in Nat, PushUnique(k, v, at)
    PROVE  Rows'
BY PushRows DEF PushUnique, Rows

LEMMA PushLatestRows ==
    ASSUME Rows, NEW k \in Kinds, NEW v \in Keys, NEW at \in Nat, PushLatest(k, v, at)
    PROVE  Rows'
<1>1. CASE Waiting(k, KeyOf(k, v))
  <2>1. last' = last /\ \A i \in 1..last : [jobs[i] EXCEPT !.runAt = at] \in Job
    BY <1>1 DEF PushLatest, Rows, Job
  <2>2. jobs' \in [1..last -> Job]
    BY <1>1, <2>1 DEF PushLatest, Rows
  <2>3. ASSUME NEW i \in 1..last
        PROVE  /\ jobs'[i].heldUntil = jobs[i].heldUntil
               /\ jobs'[i].st = jobs[i].st
               /\ jobs'[i].attempts = jobs[i].attempts
    BY <1>1 DEF PushLatest, Rows, Job
  <2> QED
    BY <2>1, <2>2, <2>3 DEF Rows
<1>2. CASE ~Waiting(k, KeyOf(k, v))
  BY <1>2, PushRows DEF PushLatest
<1> QED
  BY <1>1, <1>2

LEMMA PushScheduledRows ==
    ASSUME Rows, NEW k \in Kinds, NEW v \in Keys, NEW at \in Nat, PushScheduled(k, v, at)
    PROVE  Rows'
BY PushUniqueRows DEF PushScheduled, Rows

LEMMA HoldRows ==
    ASSUME Rows, NEW i \in 1..last, NEW until \in Nat, jobs[i].st = "kept",
           UNCHANGED last, Hold(i, until)
    PROVE  Rows'
<1>1. jobs[i] \in Job /\ jobs[i].attempts \in Nat
  BY DEF Rows, Job
<1>2. jobs' \in [1..last -> Job]
  BY <1>1 DEF Hold, Rows, Job
<1>3. jobs'[i].st = "kept" /\ jobs'[i].attempts > 0
  BY <1>1 DEF Hold, Rows, Job
<1>4. \A o \in 1..last : o # i => jobs'[o] = jobs[o]
  BY DEF Hold, Rows
<1> QED
  BY <1>2, <1>3, <1>4 DEF Rows

\* So do the calls that end a claim, whether the row is still the claim's.
LEMMA TellsRows ==
    ASSUME Rows, NEW c, c.id \in 1..last, NEW at \in Nat, UNCHANGED last,
           Done(c) \/ Retry(c, at) \/ Fail(c)
    PROVE  Rows'
<1>1. jobs[c.id] \in Job
  BY DEF Rows
<1>2. CASE UNCHANGED jobs
  BY <1>2 DEF Rows
<1>3. CASE jobs' = [jobs EXCEPT ![c.id] = Deleted(@)]
  <2>1. Deleted(jobs[c.id]) \in Job /\ Deleted(jobs[c.id]).heldUntil = 0
    BY <1>1 DEF Deleted, Job
  <2> QED
    BY <1>3, <2>1 DEF Rows
<1>4. CASE jobs' = [jobs EXCEPT ![c.id].runAt = at, ![c.id].heldUntil = 0]
  <2>1. jobs' \in [1..last -> Job]
    BY <1>4, <1>1 DEF Rows, Job
  <2>2. jobs'[c.id].heldUntil = 0
    BY <1>4, <1>1 DEF Rows, Job
  <2>3. \A o \in 1..last : o # c.id => jobs'[o] = jobs[o]
    BY <1>4 DEF Rows
  <2> QED
    BY <2>1, <2>2, <2>3 DEF Rows
<1>5. CASE jobs' = [jobs EXCEPT ![c.id].st = "failed", ![c.id].heldUntil = 0]
  <2>1. jobs' \in [1..last -> Job]
    BY <1>5, <1>1 DEF Rows, Job
  <2>2. jobs'[c.id].heldUntil = 0
    BY <1>5, <1>1 DEF Rows, Job
  <2>3. \A o \in 1..last : o # c.id => jobs'[o] = jobs[o]
    BY <1>5 DEF Rows
  <2> QED
    BY <2>1, <2>2, <2>3 DEF Rows
<1> QED
  BY <1>2, <1>3, <1>4, <1>5 DEF Done, Retry, Fail

LEMMA GiveBackRows ==
    ASSUME Rows, NEW c, c.id \in 1..last, c.attempts \in Nat \ {0},
           UNCHANGED last, GiveBack(c)
    PROVE  Rows'
<1>1. jobs[c.id] \in Job
  BY DEF Rows
<1>2. CASE ~ClaimedBy(c)
  BY <1>2 DEF GiveBack, Rows
<1>3. CASE ClaimedBy(c)
  <2> DEFINE j == jobs[c.id]
  <2>1. j.attempts - 1 \in Nat
    BY <1>1, <1>3 DEF ClaimedBy, Job
  <2>2. KeyOf(j.kind, j.value) \in Keys \cup {NoKey}
    BY <1>1 DEF KeyOf, Job
  <2>3. PutBack(j) \in Job /\ PutBack(j).heldUntil = 0
    BY <1>1, <2>1, <2>2 DEF PutBack, Job
  <2>4. jobs' = [jobs EXCEPT ![c.id] = PutBack(@)]
    BY <1>3 DEF GiveBack
  <2> QED
    BY <2>3, <2>4 DEF Rows
<1> QED
  BY <1>2, <1>3

-----------------------------------------------------------------------------
(* Which rows are held, after each call but a claim: no more than before.  *)

NoNewHolds ==
    /\ last <= last'
    /\ \A i \in 1..last : /\ jobs'[i].kind = jobs[i].kind
                          /\ jobs'[i].value = jobs[i].value
                          /\ jobs'[i].heldUntil <= jobs[i].heldUntil
    /\ \A i \in 1..last' : i \notin 1..last => jobs'[i].heldUntil = 0

LEMMA SameHolds ==
    ASSUME Rows, UNCHANGED <<jobs, last>>
    PROVE  NoNewHolds
BY DEF NoNewHolds, Rows, Job

LEMMA PushHolds ==
    ASSUME Rows, NEW k \in Kinds, NEW v \in Keys, NEW at \in Nat,
           push(k, v, at) \/ PushUnique(k, v, at) \/ PushLatest(k, v, at)
    PROVE  NoNewHolds
<1>1. CASE push(k, v, at)
  <2>1. last \in Nat /\ last' = last + 1 /\ \A i \in 1..last : jobs[i].heldUntil \in Nat
    BY <1>1 DEF push, Rows, Job
  <2>2. \A i \in 1..last : jobs'[i] = jobs[i]
    BY <1>1, <2>1 DEF push
  <2>3. \A i \in 1..last' : i \notin 1..last => jobs'[i] = NewJob(k, v, at)
    BY <1>1, <2>1 DEF push
  <2> QED
    BY <2>1, <2>2, <2>3 DEF NoNewHolds, NewJob
<1>2. CASE UNCHANGED <<jobs, last>>
  BY <1>2, SameHolds
<1>3. CASE /\ UNCHANGED last
           /\ jobs' = [i \in 1..last |->
                        IF jobs[i].kind = k /\ jobs[i].key = KeyOf(k, v)
                        THEN [jobs[i] EXCEPT !.runAt = at] ELSE jobs[i]]
  BY <1>3 DEF NoNewHolds, Rows, Job
<1> QED
  BY <1>1, <1>2, <1>3 DEF PushUnique, PushLatest

LEMMA TellsHolds ==
    ASSUME Rows, NEW c, c.id \in 1..last, NEW at \in Nat, UNCHANGED last,
           Done(c) \/ Retry(c, at) \/ Fail(c)
    PROVE  NoNewHolds /\ \A i \in 1..last : i # c.id => jobs'[i] = jobs[i]
<1>1. jobs \in [1..last -> Job] /\ jobs[c.id] \in Job /\ jobs[c.id].heldUntil \in Nat /\ last \in Nat
  BY DEF Rows, Job
<1>2. CASE UNCHANGED jobs
  BY <1>2, SameHolds
<1>3. ASSUME NEW j \in Job, j.kind = jobs[c.id].kind, j.value = jobs[c.id].value,
             j.heldUntil = 0, jobs' = [jobs EXCEPT ![c.id] = j]
      PROVE  NoNewHolds /\ \A i \in 1..last : i # c.id => jobs'[i] = jobs[i]
  <2>1. jobs'[c.id] = j /\ \A i \in 1..last : i # c.id => jobs'[i] = jobs[i]
    BY <1>1, <1>3
  <2>2. \A i \in 1..last : jobs[i].heldUntil \in Nat
    BY <1>1 DEF Job
  <2> QED
    BY <1>1, <1>3, <2>1, <2>2 DEF NoNewHolds
<1>4. CASE jobs' = [jobs EXCEPT ![c.id] = Deleted(@)]
  <2> DEFINE j == Deleted(jobs[c.id])
  <2>1. j \in Job /\ j.kind = jobs[c.id].kind /\ j.value = jobs[c.id].value /\ j.heldUntil = 0
    BY <1>1 DEF Deleted, Job
  <2>2. jobs' = [jobs EXCEPT ![c.id] = j]
    BY <1>4
  <2> HIDE DEF j
  <2> QED
    BY <1>3, <2>1, <2>2
<1>5. CASE jobs' = [jobs EXCEPT ![c.id].runAt = at, ![c.id].heldUntil = 0]
  <2> DEFINE j == [jobs[c.id] EXCEPT !.runAt = at, !.heldUntil = 0]
  <2>1. j \in Job /\ j.kind = jobs[c.id].kind /\ j.value = jobs[c.id].value /\ j.heldUntil = 0
    BY <1>1 DEF Job
  <2>2. jobs' = [jobs EXCEPT ![c.id] = j]
    BY <1>1, <1>5
  <2> HIDE DEF j
  <2> QED
    BY <1>3, <2>1, <2>2
<1>6. CASE jobs' = [jobs EXCEPT ![c.id].st = "failed", ![c.id].heldUntil = 0]
  <2> DEFINE j == [jobs[c.id] EXCEPT !.st = "failed", !.heldUntil = 0]
  <2>1. j \in Job /\ j.kind = jobs[c.id].kind /\ j.value = jobs[c.id].value /\ j.heldUntil = 0
    BY <1>1 DEF Job
  <2>2. jobs' = [jobs EXCEPT ![c.id] = j]
    BY <1>1, <1>6
  <2> HIDE DEF j
  <2> QED
    BY <1>3, <2>1, <2>2
<1> QED
  BY <1>2, <1>4, <1>5, <1>6 DEF Done, Retry, Fail

LEMMA GiveBackHolds ==
    ASSUME Rows, NEW c, c.id \in 1..last, c.attempts \in Nat \ {0},
           UNCHANGED last, GiveBack(c)
    PROVE  NoNewHolds /\ \A i \in 1..last : i # c.id => jobs'[i] = jobs[i]
<1>1. jobs \in [1..last -> Job] /\ jobs[c.id] \in Job /\ jobs[c.id].heldUntil \in Nat
  BY DEF Rows, Job
<1>2. CASE ~ClaimedBy(c)
  BY <1>2, SameHolds DEF GiveBack
<1>3. CASE ClaimedBy(c)
  <2> DEFINE j == PutBack(jobs[c.id])
  <2>1. j.kind = jobs[c.id].kind /\ j.value = jobs[c.id].value /\ j.heldUntil = 0
    BY <1>1 DEF PutBack, Job
  <2>2. jobs' = [jobs EXCEPT ![c.id] = j]
    BY <1>3 DEF GiveBack
  <2> HIDE DEF j
  <2>3. jobs'[c.id] = j /\ \A i \in 1..last : i # c.id => jobs'[i] = jobs[i]
    BY <1>1, <2>2
  <2>4. \A i \in 1..last : jobs[i].heldUntil \in Nat
    BY <1>1 DEF Job
  <2>5. last \in Nat
    BY DEF Rows
  <2> QED
    BY <1>1, <2>1, <2>3, <2>4, <2>5 DEF NoNewHolds
<1> QED
  BY <1>2, <1>3
=============================================================================
