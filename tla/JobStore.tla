------------------------------ MODULE JobStore ------------------------------
(***************************************************************************)
(* The Store of package queue: where the jobs of every instance of the app *)
(* are kept.  Each operator below is one call of the store, atomic as it   *)
(* is under queuetest.Memory's mutex and, in SQLite, in its one writing    *)
(* statement.  The state is that of queuetest.Memory, whose rows are those *)
(* of the starter's jobs, schedules and held_kinds tables.                 *)
(*                                                                         *)
(* Times are natural numbers; 0 is the zero time.  A job's payload is one  *)
(* of Keys, as a unique kind's key is its payload's hash.                  *)
(***************************************************************************)
EXTENDS Integers, FiniteSets

CONSTANTS
    Kinds,            \* the kinds of job, as given to Handle
    Keys,             \* the payloads, and the keys of the unique kinds
    NoKey,            \* the key "" of a job that has none
    UniqueKinds,      \* the kinds with Unique
    LatestKinds,      \* the unique kinds with Latest
    OneAtATimeKinds,  \* the unique kinds with OneAtATime
    AtOnce,           \* AtOnce[k]: the most jobs of k that run at once, 0 for no limit
    ScheduledKinds,   \* the kinds with a Schedule
    MaxJobs           \* bound: how many jobs are ever pushed

ASSUME StoreAssumption ==
    /\ NoKey \notin Keys
    /\ UniqueKinds \subseteq Kinds
    /\ LatestKinds \subseteq UniqueKinds
    /\ OneAtATimeKinds \subseteq UniqueKinds
    /\ AtOnce \in [Kinds -> Nat]
    /\ ScheduledKinds \subseteq Kinds
    /\ MaxJobs \in Nat

VARIABLES
    jobs,       \* jobs[id]: every job pushed, "gone" once Done deleted its row
    last,       \* the latest id given out
    schedules,  \* schedules[k]: the run of k's schedule pushed last
    heldKinds   \* heldKinds[k]: until when k's rate holds its jobs back

storeVars == <<jobs, last, schedules, heldKinds>>

Job == [st : {"kept", "failed", "gone"}, kind : Kinds, value : Keys,
        key : Keys \cup {NoKey}, runAt : Nat, attempts : Nat, heldUntil : Nat]

StoreTypeOK ==
    /\ last \in 0..MaxJobs
    /\ jobs \in [1..last -> Job]
    /\ schedules \in [ScheduledKinds -> Nat]
    /\ heldKinds \in [Kinds -> Nat]
    \* A job that's held has been claimed, which counts an attempt.
    /\ \A i \in 1..last : jobs[i].heldUntil > 0 => jobs[i].st = "kept" /\ jobs[i].attempts > 0

StoreInit ==
    /\ last = 0
    /\ jobs = [i \in 1..0 |-> <<>>]
    /\ schedules = [k \in ScheduledKinds |-> 0]
    /\ heldKinds = [k \in Kinds |-> 0]

-----------------------------------------------------------------------------
(* Pushes.                                                                 *)

KeyOf(k, v) == IF k \in UniqueKinds THEN v ELSE NoKey

NewJob(k, v, at) ==
    [st |-> "kept", kind |-> k, value |-> v, key |-> KeyOf(k, v),
     runAt |-> at, attempts |-> 0, heldUntil |-> 0]

\* A job of kind k waits with the key, which a claim lets go.
Waiting(k, key) ==
    key # NoKey /\ \E i \in 1..last : jobs[i].kind = k /\ jobs[i].key = key

push(k, v, at) ==
    /\ last < MaxJobs
    /\ last' = last + 1
    /\ jobs' = [i \in 1..(last + 1) |-> IF i <= last THEN jobs[i] ELSE NewJob(k, v, at)]

PushUnique(k, v, at) ==
    IF Waiting(k, KeyOf(k, v)) THEN UNCHANGED <<jobs, last>> ELSE push(k, v, at)

\* The job that waits takes the push's time, in place of its own.
PushLatest(k, v, at) ==
    IF Waiting(k, KeyOf(k, v))
    THEN /\ jobs' = [i \in 1..last |->
                       IF jobs[i].kind = k /\ jobs[i].key = KeyOf(k, v)
                       THEN [jobs[i] EXCEPT !.runAt = at] ELSE jobs[i]]
         /\ UNCHANGED last
    ELSE push(k, v, at)

PushScheduledAgain(k, v, at) ==  \* mutant: a run already pushed isn't refused
    /\ schedules' = [schedules EXCEPT ![k] = at]
    /\ PushUnique(k, v, at)

\* One push of each run wins: a run pushed already, or passed, is refused.
PushScheduled(k, v, at) ==
    IF schedules[k] >= at
    THEN UNCHANGED <<jobs, last, schedules>>
    ELSE /\ schedules' = [schedules EXCEPT ![k] = at]
         /\ PushUnique(k, v, at)

-----------------------------------------------------------------------------
(* Claims.                                                                 *)

AloneKey(j) == IF j.kind \in OneAtATimeKinds THEN j.value ELSE NoKey

HeldJobs(k, now) == {i \in 1..last : jobs[i].kind = k /\ jobs[i].heldUntil > now}

NeverRunning(i, now) == FALSE  \* mutant: OneAtATime isn't looked at

\* A claim holds another job of i's kind and OneAtATime key.
Running(i, now) ==
    /\ AloneKey(jobs[i]) # NoKey
    /\ \E o \in HeldJobs(jobs[i].kind, now) \ {i} : AloneKey(jobs[o]) = AloneKey(jobs[i])

OverLimit(i, now) ==  \* mutant: one more than AtOnce gets a claim
    /\ AtOnce[jobs[i].kind] # 0
    /\ Cardinality(HeldJobs(jobs[i].kind, now)) > AtOnce[jobs[i].kind]

\* Claims hold as many jobs of i's kind as its AtOnce allows.
AtLimit(i, now) ==
    /\ AtOnce[jobs[i].kind] # 0
    /\ Cardinality(HeldJobs(jobs[i].kind, now)) >= AtOnce[jobs[i].kind]

Claimable(i, now) ==
    /\ jobs[i].st = "kept"
    /\ jobs[i].runAt <= now
    /\ jobs[i].heldUntil <= now
    /\ heldKinds[jobs[i].kind] <= now
    /\ ~Running(i, now)
    /\ ~AtLimit(i, now)

\* The job due soonest, the one pushed first of those due at once.
NextDue(i, now) ==
    /\ Claimable(i, now)
    /\ \A o \in 1..last :
         Claimable(o, now) =>
            jobs[i].runAt < jobs[o].runAt \/ (jobs[i].runAt = jobs[o].runAt /\ i <= o)

HoldKeepingKey(i, until) ==  \* mutant: the claim keeps the job's key
    jobs' = [jobs EXCEPT ![i].heldUntil = until, ![i].attempts = @ + 1]

\* What a claim does to the job it returns: it holds it, counts the attempt,
\* and lets its key go.
Hold(i, until) ==
    jobs' = [jobs EXCEPT ![i].heldUntil = until, ![i].attempts = @ + 1, ![i].key = NoKey]

-----------------------------------------------------------------------------
(* What a claim says of its job, once its run has ended.  A claim c is a   *)
(* record with the id and attempts of the job it returned.                 *)

AnyClaim(c) == TRUE  \* mutant: the job isn't checked to be the claim's still

\* c's job is as its claim left it: no later claim has taken it.
ClaimedBy(c) ==
    /\ jobs[c.id].st = "kept"
    /\ jobs[c.id].attempts = c.attempts

\* A deleted row says nothing but that its id was given out.
Deleted(j) == [j EXCEPT !.st = "gone", !.key = NoKey, !.runAt = 0,
                        !.attempts = 0, !.heldUntil = 0]

Done(c) ==
    jobs' = IF ClaimedBy(c) THEN [jobs EXCEPT ![c.id] = Deleted(@)] ELSE jobs

Retry(c, at) ==
    jobs' = IF ClaimedBy(c)
            THEN [jobs EXCEPT ![c.id].runAt = at, ![c.id].heldUntil = 0]
            ELSE jobs

FailLeavingHold(c) ==  \* mutant: the job isn't marked as failed
    jobs' = jobs

Fail(c) ==
    jobs' = IF ClaimedBy(c)
            THEN [jobs EXCEPT ![c.id].st = "failed", ![c.id].heldUntil = 0]
            ELSE jobs

PutBackWithKey(j) ==  \* mutant: the key is restored though another job waits with it
    [j EXCEPT !.attempts = @ - 1, !.heldUntil = 0, !.key = KeyOf(j.kind, j.value)]

PutBackHeld(j) == [j EXCEPT !.attempts = @ - 1]  \* mutant: the job stays held

\* The job as it was before its claim, with its key unless another has it.
PutBack(j) ==
    [j EXCEPT !.attempts = @ - 1, !.heldUntil = 0,
              !.key = IF Waiting(j.kind, KeyOf(j.kind, j.value)) THEN @
                      ELSE KeyOf(j.kind, j.value)]

\* Until when no job of kind k is claimed, anywhere.
HoldKind(k, until) ==
    heldKinds' = [heldKinds EXCEPT ![k] = IF until > @ THEN until ELSE @]

GiveBack(c) ==
    jobs' = IF ClaimedBy(c) THEN [jobs EXCEPT ![c.id] = PutBack(@)] ELSE jobs

HoldBack(c, until) == HoldKind(jobs[c.id].kind, until) /\ GiveBack(c)

-----------------------------------------------------------------------------
(* What the starter's jobs command and its nightly prune do.               *)

RunAgain(i, at) ==
    /\ jobs[i].st = "failed"
    /\ jobs' = [jobs EXCEPT ![i].st = "kept", ![i].attempts = 0,
                             ![i].runAt = at, ![i].heldUntil = 0]
=============================================================================
