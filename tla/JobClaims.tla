----------------------------- MODULE JobClaims -----------------------------
(***************************************************************************)
(* What a Store promises of its claims, whichever database it's in: each   *)
(* happens at one moment, though many are asked for at once.  It takes a   *)
(* job that's due by the claim's clock, held by no claim, and within what  *)
(* OneAtATime and AtOnce allow, at that moment.  Which of the due jobs it  *)
(* takes is open, as a claim may pass over those that others are taking,   *)
(* and so is a kind's rate, which may be held back as a claim is made: the *)
(* job it took is then refused, and goes back.                             *)
(***************************************************************************)
EXTENDS JobStore

CONSTANTS
    HoldFor,  \* how long a claim holds a job
    MaxTime   \* bound: the clock stops there

ASSUME ClaimsAssumption == HoldFor \in Nat \ {0} /\ MaxTime \in Nat

VARIABLES
    clock,  \* the instances' clock
    given   \* the claims returned to a worker, which hasn't said how its job went

claimVars == <<storeVars, clock, given>>

\* A claim that was returned, and whether the kind's rate refused its job.
Claims == [id : 1..MaxJobs, attempts : Nat, refused : BOOLEAN]

Init ==
    /\ StoreInit
    /\ clock = 0
    /\ given = {}

Tick ==
    /\ clock < MaxTime
    /\ clock' = clock + 1
    /\ UNCHANGED <<storeVars, given>>

\* Job i itself is due at now, and no claim holds it.
Due(i, now) == jobs[i].st = "kept" /\ jobs[i].runAt <= now /\ jobs[i].heldUntil <= now

ClaimOf(i) == [id |-> i, attempts |-> jobs[i].attempts + 1, refused |-> FALSE]

\* The claim of job i by a clock read at now, whose answer may be lost.
Take(i, now) ==
    /\ now <= clock
    /\ Due(i, now) /\ ~Running(i, now) /\ ~AtLimit(i, now)
    /\ Hold(i, now + HoldFor)
    /\ given' \in {given, given \cup {ClaimOf(i)}}
    /\ UNCHANGED <<last, schedules, heldKinds, clock>>

\* A worker says how the job of claim c went: a retry is for a later time.
Report(c) ==
    /\ ~c.refused
    /\ Done(c) \/ Retry(c, clock + 1) \/ Fail(c)
    /\ given' = given \ {c}
    /\ UNCHANGED <<last, schedules, heldKinds, clock>>

\* HoldBack, when the kind's rate refuses c's job: its kind is held, and then the job
\* goes back, unless its worker is gone, or the store fails, before it does.
Refuse(c) ==
    /\ ~c.refused
    /\ HoldKind(jobs[c.id].kind, clock + 1)
    /\ given' = (given \ {c}) \cup {[c EXCEPT !.refused = TRUE]}
    /\ UNCHANGED <<jobs, last, schedules, clock>>

GoBack(c) ==
    /\ c.refused
    /\ GiveBack(c)
    /\ given' = given \ {c}
    /\ UNCHANGED <<last, schedules, heldKinds, clock>>

Pushed(k, v) ==
    /\ \/ k \in LatestKinds /\ PushLatest(k, v, clock)
       \/ k \in UniqueKinds \ LatestKinds /\ PushUnique(k, v, clock)
       \/ k \notin UniqueKinds /\ push(k, v, clock)
    /\ UNCHANGED <<schedules, heldKinds, clock, given>>

Next ==
    \/ Tick
    \/ \E i \in 1..last, now \in 0..MaxTime : Take(i, now)
    \/ \E c \in given : Report(c) \/ Refuse(c) \/ GoBack(c)
    \/ \E k \in Kinds, v \in Keys : Pushed(k, v)

Spec == Init /\ [][Next]_claimVars
=============================================================================
