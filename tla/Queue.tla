-------------------------------- MODULE Queue --------------------------------
(***************************************************************************)
(* Package queue's Queue: the instances of an app, each with the loop of   *)
(* Run, or of Drain, and the workers it starts, on one JobStore they share.*)
(*                                                                         *)
(* An instance's process may die at any step, as may a call of the store,  *)
(* before it has its effect or after it.  The clock is the instances' own, *)
(* which agree; it goes on between any two steps, so a time read before a  *)
(* call of the store may have passed by the time the store answers.        *)
(***************************************************************************)
EXTENDS JobStore

CONSTANTS
    Instances,   \* the instances of the app
    Drainers,    \* those that Drain the queue, rather than Run it
    Slots,       \* Config.Workers: how many jobs an instance runs at once
    Knows,       \* Knows[i]: the kinds i has a handler for
    RatedKinds,  \* the kinds with a Rate
    AppJobs,     \* bound: the app pushes while fewer jobs than this were pushed
    Attempts,    \* the attempts a job has, its kind's or defaultAttempts
    HoldFor,     \* hold(): how long a claim holds a job
    Period,      \* the period of the schedules, as Every has one
    ScheduleValue, \* the value the schedules' runs are pushed with
    Backoffs,    \* what a kind's Backoff may return
    InWakes,     \* whether an app that pushes In a transaction calls Wake: TRUE, FALSE, or both
    Ahead,       \* how far ahead of the clock PushAt may push, 0 for at once
    Waits,       \* what a limiter's Try may return for a job it refuses
    Faults,      \* whether calls of the store may fail
    Hangs,       \* whether a handler may never return
    TrackedKinds,\* the kinds whose pushes the history follows
    MaxTime,     \* bound: the clock stops there
    MaxEnds,     \* bound: how many times an instance is stopped or killed
    FaultsUntil  \* bound: no stop or kill, and no handler that hangs, is later than this

ASSUME QueueAssumption ==
    /\ Drainers \subseteq Instances
    /\ Slots \in Nat \ {0}
    /\ Knows \in [Instances -> SUBSET Kinds]
    /\ RatedKinds \subseteq Kinds /\ TrackedKinds \subseteq Kinds
    /\ Attempts \in Nat \ {0} /\ AppJobs \in Nat
    /\ HoldFor \in Nat \ {0}
    /\ Period \in Nat \ {0} /\ ScheduleValue \in Keys
    /\ Backoffs \subseteq Nat /\ Ahead \subseteq Nat /\ Waits \subseteq Nat \ {0}
    /\ Faults \in BOOLEAN /\ InWakes \subseteq BOOLEAN /\ Hangs \in BOOLEAN
    /\ MaxTime \in Nat /\ MaxEnds \in Nat /\ FaultsUntil \in Nat

VARIABLES
    clock,    \* now, as every instance's now() reads it
    loop,     \* loop[i]: where i's Run or Drain is, and what it has read
    told,     \* told[i]: Run's ctx is done, i has been told to stop
    ends,     \* how many stops and kills there have been
    wake,     \* wake[i]: the wake channel has a token
    pushed,   \* pushed[i][k]: the run of k's schedule i pushed last
    work,     \* work[w]: what a worker runs, the claim it has and how it went
    owed,     \* history: the values pushed that no later run has succeeded with
    covers    \* history: the workers whose handlers began after their value's latest push

runVars == <<loop, told, wake, pushed>>
env == <<clock, ends>>
history == <<owed, covers>>
vars == <<storeVars, env, runVars, work, history>>

Worker == Instances \X (1..Slots)

LoopPc == {"off", "push", "slot", "claim", "draining", "idle", "grace", "letgo", "returned"}
WorkPc == {"free", "rate", "run", "report", "onfail", "hung"}
Verdict == {"none", "done", "stop", "retry", "fail"}

Loop == [pc : LoopPc, now : Nat, todo : SUBSET ScheduledKinds]
Work == [pc : WorkPc, id : Nat, attempts : Nat, until : Nat, verdict : Verdict, at : Nat]

Free == [pc |-> "free", id |-> 0, attempts |-> 0, until |-> 0, verdict |-> "none", at |-> 0]

Busy(w) == work[w].pc # "free"
IdleWorkers(i) == \A s \in 1..Slots : ~Busy(<<i, s>>)

TypeOK ==
    /\ StoreTypeOK
    /\ clock \in 0..MaxTime
    /\ ends \in 0..MaxEnds
    /\ loop \in [Instances -> Loop]
    /\ told \in [Instances -> BOOLEAN]
    /\ wake \in [Instances -> BOOLEAN]
    /\ pushed \in [Instances -> [ScheduledKinds -> Nat]]
    /\ work \in [Worker -> Work]
    /\ \A w \in Worker : Busy(w) => work[w].id \in 1..last /\ work[w].attempts > 0
    /\ owed \subseteq Kinds \X Keys
    /\ covers \subseteq Worker

At(pc, now) == [pc |-> pc, now |-> now, todo |-> {}]
Off == At("off", 0)
\* The top of Run's loop: pushScheduled reads the time, and looks at each schedule
\* of the kinds i has a handler for.
Top(i) == IF ScheduledKinds \cap Knows[i] = {} THEN At("slot", 0)
          ELSE [pc |-> "push", now |-> clock, todo |-> ScheduledKinds \cap Knows[i]]

Init ==
    /\ StoreInit
    /\ clock = 0
    /\ ends = 0
    /\ loop = [i \in Instances |-> Off]
    /\ told = [i \in Instances |-> FALSE]
    /\ wake = [i \in Instances |-> FALSE]
    /\ pushed = [i \in Instances |-> [k \in ScheduledKinds |-> 0]]
    /\ work = [w \in Worker |-> Free]
    /\ owed = {} /\ covers = {}

Goto(i, l) == loop' = [loop EXCEPT ![i] = l]
InLoop(i, pc) == loop[i].pc = pc
\* The context the jobs run in is done: stopJobs, or Drain's own ctx.
JobsCtxDone(i) ==
    IF i \in Drainers THEN told[i] ELSE loop[i].pc \in {"letgo", "returned"}

-----------------------------------------------------------------------------
(* An instance's process.                                                  *)

\* Something ends before its time, within the bounds.
Ends == ends < MaxEnds /\ clock <= FaultsUntil /\ ends' = ends + 1

Start(i) ==
    /\ InLoop(i, "off")
    /\ Goto(i, IF i \in Drainers THEN At("slot", 0) ELSE Top(i))
    /\ UNCHANGED <<storeVars, env, told, wake, pushed, work, history>>

\* The app shuts down: Run's ctx, or Drain's, is done.
Stop(i) ==
    /\ loop[i].pc \notin {"off", "returned"} /\ ~told[i]
    /\ Ends
    /\ told' = [told EXCEPT ![i] = TRUE]
    /\ UNCHANGED <<storeVars, clock, loop, wake, pushed, work, history>>

\* The process ends, once Run has returned, or killed before.
Exit(i) ==
    /\ ~InLoop(i, "off")
    /\ \/ Ends
       \/ InLoop(i, "returned") /\ UNCHANGED ends
    /\ Goto(i, Off)
    /\ told' = [told EXCEPT ![i] = FALSE]
    /\ wake' = [wake EXCEPT ![i] = FALSE]
    /\ pushed' = [pushed EXCEPT ![i] = [k \in ScheduledKinds |-> 0]]
    /\ work' = [w \in Worker |-> IF w[1] = i THEN Free ELSE work[w]]
    /\ covers' = {w \in covers : w[1] # i}
    /\ UNCHANGED <<storeVars, clock, owed>>

Tick ==
    /\ clock < MaxTime
    /\ clock' = clock + 1
    /\ UNCHANGED <<storeVars, ends, runVars, work, history>>

-----------------------------------------------------------------------------
(* The app's pushes, through an instance's queue.                          *)

\* What a push does to the history: (k, v) is owed a run, and no run that
\* began before the push is one.
Owes(k, v) ==
    /\ owed' = owed \cup ({<<k, v>>} \cap (TrackedKinds \X Keys))
    /\ covers' = {w \in covers : <<jobs[work[w].id].kind, jobs[work[w].id].value>> # <<k, v>>}

Push(k, v, at) ==
    /\ last < AppJobs \/ Waiting(k, KeyOf(k, v))
    /\ \/ k \in LatestKinds /\ PushLatest(k, v, at)
       \/ k \in UniqueKinds \ LatestKinds /\ PushUnique(k, v, at)
       \/ k \notin UniqueKinds /\ push(k, v, at)
    /\ Owes(k, v)
    /\ UNCHANGED <<schedules, heldKinds>>

\* poke: only Run's loop looks at the wake channel.
Pokes(i, yes) == wake' = IF yes /\ i \notin Drainers THEN [wake EXCEPT ![i] = TRUE] ELSE wake

PushAt(i, k, v, ahead) ==
    /\ ~InLoop(i, "off") /\ k \in Knows[i]
    /\ Push(k, v, clock + ahead)
    /\ Pokes(i, ahead = 0)
    /\ UNCHANGED <<env, loop, told, pushed, work>>

\* A push through Kind.In, which the workers see once the app's transaction
\* commits, as Wake may then tell them.
PushIn(i, k, v, wakes) ==
    /\ ~InLoop(i, "off") /\ k \in Knows[i]
    /\ Push(k, v, clock)
    /\ Pokes(i, wakes)
    /\ UNCHANGED <<env, loop, told, pushed, work>>

-----------------------------------------------------------------------------
(* Run's loop, and Drain's.                                                *)

RunOfNow(now) == (now \div Period) * Period  \* mutant: Next's run isn't after now

\* Every.Next: the next multiple of the period after now.
NextRun(now) == (now \div Period + 1) * Period

\* One schedule of pushScheduled's: the next run after the time it read, if
\* the run i pushed last has come round.
PushRun(i, k) ==
    LET at == NextRun(loop[i].now)
        goOn == Goto(i, [loop[i] EXCEPT !.todo = @ \ {k}])
        wins == /\ PushScheduled(k, ScheduleValue, at)
                /\ IF schedules[k] < at THEN Owes(k, ScheduleValue) ELSE UNCHANGED history
    IN /\ InLoop(i, "push") /\ ~told[i] /\ k \in loop[i].todo
       /\ goOn
       /\ \/ /\ loop[i].now < pushed[i][k]
             /\ UNCHANGED <<jobs, last, schedules, pushed, history>>
          \/ /\ loop[i].now >= pushed[i][k]
             /\ wins
             /\ pushed' = [pushed EXCEPT ![i][k] = at]
          \/ /\ loop[i].now >= pushed[i][k] /\ Faults
             /\ wins \/ UNCHANGED <<jobs, last, schedules, history>>
             /\ UNCHANGED pushed
       /\ UNCHANGED <<heldKinds, env, told, wake, work>>

PushedRuns(i) ==
    /\ InLoop(i, "push")
    /\ told[i] \/ loop[i].todo = {}
    /\ Goto(i, At("slot", 0))
    /\ UNCHANGED <<storeVars, env, told, wake, pushed, work, history>>

\* A slot is free, and claim reads the time.
TakeSlot(i) ==
    /\ InLoop(i, "slot") /\ ~told[i]
    /\ \E s \in 1..Slots : ~Busy(<<i, s>>)
    /\ Goto(i, At("claim", clock))
    /\ UNCHANGED <<storeVars, env, told, wake, pushed, work, history>>

\* ctx is done: Run waits for its jobs, and Drain returns.
Break(i) ==
    /\ InLoop(i, "slot") /\ told[i]
    /\ Goto(i, IF i \in Drainers THEN At("returned", 0) ELSE At("grace", 0))
    /\ UNCHANGED <<storeVars, env, told, wake, pushed, work, history>>

Rated(i, k) == k \in RatedKinds \cap Knows[i]

\* The store returns the job due soonest, and a worker runs it.
Claim(i) ==
    \E id \in 1..last, s \in 1..Slots :
        LET until == loop[i].now + HoldFor
            rated == Rated(i, jobs[id].kind)
        IN /\ InLoop(i, "claim")
           /\ NextDue(id, loop[i].now)
           /\ ~Busy(<<i, s>>) /\ \A t \in 1..(s - 1) : Busy(<<i, t>>)
           /\ Hold(id, until)
           /\ work' = [work EXCEPT ![<<i, s>>] =
                  [pc |-> IF rated THEN "rate" ELSE "run", id |-> id,
                   attempts |-> jobs[id].attempts + 1, until |-> until,
                   verdict |-> "none", at |-> 0]]
           /\ covers' = IF rated \/ jobs[id].kind \notin TrackedKinds THEN covers
                         ELSE covers \cup {<<i, s>>}
           /\ Goto(i, IF i \in Drainers THEN At("draining", 0) ELSE Top(i))
           /\ UNCHANGED <<last, schedules, heldKinds, env, told, wake, pushed, owed>>

\* Nothing is due, or the store says it can't claim, as when it fails or ctx is
\* done: it may have, and the answer been lost, and then the job stays held with
\* no worker.
ClaimNothing(i) ==
    /\ InLoop(i, "claim")
    /\ \/ /\ \A id \in 1..last : ~Claimable(id, loop[i].now)
          /\ UNCHANGED jobs
       \/ /\ Faults \/ told[i]
          /\ UNCHANGED jobs
       \/ /\ Faults \/ told[i]
          /\ \E id \in 1..last : NextDue(id, loop[i].now) /\ Hold(id, loop[i].now + HoldFor)
    /\ Goto(i, IF i \in Drainers THEN At("returned", 0) ELSE At("idle", 0))
    /\ UNCHANGED <<last, schedules, heldKinds, env, told, wake, pushed, work, history>>

\* idle ends with a poke, the next poll, or ctx.
IdleEnds(i) ==
    /\ InLoop(i, "idle")
    /\ wake' \in {wake, [wake EXCEPT ![i] = FALSE]}
    /\ Goto(i, Top(i))
    /\ UNCHANGED <<storeVars, env, told, pushed, work, history>>

\* Drain's job has run, and it looks for the next.
DrainNext(i) ==
    /\ InLoop(i, "draining") /\ IdleWorkers(i)
    /\ Goto(i, At("slot", 0))
    /\ UNCHANGED <<storeVars, env, told, wake, pushed, work, history>>

\* The Grace is up: the jobs still running have their contexts canceled.
GraceOver(i) ==
    /\ InLoop(i, "grace") /\ ~IdleWorkers(i)
    /\ Goto(i, At("letgo", 0))
    /\ UNCHANGED <<storeVars, env, told, wake, pushed, work, history>>

ReturnOnceDone(i) ==  \* mutant: Run waits for its jobs for as long as they take
    loop[i].pc \in {"grace", "letgo"} /\ IdleWorkers(i)

MayReturn(i) ==
    \/ InLoop(i, "grace") /\ IdleWorkers(i)
    \/ InLoop(i, "letgo")

\* Run returns, once its jobs have ended, or when letGo is up.
Return(i) ==
    /\ MayReturn(i)
    /\ Goto(i, At("returned", 0))
    /\ UNCHANGED <<storeVars, env, told, wake, pushed, work, history>>
-----------------------------------------------------------------------------
(* A worker's run of its job.                                              *)

KindOf(w) == jobs[work[w].id].kind
ValueOf(w) == jobs[work[w].id].value
Doing(w, pc) == work[w].pc = pc
Frees(w) ==
    /\ work' = [work EXCEPT ![w] = Free]
    /\ covers' = covers \ {w}

\* run returns the store's error, which Run logs, and Drain returns.
RunError(i) == IF i \in Drainers THEN Goto(i, At("returned", 0)) ELSE UNCHANGED loop

RateAllows(w) ==
    /\ Doing(w, "rate") /\ ~JobsCtxDone(w[1])
    /\ work' = [work EXCEPT ![w].pc = "run"]
    /\ covers' = IF KindOf(w) \in TrackedKinds THEN covers \cup {w} ELSE covers
    /\ UNCHANGED <<storeVars, env, runVars, owed>>

\* The limiter refuses the job, or fails, or the queue stops: it goes back.
RateRefuses(w, wait) ==
    /\ Doing(w, "rate")
    /\ HoldBack(work[w], IF JobsCtxDone(w[1]) THEN clock ELSE clock + wait)
    /\ Frees(w)
    /\ UNCHANGED <<last, schedules, env, runVars, owed>>

\* The store fails as the job goes back, which it does in two statements: before
\* the first, or between.
RefusalLost(w, wait) ==
    /\ Doing(w, "rate") /\ Faults
    /\ HoldKind(KindOf(w), clock + wait) \/ UNCHANGED heldKinds
    /\ Frees(w)
    /\ RunError(w[1])
    /\ UNCHANGED <<jobs, last, schedules, env, told, wake, pushed, owed>>

StopIsDone(w, err) ==  \* mutant: a job stopped as it ran counts as done
    CASE err = "nil" \/ JobsCtxDone(w[1]) -> "done"
      [] err = "permanent" /\ ~JobsCtxDone(w[1]) -> "fail"
      [] OTHER -> IF work[w].attempts >= Attempts THEN "fail" ELSE "retry"

\* What run makes of the handler's error.
VerdictOn(w, err) ==
    CASE err = "nil" -> "done"
      [] err # "nil" /\ JobsCtxDone(w[1]) -> "stop"
      [] err = "permanent" /\ ~JobsCtxDone(w[1]) -> "fail"
      [] OTHER -> IF work[w].attempts >= Attempts THEN "fail" ELSE "retry"

\* The handler returns, or panics, with an error or none; a kind with no
\* handler here fails.  A Backoff that would end past the clock's bound isn't
\* one the model tries.
HandlerReturns(w, err, backoff) ==
    LET verdict == VerdictOn(w, err)
        at == CASE verdict = "stop" -> clock
                [] verdict = "retry" -> clock + backoff
                [] OTHER -> 0
    IN /\ Doing(w, "run")
       /\ KindOf(w) \in Knows[w[1]] \/ err = "failed"
       /\ verdict = "retry" => at <= MaxTime
       /\ work' = [work EXCEPT ![w] = [@ EXCEPT !.pc = "report", !.verdict = verdict, !.at = at]]
       /\ owed' = IF err = "nil" /\ w \in covers THEN owed \ {<<KindOf(w), ValueOf(w)>>} ELSE owed
       /\ UNCHANGED <<storeVars, env, runVars, covers>>

\* The handler ignores its context, and never returns; one worker at least
\* has one that does.
HandlerHangs(w) ==
    /\ Hangs /\ Doing(w, "run") /\ clock <= FaultsUntil
    /\ \E s \in 1..Slots : <<w[1], s>> # w /\ ~Doing(<<w[1], s>>, "hung")
    /\ work' = [work EXCEPT ![w].pc = "hung"]
    /\ UNCHANGED <<storeVars, env, runVars, history>>

Tells(w) ==
    LET c == work[w]
    IN \/ c.verdict = "done" /\ Done(c)
       \/ c.verdict \in {"stop", "retry"} /\ Retry(c, c.at)
       \/ c.verdict = "fail" /\ Fail(c)

NeverPokes(w) == FALSE  \* mutant: run's deferred poke is missing

\* A job of the kind that waited for this one to end may run now.
PokesAtEnd(w) ==
    /\ KindOf(w) \in Knows[w[1]]
    /\ AtOnce[KindOf(w)] # 0 \/ KindOf(w) \in OneAtATimeKinds

PokesDue(w) == work[w].verdict = "retry" /\ work[w].at <= clock

\* The worker tells the store how its job went.  One it told that its job
\* failed goes on to OnFail.
Report(w) ==
    LET onFail == work[w].verdict = "fail" /\ KindOf(w) \in Knows[w[1]]
    IN /\ Doing(w, "report")
       /\ Tells(w)
       /\ \/ onFail /\ work' = [work EXCEPT ![w].pc = "onfail"] /\ UNCHANGED <<covers, wake>>
          \/ ~onFail /\ Frees(w) /\ Pokes(w[1], PokesAtEnd(w) \/ PokesDue(w))
       /\ UNCHANGED <<last, schedules, heldKinds, env, loop, told, pushed, owed>>

\* OnFail has run, as its error and its panic go to the log.
OnFailReturns(w) ==
    /\ Doing(w, "onfail")
    /\ Frees(w)
    /\ Pokes(w[1], PokesAtEnd(w))
    /\ UNCHANGED <<storeVars, env, loop, told, pushed, owed>>

\* The store fails as it's told, before the write or once it's made.
ReportLost(w) ==
    /\ Doing(w, "report") /\ Faults
    /\ Tells(w) \/ UNCHANGED jobs
    /\ Frees(w)
    /\ Pokes(w[1], PokesAtEnd(w))
    /\ RunError(w[1])
    /\ UNCHANGED <<last, schedules, heldKinds, env, told, pushed, owed>>

-----------------------------------------------------------------------------

LoopStep(i) ==
    \/ \E k \in ScheduledKinds : PushRun(i, k)
    \/ PushedRuns(i)
    \/ TakeSlot(i)
    \/ Break(i)
    \/ Claim(i)
    \/ ClaimNothing(i)
    \/ IdleEnds(i)
    \/ DrainNext(i)
    \/ GraceOver(i)
    \/ Return(i)

WorkerStep(w) ==
    \/ RateAllows(w)
    \/ \E wait \in Waits : RateRefuses(w, wait)
    \/ \E wait \in Waits : RefusalLost(w, wait)
    \/ \E err \in {"nil", "failed", "permanent"}, b \in Backoffs : HandlerReturns(w, err, b)
    \/ Report(w)
    \/ ReportLost(w)
    \/ OnFailReturns(w)

Environment ==
    \/ Tick
    \/ \E i \in Instances : Start(i) \/ Stop(i) \/ Exit(i)
    \/ \E w \in Worker : HandlerHangs(w)
    \/ \E i \in Instances, k \in Kinds, v \in Keys :
         \/ \E a \in Ahead : PushAt(i, k, v, a)
         \/ \E wakes \in InWakes : PushIn(i, k, v, wakes)

Next ==
    \/ \E i \in Instances : LoopStep(i)
    \/ \E w \in Worker : WorkerStep(w)
    \/ Environment

Spec == Init /\ [][Next]_vars

\* The starter's jobs command, run beside the app: jobs retry <id>.
JobsRetry(i) ==
    /\ RunAgain(i, clock)
    /\ UNCHANGED <<last, schedules, heldKinds, env, runVars, work, history>>

OperatorNext == Next \/ \E i \in 1..last : JobsRetry(i)

OperatorSpec == Init /\ [][OperatorNext]_vars

\* The loop and the workers are goroutines, which the runtime runs; the
\* limiters and the handlers answer, but for the handlers that hang; and an
\* app that's down is started again.  Pushes, stops and kills need not happen.
Fairness ==
    /\ WF_vars(Tick)
    /\ \A i \in Instances : WF_vars(Start(i)) /\ WF_vars(LoopStep(i))
                            /\ WF_vars(InLoop(i, "returned") /\ Exit(i))
    /\ \A w \in Worker : WF_vars(WorkerStep(w))

FairSpec == Spec /\ Fairness

-----------------------------------------------------------------------------
(* Safety.                                                                 *)

\* A worker whose claim has its job, as its hold lasts.
Live(w) == work[w].pc \notin {"free", "onfail"} /\ work[w].until > clock

\* store.go: two claims never return the same job while the first one's hold
\* lasts, whatever the late reports of the claims whose holds ran out do.
ExclusiveHold ==
    \A w, x \in Worker : w # x /\ Live(w) /\ Live(x) => work[w].id # work[x].id

\* kind.go, AtOnce: no more than so many of the kind's jobs run at once, on
\* all the instances together.
AtOnceLimit ==
    \A k \in Kinds : AtOnce[k] # 0 =>
        Cardinality({w \in Worker : Live(w) /\ KindOf(w) = k}) <= AtOnce[k]

\* kind.go, OneAtATime: two jobs of the kind and value don't run at once.
OneRuns ==
    \A w, x \in Worker :
        w # x /\ Live(w) /\ Live(x) /\ KindOf(w) = KindOf(x) /\ KindOf(w) \in OneAtATimeKinds
        => ValueOf(w) # ValueOf(x)

\* store.go, UniqueStore: of the jobs of a unique kind, one with each key waits,
\* after claims, retries and jobs held back.
OneWaits ==
    \A i, o \in 1..last :
        i # o /\ jobs[i].kind = jobs[o].kind /\ jobs[i].key = jobs[o].key
        => jobs[i].key = NoKey

\* queue.go: a job runs at least once; and kind.go, Unique: a push that does
\* nothing, as a job of its value waits, is run by that job.  So a value pushed
\* is in the store, waiting, held or failed, until a run that began after the
\* push has succeeded, though workers die, and stores fail, at any step.
NoPushLost ==
    \A o \in owed : \E i \in 1..last :
        jobs[i].kind = o[1] /\ jobs[i].value = o[2] /\ jobs[i].st # "gone"

\* kind.go, Schedule: each run of a schedule is pushed once, whichever of the
\* instances push it, restart, or read the time long before they push.  It's
\* for the kinds only their schedule pushes: AppJobs is 0.
OneJobPerRun ==
    \A k \in ScheduledKinds :
        Cardinality({i \in 1..last : jobs[i].kind = k}) <= schedules[k] \div Period

\* queue.go, poke: Run isn't idle, with no wake waiting for it, while there's a
\* job for it that's free to be claimed, and became so by a push, a retry or the
\* end of another job, all of which wake it, rather than as time passed: no hold
\* need lapse for it (a hold that has ended is 0).  The wake of a job that failed
\* comes once its OnFail has returned.  It's for one instance, whose jobs are due
\* as they're pushed, and whose store doesn't fail.
NoSleepOnWork ==
    \A i \in Instances :
        /\ InLoop(i, "idle") /\ ~wake[i]
        /\ \A s \in 1..Slots : ~Doing(<<i, s>>, "onfail")
        => \A id \in 1..last :
              jobs[id].st = "kept" /\ jobs[id].heldUntil = 0 => Running(id, 0) \/ AtLimit(id, 0)

\* The rows a Store keeps, and who runs what, as JobRuns has them.
RowsSeen == [i \in 1..last |-> [st |-> jobs[i].st, kind |-> jobs[i].kind, value |-> jobs[i].value]]
RunsSeen == {<<w, work[w].id>> : w \in {x \in Worker : Live(x)}}

AsRuns == INSTANCE JobRuns WITH Workers <- Worker, rows <- RowsSeen, runs <- RunsSeen

\* store.go: a job whose claim holds is run by one worker at a time, begins within
\* its kind's limits, and ends once, for good: a report of one whose hold ran out,
\* and whose job another has since, changes nothing of it.
ImplementsRuns == AsRuns!Spec

-----------------------------------------------------------------------------
(* Liveness.                                                               *)

\* queue.go: a job in the store is done, or fails for good, though its workers
\* die or hang.  A schedule's run past the clock's bound never comes due.
EveryJobEnds ==
    \A i \in 1..MaxJobs :
        (i <= last /\ jobs[i].st = "kept" /\ jobs[i].runAt <= MaxTime)
            ~> (i <= last /\ jobs[i].st # "kept")

\* Run returns once it's told to stop, whatever its handlers do.
StopReturns == \A i \in Instances : told[i] ~> loop[i].pc \in {"returned", "off"}

\* The run of a schedule after any time that comes is pushed.
NextRunPushed ==
    \A k \in ScheduledKinds, t \in 0..MaxTime : (clock >= t) ~> (schedules[k] > t)
=============================================================================
