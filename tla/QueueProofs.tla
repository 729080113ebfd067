---------------------------- MODULE QueueProofs ----------------------------
(***************************************************************************)
(* What is proved of Queue, for every value of its constants.              *)
(***************************************************************************)
EXTENDS Queue, JobStoreProofs, FiniteSetTheorems

-----------------------------------------------------------------------------
(* Type correctness.                                                       *)

LEMMA NextRunType ==
    ASSUME NEW now \in Nat
    PROVE  NextRun(now) \in Nat
<1>1. Period \in Nat \ {0}
  BY QueueAssumption DEF QueueAssumption
<1>2. now \div Period \in Nat
  BY <1>1
<1> QED
  BY <1>1, <1>2 DEF NextRun

\* What TypeOK says of the workers, apart.
WorkOK ==
    /\ work \in [Worker -> Work]
    /\ \A w \in Worker : Busy(w) => work[w].id \in 1..last /\ work[w].attempts > 0

LEMMA FreeType == Free \in Work
BY DEF Free, Work, WorkPc, Verdict

LEMMA InitType == Init => TypeOK
<1> USE StoreAssumption, QueueAssumption DEF StoreAssumption, QueueAssumption
<1> SUFFICES ASSUME Init PROVE TypeOK
  OBVIOUS
<1>1. last \in 0..MaxJobs /\ jobs \in [1..last -> Job]
  BY DEF Init, StoreInit
<1>2. StoreTypeOK
  BY <1>1 DEF Init, StoreInit, StoreTypeOK
<1>3. loop \in [Instances -> Loop]
  BY DEF Init, Off, At, Loop, LoopPc
<1>4. work \in [Worker -> Work] /\ \A w \in Worker : ~Busy(w)
  BY FreeType DEF Init, Busy, Free
<1> QED
  BY <1>2, <1>3, <1>4 DEF Init, TypeOK

\* What TypeOK says of the rest, but for the loops.
OthersOK ==
    /\ schedules \in [ScheduledKinds -> Nat]
    /\ heldKinds \in [Kinds -> Nat]
    /\ clock \in 0..MaxTime
    /\ ends \in 0..MaxEnds
    /\ told \in [Instances -> BOOLEAN]
    /\ wake \in [Instances -> BOOLEAN]
    /\ pushed \in [Instances -> [ScheduledKinds -> Nat]]
    /\ owed \subseteq Kinds \X Keys
    /\ covers \subseteq Worker

LoopsOK == loop \in [Instances -> Loop]

LEMMA TypeParts == TypeOK <=> Rows /\ OthersOK /\ LoopsOK /\ WorkOK
BY DEF TypeOK, StoreTypeOK, Rows, OthersOK, LoopsOK, WorkOK

LEMMA TypeWhole ==
    ASSUME Rows', OthersOK', LoopsOK', WorkOK'
    PROVE  TypeOK'
BY DEF TypeOK, StoreTypeOK, Rows, OthersOK, LoopsOK, WorkOK

LEMMA AtType ==
    ASSUME NEW pc \in LoopPc, NEW now \in Nat
    PROVE  At(pc, now) \in Loop
BY DEF At, Loop

LEMMA TopType ==
    ASSUME NEW i \in Instances, clock \in Nat
    PROVE  Top(i) \in Loop
BY AtType DEF Top, Loop, LoopPc

LEMMA GotoType ==
    ASSUME LoopsOK, NEW i \in Instances, NEW l \in Loop, Goto(i, l)
    PROVE  LoopsOK'
BY DEF LoopsOK, Goto

\* A push, by the app or of a schedule's run, leaves all but the loops well typed.
LEMMA OwesType ==
    ASSUME OthersOK, NEW k \in Kinds, NEW v \in Keys, Owes(k, v)
    PROVE  owed' \subseteq Kinds \X Keys /\ covers' \subseteq Worker
BY DEF Owes, OthersOK

LEMMA PushType ==
    ASSUME Rows, NEW k \in Kinds, NEW v \in Keys, NEW at \in Nat, Push(k, v, at)
    PROVE  Rows' /\ last <= last'
<1>1. CASE PushLatest(k, v, at)
  BY <1>1, PushLatestRows DEF PushLatest, push, Rows
<1>2. CASE PushUnique(k, v, at)
  BY <1>2, PushUniqueRows DEF PushUnique, push, Rows
<1>3. CASE push(k, v, at)
  BY <1>3, PushRows DEF push, Rows
<1> QED
  BY <1>1, <1>2, <1>3 DEF Push

LEMMA IdleWorkOK ==
    ASSUME Rows, Rows', WorkOK, UNCHANGED work, last <= last'
    PROVE  WorkOK'
BY DEF WorkOK, Busy, Rows

LEMMA EnvironmentType ==
    ASSUME TypeOK, Environment
    PROVE  TypeOK'
<1> USE QueueAssumption, StoreAssumption DEF QueueAssumption, StoreAssumption
<1>0. Rows /\ OthersOK /\ LoopsOK /\ WorkOK
  BY TypeParts
<1>1. CASE Tick
  <2>1. Rows' /\ LoopsOK' /\ WorkOK'
    BY <1>0, <1>1 DEF Tick, storeVars, runVars, Rows, LoopsOK, WorkOK, Busy
  <2>2. OthersOK'
    BY <1>0, <1>1 DEF Tick, storeVars, runVars, history, OthersOK
  <2> QED
    BY <2>1, <2>2, TypeWhole
<1>2. ASSUME NEW i \in Instances, Start(i)
      PROVE  TypeOK'
  <2>1. Rows' /\ OthersOK' /\ WorkOK'
    BY <1>0, <1>2 DEF Start, storeVars, env, history, Rows, OthersOK, WorkOK, Busy
  <2>2. LoopsOK'
    BY <1>0, <1>2, GotoType, AtType, TopType DEF Start, LoopPc, OthersOK
  <2> QED
    BY <2>1, <2>2, TypeWhole
<1>3. ASSUME NEW i \in Instances, Stop(i)
      PROVE  TypeOK'
  <2>1. Rows' /\ LoopsOK' /\ WorkOK'
    BY <1>0, <1>3 DEF Stop, storeVars, Rows, LoopsOK, WorkOK, Busy
  <2>2. OthersOK'
    BY <1>0, <1>3 DEF Stop, Ends, storeVars, history, OthersOK
  <2> QED
    BY <2>1, <2>2, TypeWhole
<1>4. ASSUME NEW i \in Instances, Exit(i)
      PROVE  TypeOK'
  <2>1. Rows'
    BY <1>0, <1>4 DEF Exit, storeVars, Rows
  <2>2. OthersOK'
    BY <1>0, <1>4 DEF Exit, Ends, storeVars, OthersOK
  <2>3. LoopsOK'
    BY <1>0, <1>4, GotoType, AtType DEF Exit, Off, LoopPc
  <2>4. WorkOK'
    BY <1>0, <1>4, FreeType DEF Exit, storeVars, WorkOK, Busy, Free
  <2> QED
    BY <2>1, <2>2, <2>3, <2>4, TypeWhole
<1>5. ASSUME NEW w \in Worker, HandlerHangs(w)
      PROVE  TypeOK'
  <2>1. Rows' /\ OthersOK' /\ LoopsOK'
    BY <1>0, <1>5 DEF HandlerHangs, storeVars, env, runVars, history, Rows, OthersOK, LoopsOK
  <2>2. WorkOK'
    BY <1>0, <1>5 DEF HandlerHangs, storeVars, WorkOK, Work, WorkPc, Busy, Doing
  <2> QED
    BY <2>1, <2>2, TypeWhole
<1>6. ASSUME NEW i \in Instances, NEW k \in Kinds, NEW v \in Keys,
             (\E a \in Ahead : PushAt(i, k, v, a)) \/ (\E y \in InWakes : PushIn(i, k, v, y))
      PROVE  TypeOK'
  <2>1. PICK at \in Nat, yes \in BOOLEAN :
            Push(k, v, at) /\ Pokes(i, yes) /\ UNCHANGED <<env, loop, told, pushed, work>>
    <3>1. clock \in Nat
      BY <1>0 DEF OthersOK
    <3>2. ASSUME NEW a \in Ahead, PushAt(i, k, v, a)
          PROVE  Push(k, v, clock + a) /\ clock + a \in Nat /\ Pokes(i, a = 0)
                 /\ UNCHANGED <<env, loop, told, pushed, work>>
      BY <3>1, <3>2 DEF PushAt
    <3>3. ASSUME NEW y \in InWakes, PushIn(i, k, v, y)
          PROVE  Push(k, v, clock) /\ Pokes(i, y) /\ y \in BOOLEAN
                 /\ UNCHANGED <<env, loop, told, pushed, work>>
      BY <3>3 DEF PushIn
    <3> QED
      BY <1>6, <3>1, <3>2, <3>3
  <2>2. Rows' /\ LoopsOK' /\ WorkOK'
    BY <1>0, <2>1, PushType, IdleWorkOK DEF LoopsOK
  <2>3. OthersOK'
    BY <1>0, <2>1, OwesType DEF Push, Pokes, env, OthersOK
  <2> QED
    BY <2>2, <2>3, TypeWhole
<1> QED
  BY <1>1, <1>2, <1>3, <1>4, <1>5, <1>6 DEF Environment

LEMMA LoopType ==
    ASSUME TypeOK, NEW i \in Instances, LoopStep(i)
    PROVE  TypeOK'
<1> USE QueueAssumption, StoreAssumption DEF QueueAssumption, StoreAssumption
<1>0. Rows /\ OthersOK /\ LoopsOK /\ WorkOK /\ loop[i].now \in Nat /\ clock \in Nat
  BY TypeParts DEF LoopsOK, Loop, OthersOK
<1>1. ASSUME NEW k \in ScheduledKinds, PushRun(i, k)
      PROVE  TypeOK'
  <2> DEFINE at == NextRun(loop[i].now)
  <2>1. at \in Nat
    BY <1>0, NextRunType
  <2>2. k \in Kinds /\ ScheduleValue \in Keys
    OBVIOUS
  <2>3. PushScheduled(k, ScheduleValue, at) \/ UNCHANGED <<jobs, last, schedules>>
    BY <1>1 DEF PushRun
  <2>4. Rows' /\ last <= last'
    <3>1. CASE PushScheduled(k, ScheduleValue, at)
      BY <1>0, <2>1, <2>2, <3>1, PushScheduledRows DEF PushScheduled, PushUnique, push, Rows
    <3>2. CASE UNCHANGED <<jobs, last, schedules>>
      BY <1>0, <3>2 DEF Rows
    <3> QED
      BY <2>3, <3>1, <3>2
  <2>5. WorkOK'
    BY <1>0, <1>1, <2>4, IdleWorkOK DEF PushRun
  <2>6. LoopsOK'
    <3>1. [loop[i] EXCEPT !.todo = @ \ {k}] \in Loop
      BY <1>0 DEF LoopsOK, Loop
    <3> QED
      BY <1>0, <1>1, <3>1, GotoType DEF PushRun
  <2>7. schedules' \in [ScheduledKinds -> Nat]
    BY <1>0, <2>1, <2>3 DEF PushScheduled, OthersOK
  <2>8. pushed' \in [Instances -> [ScheduledKinds -> Nat]]
    BY <1>0, <1>1, <2>1 DEF PushRun, OthersOK
  <2>9. owed' \subseteq Kinds \X Keys /\ covers' \subseteq Worker
    <3>1. Owes(k, ScheduleValue) \/ UNCHANGED history
      BY <1>1 DEF PushRun, history
    <3> QED
      BY <1>0, <2>2, <3>1, OwesType DEF history, OthersOK
  <2>10. OthersOK'
    BY <1>0, <1>1, <2>7, <2>8, <2>9 DEF PushRun, env, OthersOK
  <2> QED
    BY <2>4, <2>5, <2>6, <2>10, TypeWhole
<1>2. ASSUME NEW l \in Loop, Goto(i, l),
             UNCHANGED <<storeVars, env, told, pushed, work, history>>,
             wake' \in {wake, [wake EXCEPT ![i] = FALSE]}
      PROVE  TypeOK'
  <2>1. Rows' /\ WorkOK'
    BY <1>0, <1>2 DEF storeVars, Rows, WorkOK, Busy
  <2>2. OthersOK'
    BY <1>0, <1>2 DEF storeVars, env, history, OthersOK
  <2>3. LoopsOK'
    BY <1>0, <1>2, GotoType
  <2> QED
    BY <2>1, <2>2, <2>3, TypeWhole
<1>3. CASE PushedRuns(i)
  BY <1>2, <1>3, AtType DEF PushedRuns, LoopPc
<1>4. CASE TakeSlot(i)
  BY <1>0, <1>2, <1>4, AtType DEF TakeSlot, LoopPc
<1>5. CASE Break(i)
  BY <1>2, <1>5, AtType DEF Break, LoopPc
<1>6. CASE Claim(i)
  <2>1. PICK id \in 1..last, s \in 1..Slots :
           /\ NextDue(id, loop[i].now)
           /\ Hold(id, loop[i].now + HoldFor)
           /\ work' = [work EXCEPT ![<<i, s>>] =
                  [pc |-> IF Rated(i, jobs[id].kind) THEN "rate" ELSE "run", id |-> id,
                   attempts |-> jobs[id].attempts + 1, until |-> loop[i].now + HoldFor,
                   verdict |-> "none", at |-> 0]]
           /\ covers' \subseteq covers \cup {<<i, s>>}
           /\ Goto(i, IF i \in Drainers THEN At("draining", 0) ELSE Top(i))
           /\ UNCHANGED <<last, schedules, heldKinds, env, told, wake, pushed, owed>>
    BY <1>6 DEF Claim
  <2>2. Rows'
    BY <1>0, <2>1, HoldRows DEF NextDue, Claimable
  <2>3. WorkOK'
    <3> DEFINE r == [pc |-> IF Rated(i, jobs[id].kind) THEN "rate" ELSE "run", id |-> id,
                     attempts |-> jobs[id].attempts + 1, until |-> loop[i].now + HoldFor,
                     verdict |-> "none", at |-> 0]
    <3>1. jobs[id].attempts \in Nat /\ id \in Nat /\ last \in Nat
      BY <1>0 DEF Rows, Job
    <3>2. r \in Work /\ r.id \in 1..last /\ r.attempts > 0
      BY <1>0, <3>1 DEF Work, WorkPc, Verdict
    <3>3. <<i, s>> \in Worker
      BY DEF Worker
    <3>4. work' = [work EXCEPT ![<<i, s>>] = r] /\ UNCHANGED last
      BY <2>1
    <3> HIDE DEF r
    <3> QED
      BY <1>0, <3>2, <3>3, <3>4 DEF WorkOK, Busy
  <2>4. OthersOK'
    BY <1>0, <2>1 DEF env, OthersOK, Worker
  <2>5. LoopsOK'
    BY <1>0, <2>1, GotoType, AtType, TopType DEF LoopPc
  <2> QED
    BY <2>2, <2>3, <2>4, <2>5, TypeWhole
<1>7. CASE ClaimNothing(i)
  <2>1. Rows'
    <3>1. CASE UNCHANGED jobs
      BY <1>0, <1>7, <3>1 DEF ClaimNothing, Rows
    <3>2. ASSUME NEW id \in 1..last, NextDue(id, loop[i].now), Hold(id, loop[i].now + HoldFor)
          PROVE  Rows'
      BY <1>0, <1>7, <3>2, HoldRows DEF ClaimNothing, NextDue, Claimable
    <3> QED
      BY <1>7, <3>1, <3>2 DEF ClaimNothing
  <2>2. OthersOK' /\ WorkOK'
    BY <1>0, <1>7 DEF ClaimNothing, env, history, OthersOK, WorkOK, Busy
  <2>3. LoopsOK'
    BY <1>0, <1>7, GotoType, AtType DEF ClaimNothing, LoopPc
  <2> QED
    BY <2>1, <2>2, <2>3, TypeWhole
<1>8. CASE IdleEnds(i)
  BY <1>0, <1>2, <1>8, TopType DEF IdleEnds
<1>9. CASE DrainNext(i)
  BY <1>2, <1>9, AtType DEF DrainNext, LoopPc
<1>10. CASE GraceOver(i)
  BY <1>2, <1>10, AtType DEF GraceOver, LoopPc
<1>11. CASE Return(i)
  BY <1>2, <1>11, AtType DEF Return, LoopPc
<1> QED
  BY <1>1, <1>3, <1>4, <1>5, <1>6, <1>7, <1>8, <1>9, <1>10, <1>11 DEF LoopStep

LEMMA PokesType ==
    ASSUME OthersOK, NEW i \in Instances, NEW yes \in BOOLEAN, Pokes(i, yes)
    PROVE  wake' \in [Instances -> BOOLEAN]
BY DEF Pokes, OthersOK

LEMMA FreesType ==
    ASSUME WorkOK, NEW w \in Worker, UNCHANGED last, Frees(w)
    PROVE  WorkOK' /\ (covers \subseteq Worker => covers' \subseteq Worker)
BY FreeType DEF Frees, WorkOK, Busy, Free

LEMMA RunErrorType ==
    ASSUME LoopsOK, NEW i \in Instances, RunError(i)
    PROVE  LoopsOK'
BY GotoType, AtType DEF RunError, LoopPc, LoopsOK

LEMMA WorkerType ==
    ASSUME TypeOK, NEW w \in Worker, WorkerStep(w)
    PROVE  TypeOK'
<1> USE QueueAssumption, StoreAssumption DEF QueueAssumption, StoreAssumption
<1>0. Rows /\ OthersOK /\ LoopsOK /\ WorkOK /\ clock \in Nat
  BY TypeParts DEF OthersOK
<1>a. w[1] \in Instances /\ work[w] \in Work
  BY <1>0 DEF Worker, WorkOK
<1>b. Busy(w) => work[w].id \in 1..last /\ work[w].attempts > 0 /\ KindOf(w) \in Kinds
  BY <1>0, <1>a DEF WorkOK, KindOf, Rows, Job
<1>c. work[w].attempts \in Nat /\ work[w].at \in Nat
  BY <1>a DEF Work
<1>1. CASE RateAllows(w)
  <2>1. Rows' /\ LoopsOK' /\ OthersOK'
    BY <1>0, <1>1 DEF RateAllows, storeVars, env, runVars, Rows, LoopsOK, OthersOK
  <2>2. WorkOK'
    BY <1>0, <1>1 DEF RateAllows, storeVars, WorkOK, Work, WorkPc, Busy, Doing
  <2> QED
    BY <2>1, <2>2, TypeWhole
<1>2. ASSUME NEW wait \in Waits, RateRefuses(w, wait)
      PROVE  TypeOK'
  <2> DEFINE until == IF JobsCtxDone(w[1]) THEN clock ELSE clock + wait
  <2>1. until \in Nat /\ Busy(w)
    BY <1>0, <1>2 DEF RateRefuses, Busy, Doing
  <2>2. HoldBack(work[w], until) /\ UNCHANGED <<last, schedules, env, runVars, owed>> /\ Frees(w)
    BY <1>2 DEF RateRefuses
  <2> HIDE DEF until
  <2>3. Rows'
    BY <1>0, <1>a, <1>b, <1>c, <2>1, <2>2, GiveBackRows DEF HoldBack
  <2>4. heldKinds' \in [Kinds -> Nat]
    BY <1>0, <2>1, <2>2 DEF HoldBack, HoldKind, OthersOK
  <2>5. OthersOK' /\ WorkOK' /\ LoopsOK'
    BY <1>0, <2>2, <2>4, FreesType DEF env, runVars, OthersOK, LoopsOK
  <2> QED
    BY <2>3, <2>5, TypeWhole
<1>3. ASSUME NEW wait \in Waits, RefusalLost(w, wait)
      PROVE  TypeOK'
  <2>1. Rows' /\ WorkOK' /\ LoopsOK'
    BY <1>0, <1>a, <1>3, FreesType, RunErrorType DEF RefusalLost, Rows
  <2>2. heldKinds' \in [Kinds -> Nat]
    <3>1. clock + wait \in Nat
      BY <1>0
    <3> QED
      BY <1>0, <1>3, <3>1 DEF RefusalLost, HoldKind, OthersOK
  <2>3. OthersOK'
    BY <1>0, <1>3, <2>2, FreesType DEF RefusalLost, env, OthersOK
  <2> QED
    BY <2>1, <2>3, TypeWhole
<1>4. ASSUME NEW err \in {"nil", "failed", "permanent"}, NEW b \in Backoffs, HandlerReturns(w, err, b)
      PROVE  TypeOK'
  <2> DEFINE verdict == VerdictOn(w, err)
             at == CASE verdict = "stop" -> clock [] verdict = "retry" -> clock + b [] OTHER -> 0
  <2>1. verdict \in Verdict
    BY DEF VerdictOn, Verdict
  <2>2. at \in Nat
    BY <1>0
  <2>3. work' = [work EXCEPT ![w] = [@ EXCEPT !.pc = "report", !.verdict = verdict, !.at = at]]
    BY <1>4 DEF HandlerReturns
  <2> HIDE DEF verdict, at
  <2>4. WorkOK'
    <3> DEFINE r == [work[w] EXCEPT !.pc = "report", !.verdict = verdict, !.at = at]
    <3>1. r \in Work /\ r.id = work[w].id /\ r.attempts = work[w].attempts
      BY <1>a, <2>1, <2>2 DEF Work, WorkPc
    <3>2. r.id \in 1..last /\ r.attempts > 0
      BY <1>4, <1>b, <3>1 DEF HandlerReturns, Busy, Doing
    <3>3. work' = [work EXCEPT ![w] = r] /\ UNCHANGED last
      BY <1>4, <2>3 DEF HandlerReturns, storeVars
    <3> HIDE DEF r
    <3> QED
      BY <1>0, <3>1, <3>2, <3>3 DEF WorkOK, Busy
  <2>5. Rows' /\ LoopsOK' /\ OthersOK'
    BY <1>0, <1>4 DEF HandlerReturns, storeVars, env, runVars, Rows, LoopsOK, OthersOK
  <2> QED
    BY <2>4, <2>5, TypeWhole
<1>5. CASE Report(w)
  <2>1. Rows'
    BY <1>0, <1>a, <1>b, <1>c, <1>5, TellsRows DEF Report, Tells, Busy, Doing
  <2>2. WorkOK' /\ covers' \subseteq Worker
    <3>1. CASE Frees(w)
      BY <1>0, <1>5, <3>1, FreesType DEF Report, OthersOK
    <3>2. CASE work' = [work EXCEPT ![w].pc = "onfail"] /\ UNCHANGED <<covers, wake>>
      <4>1. work[w].id \in 1..last /\ work[w].attempts > 0
        BY <1>5, <1>b DEF Report, Busy, Doing
      <4>2. UNCHANGED last /\ covers \subseteq Worker
        BY <1>0, <1>5 DEF Report, OthersOK
      <4>3. work' \in [Worker -> Work]
        BY <1>0, <3>2 DEF WorkOK, Work, WorkPc
      <4> QED
        BY <1>0, <3>2, <4>1, <4>2, <4>3 DEF WorkOK, Busy
    <3> QED
      BY <1>5, <3>1, <3>2 DEF Report
  <2>3. wake' \in [Instances -> BOOLEAN]
    BY <1>0, <1>a, <1>5, PokesType DEF Report, PokesAtEnd, PokesDue, OthersOK
  <2>4. OthersOK' /\ LoopsOK'
    BY <1>0, <1>5, <2>2, <2>3 DEF Report, env, OthersOK, LoopsOK
  <2> QED
    BY <2>1, <2>2, <2>4, TypeWhole
<1>6. CASE ReportLost(w)
  <2>1. Rows'
    <3>1. CASE Tells(w)
      BY <1>0, <1>a, <1>b, <1>c, <1>6, <3>1, TellsRows DEF ReportLost, Tells, Busy, Doing
    <3>2. CASE UNCHANGED jobs
      BY <1>0, <1>6, <3>2 DEF ReportLost, Rows
    <3> QED
      BY <1>6, <3>1, <3>2 DEF ReportLost
  <2>2. WorkOK' /\ LoopsOK' /\ covers' \subseteq Worker
    BY <1>0, <1>a, <1>6, FreesType, RunErrorType DEF ReportLost, OthersOK
  <2>3. wake' \in [Instances -> BOOLEAN]
    BY <1>0, <1>a, <1>6, PokesType DEF ReportLost, PokesAtEnd
  <2>4. OthersOK'
    BY <1>0, <1>6, <2>2, <2>3 DEF ReportLost, env, OthersOK
  <2> QED
    BY <2>1, <2>2, <2>4, TypeWhole
<1>7. CASE OnFailReturns(w)
  <2>1. wake' \in [Instances -> BOOLEAN]
    BY <1>0, <1>a, <1>7, PokesType DEF OnFailReturns, PokesAtEnd
  <2>2. WorkOK' /\ OthersOK'
    BY <1>0, <1>7, <2>1, FreesType DEF OnFailReturns, storeVars, env, OthersOK
  <2>3. Rows' /\ LoopsOK'
    BY <1>0, <1>7 DEF OnFailReturns, storeVars, Rows, LoopsOK
  <2> QED
    BY <2>2, <2>3, TypeWhole
<1> QED
  BY <1>1, <1>2, <1>3, <1>4, <1>5, <1>6, <1>7 DEF WorkerStep

\* Every variable keeps its type: the rows, whatever calls are made of the store,
\* are rows a claim has left as it should, and a worker's claim has a row.
THEOREM TypeCorrect == Spec => []TypeOK
<1>1. ASSUME TypeOK, [Next]_vars
      PROVE  TypeOK'
  <2>1. CASE Next
    BY <1>1, <2>1, LoopType, WorkerType, EnvironmentType DEF Next
  <2>2. CASE UNCHANGED vars
    BY <1>1, <2>2 DEF vars, storeVars, env, runVars, history, TypeOK, StoreTypeOK, Busy
  <2> QED
    BY <1>1, <2>1, <2>2
<1> QED
  BY InitType, <1>1, PTL DEF Spec

-----------------------------------------------------------------------------
(* No two claims hold a job at once.  A job whose hold has run out goes to *)
(* another worker while the first one still runs it, and the first one may *)
(* then report; what keeps its report from the second's claim is that the  *)
(* attempts of the two differ, as long as no call sets a job's attempts    *)
(* back but the one that puts a job back, which only the latest claim does.*)

\* A claim's attempts are never more than its job's.
ClaimsCounted ==
    \A w \in Worker :
        Busy(w) /\ jobs[work[w].id].st # "gone" => work[w].attempts <= jobs[work[w].id].attempts

\* Two claims of a job have different attempts, though one of them has ended.
ClaimsDiffer ==
    \A w, x \in Worker :
        w # x /\ Busy(w) /\ Busy(x) /\ work[w].id = work[x].id
        => work[w].attempts # work[x].attempts

\* A worker whose hold lasts has the claim its job is held for.
LiveHolds ==
    \A w \in Worker :
        Live(w) => ClaimedBy(work[w]) /\ jobs[work[w].id].heldUntil = work[w].until

\* No loop has read a time that's still to come.
NowsPassed == \A i \in Instances : loop[i].now <= clock

IInv == ClaimsCounted /\ ClaimsDiffer /\ LiveHolds /\ NowsPassed

\* A worker's claim is as it was, or the worker has been freed.
ClaimKept(w) ==
    \/ work'[w].pc = "free"
    \/ /\ Busy(w)
       /\ work'[w].id = work[w].id
       /\ work'[w].attempts = work[w].attempts
       /\ work'[w].until = work[w].until
       /\ work[w].pc = "onfail" => work'[w].pc = "onfail"

\* What a step that makes no claim, and ends none, leaves true.
LEMMA Undisturbed ==
    ASSUME TypeOK, IInv, clock' \in Nat, clock <= clock', NowsPassed',
           work' \in [Worker -> Work],
           \A i \in 1..last : /\ jobs'[i].st = jobs[i].st
                             /\ jobs'[i].attempts = jobs[i].attempts
                             /\ jobs'[i].heldUntil = jobs[i].heldUntil,
           \A w \in Worker : ClaimKept(w)
    PROVE  IInv'
<1>1. ASSUME NEW w \in Worker, Busy(w)'
      PROVE  Busy(w) /\ work[w].id \in 1..last /\ work'[w].id = work[w].id
             /\ work'[w].attempts = work[w].attempts /\ work'[w].until = work[w].until
             /\ (Live(w)' => Live(w))
  <2>1. Busy(w) /\ work'[w].id = work[w].id /\ work'[w].attempts = work[w].attempts
        /\ work'[w].until = work[w].until /\ (work[w].pc = "onfail" => work'[w].pc = "onfail")
    BY <1>1 DEF ClaimKept, Busy
  <2>2. work[w].until \in Nat /\ clock \in Nat
    BY DEF TypeOK, Work
  <2>3. Live(w)' => Live(w)
    BY <2>1, <2>2 DEF Live, Busy
  <2> QED
    BY <2>1, <2>3 DEF TypeOK
<1>2. ClaimsCounted'
  BY <1>1 DEF ClaimsCounted, IInv
<1>3. ClaimsDiffer'
  BY <1>1 DEF ClaimsDiffer, IInv
<1>4. LiveHolds'
  <2> SUFFICES ASSUME NEW w \in Worker, Live(w)'
               PROVE  ClaimedBy(work[w])' /\ jobs'[work'[w].id].heldUntil = work'[w].until
    BY DEF LiveHolds
  <2>1. Busy(w)'
    BY DEF Live, Busy
  <2> QED
    BY <1>1, <2>1 DEF LiveHolds, IInv, ClaimedBy
<1> QED
  BY <1>2, <1>3, <1>4 DEF IInv

\* What the end of a claim that has its job still leaves true: the other claims of
\* the job ran out before.
LEMMA Ended ==
    ASSUME TypeOK, IInv, UNCHANGED <<clock, last>>, NowsPassed',
           work' \in [Worker -> Work], NEW w \in Worker, Busy(w), ClaimedBy(work[w]),
           jobs' \in [1..last -> Job],
           \A i \in 1..last : i # work[w].id => jobs'[i] = jobs[i],
           \A x \in Worker : x # w => work'[x] = work[x],
           \/ jobs'[work[w].id].st = "gone"
           \/ jobs'[work[w].id].attempts >= jobs[work[w].id].attempts - 1,
           \/ work'[w].pc = "free"
           \/ /\ work'[w].pc = "onfail"
              /\ work'[w].id = work[w].id /\ work'[w].attempts = work[w].attempts
              /\ jobs'[work[w].id].attempts >= work[w].attempts
    PROVE  IInv'
<1>0. /\ work \in [Worker -> Work] /\ jobs \in [1..last -> Job]
      /\ \A x \in Worker : Busy(x) => work[x].id \in 1..last
      /\ \A x \in Worker : work[x].attempts \in Nat /\ work'[x].attempts \in Nat
      /\ \A i \in 1..last : jobs[i].attempts \in Nat /\ jobs'[i].attempts \in Nat
  BY DEF TypeOK, StoreTypeOK, Work, Job
<1>1. ASSUME NEW x \in Worker, x # w, Busy(x), work[x].id = work[w].id
      PROVE  /\ ~Live(x)
             /\ work[x].attempts <= jobs[work[w].id].attempts - 1
  <2>1. work[x].attempts # work[w].attempts /\ jobs[work[w].id].attempts = work[w].attempts
    BY <1>1 DEF IInv, ClaimsDiffer, ClaimedBy
  <2>2. ~Live(x)
    BY <1>1, <2>1 DEF IInv, LiveHolds, ClaimedBy
  <2>3. work[x].attempts <= jobs[work[w].id].attempts
    BY <1>1 DEF IInv, ClaimsCounted, ClaimedBy
  <2> QED
    BY <1>0, <1>1, <2>1, <2>2, <2>3
<1>2. ClaimsCounted'
  <2> SUFFICES ASSUME NEW x \in Worker, Busy(x)', jobs'[work'[x].id].st # "gone"
               PROVE  work'[x].attempts <= jobs'[work'[x].id].attempts
    BY DEF ClaimsCounted
  <2>1. CASE x = w
    BY <1>0, <2>1 DEF Busy
  <2>2. CASE x # w /\ work[x].id = work[w].id
    <3>1. Busy(x) /\ work'[x] = work[x]
      BY <2>2 DEF Busy
    <3> QED
      BY <1>0, <1>1, <2>2, <3>1
  <2>3. CASE x # w /\ work[x].id # work[w].id
    BY <1>0, <2>3 DEF Busy, IInv, ClaimsCounted
  <2> QED
    BY <2>1, <2>2, <2>3
<1>3. ClaimsDiffer'
  BY DEF IInv, ClaimsDiffer, Busy
<1>4. LiveHolds'
  <2> SUFFICES ASSUME NEW x \in Worker, Live(x)'
               PROVE  ClaimedBy(work[x])' /\ jobs'[work'[x].id].heldUntil = work'[x].until
    BY DEF LiveHolds
  <2>1. x # w
    BY DEF Live
  <2>2. Live(x) /\ Busy(x) /\ work'[x] = work[x]
    BY <2>1 DEF Live, Busy
  <2>3. work[x].id # work[w].id /\ work[x].id \in 1..last
    BY <1>0, <1>1, <2>1, <2>2
  <2> QED
    BY <2>2, <2>3 DEF IInv, LiveHolds, ClaimedBy
<1> QED
  BY <1>2, <1>3, <1>4 DEF IInv

\* What a claim leaves true, whether its answer reaches a worker or is lost: it's
\* of a job no live claim has, as its hold has run out by the time the loop read.
LEMMA Held ==
    ASSUME TypeOK, IInv, UNCHANGED <<clock, last>>, NowsPassed',
           NEW id \in 1..last, NEW now \in Nat, now <= clock, NextDue(id, now),
           Hold(id, now + HoldFor),
           work' \in [Worker -> Work],
           \/ UNCHANGED work
           \/ \E w \in Worker :
                 /\ ~Busy(w)
                 /\ \A x \in Worker : x # w => work'[x] = work[x]
                 /\ work'[w].id = id
                 /\ work'[w].attempts = jobs[id].attempts + 1
                 /\ work'[w].until = now + HoldFor
    PROVE  IInv'
<1>0. /\ work \in [Worker -> Work] /\ jobs \in [1..last -> Job] /\ clock \in Nat
      /\ \A x \in Worker : Busy(x) => work[x].id \in 1..last
      /\ \A x \in Worker : work[x].attempts \in Nat /\ work[x].until \in Nat
      /\ jobs[id].attempts \in Nat /\ jobs[id].heldUntil \in Nat
  <2>1. work \in [Worker -> Work] /\ jobs \in [1..last -> Job] /\ clock \in Nat
        /\ \A x \in Worker : Busy(x) => work[x].id \in 1..last
    BY QueueAssumption DEF TypeOK, StoreTypeOK, QueueAssumption
  <2>2. \A x \in Worker : work[x].attempts \in Nat /\ work[x].until \in Nat
    BY <2>1 DEF Work
  <2>3. jobs[id].attempts \in Nat /\ jobs[id].heldUntil \in Nat
    BY <2>1 DEF Job
  <2> QED
    BY <2>1, <2>2, <2>3
<1>1. /\ jobs[id].st = "kept" /\ jobs[id].heldUntil <= clock
      /\ jobs'[id].st = "kept"
      /\ jobs'[id].attempts = jobs[id].attempts + 1
      /\ jobs'[id].heldUntil = now + HoldFor
      /\ \A i \in 1..last : i # id => jobs'[i] = jobs[i]
  BY <1>0 DEF NextDue, Claimable, Hold, Job
<1>2. ASSUME NEW x \in Worker, Busy(x), work[x].id = id
      PROVE  ~Live(x) /\ work[x].attempts <= jobs[id].attempts
  <2>1. work[x].attempts <= jobs[id].attempts
    BY <1>1, <1>2 DEF IInv, ClaimsCounted
  <2>2. ~Live(x)
    BY <1>0, <1>1, <1>2 DEF IInv, LiveHolds, Live
  <2> QED
    BY <2>1, <2>2
<1>3. ASSUME NEW x \in Worker, work'[x] = work[x]
      PROVE  /\ (Busy(x)' <=> Busy(x)) /\ (Live(x)' <=> Live(x))
             /\ Busy(x) /\ jobs'[work[x].id].st # "gone"
                   => work'[x].attempts <= jobs'[work'[x].id].attempts
             /\ Live(x) => ClaimedBy(work[x])' /\ jobs'[work'[x].id].heldUntil = work'[x].until
  <2>1. (Busy(x)' <=> Busy(x)) /\ (Live(x)' <=> Live(x))
    BY <1>3 DEF Busy, Live
  <2>2. CASE Busy(x) /\ work[x].id = id
    BY <1>0, <1>1, <1>2, <1>3, <2>1, <2>2
  <2>3. CASE Busy(x) /\ work[x].id # id
    <3>1. jobs'[work[x].id] = jobs[work[x].id]
      BY <1>0, <1>1, <2>3
    <3> QED
      BY <1>3, <2>1, <2>3, <3>1 DEF IInv, ClaimsCounted, LiveHolds, ClaimedBy
  <2> QED
    BY <2>1, <2>2, <2>3 DEF Live, Busy
<1>4. CASE UNCHANGED work
  <2>1. \A x \in Worker : work'[x] = work[x]
    BY <1>4
  <2>2. ClaimsCounted' /\ LiveHolds'
    BY <1>3, <2>1 DEF ClaimsCounted, LiveHolds
  <2>3. ClaimsDiffer'
    BY <1>4 DEF IInv, ClaimsDiffer, Busy
  <2> QED
    BY <2>2, <2>3 DEF IInv
<1>5. ASSUME NEW w \in Worker, ~Busy(w),
             \A x \in Worker : x # w => work'[x] = work[x],
             work'[w].id = id, work'[w].attempts = jobs[id].attempts + 1,
             work'[w].until = now + HoldFor
      PROVE  IInv'
  <2>1. ClaimsCounted'
    BY <1>0, <1>1, <1>3, <1>5 DEF ClaimsCounted
  <2>2. LiveHolds'
    BY <1>1, <1>3, <1>5 DEF LiveHolds, ClaimedBy
  <2>3. ASSUME NEW x \in Worker, x # w, Busy(x)', work'[x].id = id
        PROVE  work'[x].attempts # work'[w].attempts
    BY <1>0, <1>2, <1>3, <1>5, <2>3
  <2>4. ClaimsDiffer'
    BY <1>3, <1>5, <2>3 DEF IInv, ClaimsDiffer
  <2> QED
    BY <2>1, <2>2, <2>4 DEF IInv
<1> QED
  BY <1>4, <1>5

\* No call that pushes touches a claim.
RowsKept ==
    \A i \in 1..last : /\ jobs'[i].st = jobs[i].st
                       /\ jobs'[i].attempts = jobs[i].attempts
                       /\ jobs'[i].heldUntil = jobs[i].heldUntil

LEMMA PushKeeps ==
    ASSUME Rows, NEW k, NEW v, NEW at, push(k, v, at) \/ PushUnique(k, v, at)
    PROVE  RowsKept
BY DEF Rows, RowsKept, push, PushUnique

LEMMA PushLatestKeeps ==
    ASSUME Rows, NEW k, NEW v, NEW at, PushLatest(k, v, at)
    PROVE  RowsKept
<1>1. CASE Waiting(k, KeyOf(k, v))
  BY <1>1 DEF PushLatest, Rows, RowsKept, Job
<1>2. CASE ~Waiting(k, KeyOf(k, v))
  BY <1>2, PushKeeps DEF PushLatest
<1> QED
  BY <1>1, <1>2

\* A report writes the row of a claim that has its job still, or no row at all;
\* the row keeps its attempts, unless it's deleted.
LEMMA TellsWrites ==
    ASSUME Rows, NEW w \in Worker, work[w].id \in 1..last, Tells(w)
    PROVE  \/ UNCHANGED jobs
           \/ /\ ClaimedBy(work[w])
              /\ \A i \in 1..last : i # work[w].id => jobs'[i] = jobs[i]
              /\ \/ jobs'[work[w].id].st = "gone" /\ work[w].verdict = "done"
                 \/ jobs'[work[w].id].attempts = jobs[work[w].id].attempts
<1> DEFINE c == work[w]
<1>0. jobs \in [1..last -> Job] /\ c.id \in 1..last /\ jobs[c.id] \in Job
  BY DEF Rows
<1>1. CASE ~ClaimedBy(c)
  BY <1>1 DEF Tells, Done, Retry, Fail
<1>2. CASE ClaimedBy(c) /\ c.verdict = "done" /\ Done(c)
  BY <1>0, <1>2 DEF Done, Deleted
<1>3. CASE ClaimedBy(c) /\ (Retry(c, c.at) \/ Fail(c))
  <2>1. \/ jobs' = [jobs EXCEPT ![c.id].runAt = c.at, ![c.id].heldUntil = 0]
        \/ jobs' = [jobs EXCEPT ![c.id].st = "failed", ![c.id].heldUntil = 0]
    BY <1>3 DEF Retry, Fail
  <2>2. jobs'[c.id].attempts = jobs[c.id].attempts
    <3>1. CASE jobs' = [jobs EXCEPT ![c.id].runAt = c.at, ![c.id].heldUntil = 0]
      <4>1. jobs'[c.id] = [jobs[c.id] EXCEPT !.runAt = c.at, !.heldUntil = 0]
        BY <1>0, <3>1
      <4> QED
        BY <1>0, <4>1 DEF Job
    <3>2. CASE jobs' = [jobs EXCEPT ![c.id].st = "failed", ![c.id].heldUntil = 0]
      <4>1. jobs'[c.id] = [jobs[c.id] EXCEPT !.st = "failed", !.heldUntil = 0]
        BY <1>0, <3>2
      <4> QED
        BY <1>0, <4>1 DEF Job
    <3> QED
      BY <2>1, <3>1, <3>2
  <2>3. \A i \in 1..last : i # c.id => jobs'[i] = jobs[i]
    BY <1>0, <2>1
  <2> QED
    BY <1>3, <2>2, <2>3
<1> QED
  BY <1>1, <1>2, <1>3 DEF Tells

\* So does a job held back, whose attempt is given back.
LEMMA HoldBackWrites ==
    ASSUME Rows, NEW w \in Worker, work[w].id \in 1..last, NEW until, HoldBack(work[w], until)
    PROVE  \/ UNCHANGED jobs
           \/ /\ ClaimedBy(work[w])
              /\ \A i \in 1..last : i # work[w].id => jobs'[i] = jobs[i]
              /\ jobs'[work[w].id].attempts = jobs[work[w].id].attempts - 1
<1> DEFINE c == work[w]
<1>0. jobs \in [1..last -> Job] /\ c.id \in 1..last /\ jobs[c.id] \in Job
  BY DEF Rows
<1>1. CASE ~ClaimedBy(c)
  BY <1>1 DEF HoldBack, GiveBack
<1>2. CASE ClaimedBy(c)
  <2>1. jobs' = [jobs EXCEPT ![c.id] = PutBack(@)]
    BY <1>2 DEF HoldBack, GiveBack
  <2>2. PutBack(jobs[c.id]).attempts = jobs[c.id].attempts - 1
    BY <1>0 DEF PutBack, Job
  <2> QED
    BY <1>0, <1>2, <2>1, <2>2
<1> QED
  BY <1>1, <1>2

-----------------------------------------------------------------------------
(* Each step keeps the invariant.                                          *)

LEMMA GotoNow ==
    ASSUME LoopsOK, NowsPassed, clock \in Nat, clock' = clock,
           NEW i \in Instances, NEW l, l.now <= clock, Goto(i, l)
    PROVE  NowsPassed'
BY DEF LoopsOK, NowsPassed, Goto, Loop

LEMMA AtNow ==
    ASSUME NEW pc, clock \in Nat, NEW now \in Nat, now <= clock
    PROVE  At(pc, now).now <= clock
BY DEF At

LEMMA TopNow ==
    ASSUME NEW i \in Instances, clock \in Nat
    PROVE  Top(i).now <= clock
BY DEF Top, At

LEMMA RunErrorNow ==
    ASSUME LoopsOK, NowsPassed, clock \in Nat, clock' = clock,
           NEW i \in Instances, RunError(i)
    PROVE  NowsPassed'
BY GotoNow, AtNow DEF RunError, NowsPassed

LEMMA LoopInv ==
    ASSUME TypeOK, TypeOK', IInv, NEW i \in Instances, LoopStep(i)
    PROVE  IInv'
<1>0. /\ Rows /\ LoopsOK /\ WorkOK /\ loop[i].now \in Nat /\ clock \in Nat /\ clock' \in Nat
      /\ loop[i].now <= clock /\ NowsPassed /\ work' \in [Worker -> Work]
  BY QueueAssumption, TypeParts DEF LoopsOK, Loop, TypeOK, QueueAssumption, IInv, NowsPassed
<1>1. ASSUME NEW k \in ScheduledKinds, PushRun(i, k)
      PROVE  IInv'
  <2>1. RowsKept
    BY <1>0, <1>1, PushKeeps DEF PushRun, PushScheduled, RowsKept
  <2>2. NowsPassed' /\ clock' = clock
    BY <1>0, <1>1, GotoNow DEF PushRun, env, LoopsOK, Loop
  <2>3. \A w \in Worker : ClaimKept(w)
    BY <1>0, <1>1 DEF PushRun, ClaimKept, Busy
  <2> QED
    BY <1>0, <2>1, <2>2, <2>3, Undisturbed DEF RowsKept
<1>2. ASSUME NEW l, l.now <= clock, Goto(i, l), UNCHANGED <<storeVars, env, work>>
      PROVE  IInv'
  <2>1. NowsPassed' /\ clock' = clock
    BY <1>0, <1>2, GotoNow DEF env
  <2>2. \A w \in Worker : ClaimKept(w)
    BY <1>2 DEF ClaimKept, Busy
  <2> QED
    BY <1>0, <1>2, <2>1, <2>2, Undisturbed DEF storeVars
<1>3. CASE PushedRuns(i)
  BY <1>0, <1>2, <1>3, AtNow DEF PushedRuns
<1>4. CASE TakeSlot(i)
  BY <1>0, <1>2, <1>4, AtNow DEF TakeSlot
<1>5. CASE Break(i)
  BY <1>0, <1>2, <1>5, AtNow DEF Break
<1>6. CASE Claim(i)
  <2>1. PICK id \in 1..last, s \in 1..Slots :
           /\ NextDue(id, loop[i].now)
           /\ ~Busy(<<i, s>>)
           /\ Hold(id, loop[i].now + HoldFor)
           /\ work' = [work EXCEPT ![<<i, s>>] =
                  [pc |-> IF Rated(i, jobs[id].kind) THEN "rate" ELSE "run", id |-> id,
                   attempts |-> jobs[id].attempts + 1, until |-> loop[i].now + HoldFor,
                   verdict |-> "none", at |-> 0]]
           /\ Goto(i, IF i \in Drainers THEN At("draining", 0) ELSE Top(i))
           /\ UNCHANGED <<clock, last>>
    BY <1>6 DEF Claim, env
  <2>2. NowsPassed'
    BY <1>0, <2>1, GotoNow, AtNow, TopNow
  <2>3. <<i, s>> \in Worker
    BY DEF Worker
  <2>4. /\ \A x \in Worker : x # <<i, s>> => work'[x] = work[x]
        /\ work'[<<i, s>>].id = id
        /\ work'[<<i, s>>].attempts = jobs[id].attempts + 1
        /\ work'[<<i, s>>].until = loop[i].now + HoldFor
    BY <1>0, <2>1, <2>3 DEF WorkOK
  <2> QED
    BY <1>0, <2>1, <2>2, <2>3, <2>4, Held
<1>7. CASE ClaimNothing(i)
  <2>1. NowsPassed' /\ UNCHANGED <<clock, last, work>>
    BY <1>0, <1>7, GotoNow, AtNow DEF ClaimNothing, env
  <2>2. CASE UNCHANGED jobs
    <3>1. \A w \in Worker : ClaimKept(w)
      BY <2>1 DEF ClaimKept, Busy
    <3> QED
      BY <1>0, <2>1, <2>2, <3>1, Undisturbed
  <2>3. ASSUME NEW id \in 1..last, NextDue(id, loop[i].now), Hold(id, loop[i].now + HoldFor)
        PROVE  IInv'
    BY <1>0, <2>1, <2>3, Held
  <2> QED
    BY <1>7, <2>2, <2>3 DEF ClaimNothing
<1>8. CASE IdleEnds(i)
  BY <1>0, <1>2, <1>8, TopNow DEF IdleEnds
<1>9. CASE DrainNext(i)
  BY <1>0, <1>2, <1>9, AtNow DEF DrainNext
<1>10. CASE GraceOver(i)
  BY <1>0, <1>2, <1>10, AtNow DEF GraceOver
<1>11. CASE Return(i)
  BY <1>0, <1>2, <1>11, AtNow DEF Return
<1> QED
  BY <1>1, <1>3, <1>4, <1>5, <1>6, <1>7, <1>8, <1>9, <1>10, <1>11 DEF LoopStep

LEMMA WorkerInv ==
    ASSUME TypeOK, TypeOK', IInv, NEW w \in Worker, WorkerStep(w)
    PROVE  IInv'
<1>0. /\ Rows /\ LoopsOK /\ WorkOK /\ clock \in Nat /\ clock' \in Nat
      /\ NowsPassed /\ work' \in [Worker -> Work] /\ w[1] \in Instances
  BY QueueAssumption, TypeParts DEF TypeOK, QueueAssumption, IInv, Worker
<1>a. ASSUME Busy(w) PROVE work[w].id \in 1..last
  BY <1>0, <1>a DEF WorkOK
<1>b. jobs' \in [1..last' -> Job]
  BY DEF TypeOK, StoreTypeOK
<1>1. ASSUME UNCHANGED <<clock, jobs>>, NowsPassed', \A x \in Worker : ClaimKept(x)
      PROVE  IInv'
  BY <1>0, <1>1, Undisturbed
\* The end of w's claim, its job's row written or not.
<1>2. ASSUME Busy(w), UNCHANGED <<clock, last>>, NowsPassed', Frees(w),
             \/ UNCHANGED jobs
             \/ /\ ClaimedBy(work[w])
                /\ \A i \in 1..last : i # work[w].id => jobs'[i] = jobs[i]
                /\ \/ jobs'[work[w].id].st = "gone"
                   \/ jobs'[work[w].id].attempts = jobs[work[w].id].attempts
                   \/ jobs'[work[w].id].attempts = jobs[work[w].id].attempts - 1
      PROVE  IInv'
  <2>1. work'[w].pc = "free" /\ \A x \in Worker : x # w => work'[x] = work[x]
    BY <1>0, <1>2 DEF Frees, WorkOK, Free
  <2>2. CASE UNCHANGED jobs
    <3>1. \A x \in Worker : ClaimKept(x)
      BY <2>1 DEF ClaimKept, Busy
    <3> QED
      BY <1>1, <1>2, <2>2, <3>1
  <2>3. CASE ClaimedBy(work[w]) /\ ~UNCHANGED jobs
    <3>1. jobs[work[w].id].attempts \in Nat
      BY <1>0, <1>2, <1>a DEF Rows, Job
    <3>2. jobs' \in [1..last -> Job]
      BY <1>2, <1>b
    <3>3. jobs'[work[w].id].st = "gone" \/ jobs'[work[w].id].attempts >= jobs[work[w].id].attempts - 1
      BY <1>2, <2>3, <3>1
    <3> QED
      BY <1>0, <1>2, <2>1, <2>3, <3>2, <3>3, Ended
  <2> QED
    BY <1>2, <2>2, <2>3
<1>3. CASE RateAllows(w)
  <2>1. \A x \in Worker : ClaimKept(x)
    BY <1>0, <1>3 DEF RateAllows, ClaimKept, WorkOK, Work, Busy, Doing
  <2>2. UNCHANGED <<clock, jobs>> /\ NowsPassed'
    BY <1>0, <1>3 DEF RateAllows, storeVars, env, runVars, NowsPassed
  <2> QED
    BY <1>1, <2>1, <2>2
<1>4. ASSUME NEW wait \in Waits, RateRefuses(w, wait)
      PROVE  IInv'
  <2>1. Busy(w) /\ UNCHANGED <<clock, last>> /\ NowsPassed' /\ Frees(w)
    BY <1>0, <1>4 DEF RateRefuses, env, runVars, NowsPassed, Busy, Doing
  <2>2. \/ UNCHANGED jobs
        \/ /\ ClaimedBy(work[w])
           /\ \A i \in 1..last : i # work[w].id => jobs'[i] = jobs[i]
           /\ jobs'[work[w].id].attempts = jobs[work[w].id].attempts - 1
    BY <1>0, <1>4, <1>a, <2>1, HoldBackWrites DEF RateRefuses
  <2> QED
    BY <1>2, <2>1, <2>2
<1>5. ASSUME NEW wait \in Waits, RefusalLost(w, wait)
      PROVE  IInv'
  <2>1. Busy(w) /\ UNCHANGED <<clock, last, jobs>> /\ NowsPassed' /\ Frees(w)
    BY <1>0, <1>5, RunErrorNow DEF RefusalLost, env, Busy, Doing
  <2> QED
    BY <1>2, <2>1
<1>6. ASSUME NEW err \in {"nil", "failed", "permanent"}, NEW b \in Backoffs, HandlerReturns(w, err, b)
      PROVE  IInv'
  <2>1. PICK verdict, at :
          work' = [work EXCEPT ![w] = [@ EXCEPT !.pc = "report", !.verdict = verdict, !.at = at]]
    BY <1>6 DEF HandlerReturns
  <2>2. work[w].pc = "run" /\ UNCHANGED <<clock, jobs>> /\ NowsPassed'
    BY <1>0, <1>6 DEF HandlerReturns, storeVars, env, runVars, NowsPassed, Doing
  <2>3. \A x \in Worker : ClaimKept(x)
    BY <1>0, <2>1, <2>2 DEF ClaimKept, WorkOK, Work, Busy
  <2> QED
    BY <1>1, <2>2, <2>3
<1>7. ASSUME Busy(w), Tells(w)
      PROVE  \/ UNCHANGED jobs
             \/ /\ ClaimedBy(work[w])
                /\ \A i \in 1..last : i # work[w].id => jobs'[i] = jobs[i]
                /\ \/ jobs'[work[w].id].st = "gone" /\ work[w].verdict = "done"
                   \/ jobs'[work[w].id].attempts = jobs[work[w].id].attempts
  BY <1>0, <1>7, <1>a, TellsWrites
<1>8. CASE Report(w)
  <2>1. work[w].pc = "report" /\ Busy(w) /\ UNCHANGED <<clock, last>> /\ NowsPassed' /\ Tells(w)
    BY <1>0, <1>8 DEF Report, env, NowsPassed, Busy, Doing
  <2>2. CASE Frees(w)
    BY <1>2, <1>7, <2>1, <2>2
  <2>3. CASE work[w].verdict = "fail" /\ work' = [work EXCEPT ![w].pc = "onfail"]
    <3>1. /\ work'[w].pc = "onfail" /\ work'[w].id = work[w].id
          /\ work'[w].attempts = work[w].attempts /\ work'[w].until = work[w].until
          /\ \A x \in Worker : x # w => work'[x] = work[x]
      BY <1>0, <2>3 DEF WorkOK, Work
    <3>2. CASE UNCHANGED jobs
      <4>1. \A x \in Worker : ClaimKept(x)
        BY <2>1, <3>1 DEF ClaimKept, Busy
      <4> QED
        BY <1>1, <2>1, <3>2, <4>1
    <3>3. CASE /\ ClaimedBy(work[w])
               /\ \A i \in 1..last : i # work[w].id => jobs'[i] = jobs[i]
               /\ jobs'[work[w].id].attempts = jobs[work[w].id].attempts
      <4>1. jobs[work[w].id].attempts \in Nat /\ work[w].attempts = jobs[work[w].id].attempts
        BY <1>0, <1>a, <2>1, <3>3 DEF Rows, Job, ClaimedBy
      <4>2. /\ jobs'[work[w].id].attempts >= jobs[work[w].id].attempts - 1
            /\ jobs'[work[w].id].attempts >= work[w].attempts
        BY <3>3, <4>1
      <4>3. jobs' \in [1..last -> Job]
        BY <1>b, <2>1
      <4> QED
        BY <1>0, <2>1, <3>1, <3>3, <4>2, <4>3, Ended
    <3> QED
      BY <1>7, <2>1, <2>3, <3>2, <3>3
  <2> QED
    BY <1>8, <2>2, <2>3 DEF Report
<1>9. CASE ReportLost(w)
  <2>1. Busy(w) /\ UNCHANGED <<clock, last>> /\ NowsPassed' /\ Frees(w)
    BY <1>0, <1>9, RunErrorNow DEF ReportLost, env, Busy, Doing
  <2>2. Tells(w) \/ UNCHANGED jobs
    BY <1>9 DEF ReportLost
  <2> QED
    BY <1>2, <1>7, <2>1, <2>2
<1>10. CASE OnFailReturns(w)
  <2>1. Busy(w) /\ UNCHANGED <<clock, last, jobs>> /\ NowsPassed' /\ Frees(w)
    BY <1>0, <1>10 DEF OnFailReturns, storeVars, env, NowsPassed, Busy, Doing
  <2> QED
    BY <1>2, <2>1
<1> QED
  BY <1>3, <1>4, <1>5, <1>6, <1>8, <1>9, <1>10 DEF WorkerStep

LEMMA EnvironmentInv ==
    ASSUME TypeOK, TypeOK', IInv, Environment
    PROVE  IInv'
<1>0. /\ Rows /\ LoopsOK /\ WorkOK /\ clock \in Nat /\ clock' \in Nat
      /\ NowsPassed /\ work' \in [Worker -> Work]
  BY QueueAssumption, TypeParts DEF TypeOK, QueueAssumption, IInv
<1>1. CASE Tick
  <2>1. clock <= clock' /\ NowsPassed'
    BY <1>0, <1>1 DEF Tick, runVars, NowsPassed, LoopsOK, Loop
  <2>2. UNCHANGED <<jobs, work>>
    BY <1>1 DEF Tick, storeVars
  <2>3. \A x \in Worker : ClaimKept(x)
    BY <2>2 DEF ClaimKept, Busy
  <2> QED
    BY <1>0, <2>1, <2>2, <2>3, Undisturbed
<1>2. ASSUME UNCHANGED <<clock, jobs>>, NowsPassed', \A x \in Worker : ClaimKept(x)
      PROVE  IInv'
  BY <1>0, <1>2, Undisturbed
<1>3. ASSUME NEW i \in Instances, Start(i)
      PROVE  IInv'
  <2>1. UNCHANGED <<clock, jobs, work>> /\ NowsPassed'
    BY <1>0, <1>3, GotoNow, AtNow, TopNow DEF Start, storeVars, env
  <2> QED
    BY <1>2, <2>1 DEF ClaimKept, Busy
<1>4. ASSUME NEW i \in Instances, Stop(i)
      PROVE  IInv'
  <2>1. UNCHANGED <<clock, jobs, work>> /\ NowsPassed'
    BY <1>0, <1>4 DEF Stop, storeVars, NowsPassed
  <2> QED
    BY <1>2, <2>1 DEF ClaimKept, Busy
<1>5. ASSUME NEW i \in Instances, Exit(i)
      PROVE  IInv'
  <2>1. UNCHANGED <<clock, jobs>> /\ NowsPassed'
    BY <1>0, <1>5, GotoNow, AtNow DEF Exit, Off, storeVars
  <2>2. \A x \in Worker : ClaimKept(x)
    BY <1>5 DEF Exit, ClaimKept, Busy, Free
  <2> QED
    BY <1>2, <2>1, <2>2
<1>6. ASSUME NEW w \in Worker, HandlerHangs(w)
      PROVE  IInv'
  <2>1. UNCHANGED <<clock, jobs>> /\ NowsPassed'
    BY <1>0, <1>6 DEF HandlerHangs, storeVars, env, runVars, NowsPassed
  <2>2. \A x \in Worker : ClaimKept(x)
    BY <1>0, <1>6 DEF HandlerHangs, ClaimKept, WorkOK, Work, Busy, Doing
  <2> QED
    BY <1>2, <2>1, <2>2
<1>7. ASSUME NEW i \in Instances, NEW k \in Kinds, NEW v \in Keys,
             (\E a \in Ahead : PushAt(i, k, v, a)) \/ (\E y \in InWakes : PushIn(i, k, v, y))
      PROVE  IInv'
  <2>1. PICK at : Push(k, v, at) /\ UNCHANGED <<clock, loop, work>>
    BY <1>7 DEF PushAt, PushIn, env
  <2>2. RowsKept
    BY <1>0, <2>1, PushKeeps, PushLatestKeeps DEF Push
  <2>3. NowsPassed' /\ \A x \in Worker : ClaimKept(x)
    BY <1>0, <2>1 DEF NowsPassed, ClaimKept, Busy
  <2> QED
    BY <1>0, <2>1, <2>2, <2>3, Undisturbed DEF RowsKept
<1> QED
  BY <1>1, <1>3, <1>4, <1>5, <1>6, <1>7 DEF Environment

LEMMA InitInv == Init => IInv
<1> SUFFICES ASSUME Init PROVE IInv
  OBVIOUS
<1>1. \A w \in Worker : ~Busy(w) /\ ~Live(w)
  BY DEF Init, Busy, Live, Free
<1>2. NowsPassed
  BY DEF Init, NowsPassed, Off, At
<1> QED
  BY <1>1, <1>2 DEF IInv, ClaimsCounted, ClaimsDiffer, LiveHolds

LEMMA InvStep ==
    ASSUME TypeOK, TypeOK', IInv, [Next]_vars
    PROVE  IInv'
<1>1. CASE Next
  BY <1>1, LoopInv, WorkerInv, EnvironmentInv DEF Next
<1>2. CASE UNCHANGED vars
  BY <1>2 DEF vars, storeVars, env, runVars, IInv, ClaimsCounted, ClaimsDiffer, LiveHolds,
              NowsPassed, Busy, Live, ClaimedBy
<1> QED
  BY <1>1, <1>2

LEMMA IInvExcludes == IInv => ExclusiveHold
BY DEF IInv, ClaimsDiffer, LiveHolds, ClaimedBy, ExclusiveHold, Live, Busy

\* In every run of the app's instances, by as many workers and through whatever
\* kills, lost answers and late reports, the claims of the workers whose holds
\* last are each of a job of its own: the Store's promise of Claim, which its
\* Done, Retry, Fail and HoldBack keep by comparing a claim's attempts.
THEOREM Exclusion == Spec => []ExclusiveHold
<1>1. TypeOK /\ TypeOK' /\ IInv /\ [Next]_vars => IInv'
  BY InvStep
<1> QED
  BY InitInv, TypeCorrect, IInvExcludes, <1>1, PTL DEF Spec

-----------------------------------------------------------------------------
(* OneAtATime.  A claim passes over a job while a live claim has another of *)
(* its kind and key, as LiveHolds says that other is held past any time a   *)
(* loop has read.                                                           *)

\* A job is of its kind, with its value, for good.
LEMMA JobsStay ==
    ASSUME Rows, [Next]_vars
    PROVE  \A i \in 1..last : jobs'[i].kind = jobs[i].kind /\ jobs'[i].value = jobs[i].value
<1> DEFINE Stay == \A i \in 1..last : jobs'[i].kind = jobs[i].kind /\ jobs'[i].value = jobs[i].value
<1>0. jobs \in [1..last -> Job]
  BY DEF Rows
<1>1. ASSUME NEW k, NEW v, NEW at, push(k, v, at) \/ PushUnique(k, v, at) \/ PushLatest(k, v, at)
      PROVE  Stay
  <2>1. CASE push(k, v, at)
    BY <1>0, <2>1 DEF Rows, push
  <2>2. CASE PushLatest(k, v, at) /\ Waiting(k, KeyOf(k, v))
    BY <1>0, <2>2 DEF PushLatest, Job
  <2> QED
    BY <1>1, <2>1, <2>2 DEF PushUnique, PushLatest
<1>2. ASSUME NEW c, Done(c) \/ Retry(c, c.at) \/ Fail(c)
      PROVE  Stay
  <2>1. CASE UNCHANGED jobs
    BY <2>1
  <2>2. CASE jobs' = [jobs EXCEPT ![c.id] = Deleted(@)]
    BY <1>0, <2>2 DEF Deleted, Job
  <2>3. CASE jobs' = [jobs EXCEPT ![c.id].runAt = c.at, ![c.id].heldUntil = 0]
    BY <1>0, <2>3 DEF Job
  <2>4. CASE jobs' = [jobs EXCEPT ![c.id].st = "failed", ![c.id].heldUntil = 0]
    BY <1>0, <2>4 DEF Job
  <2> QED
    BY <1>2, <2>1, <2>2, <2>3, <2>4 DEF Done, Retry, Fail
<1>3. ASSUME NEW c, NEW until, HoldBack(c, until)
      PROVE  Stay
  BY <1>0, <1>3 DEF HoldBack, GiveBack, PutBack, Job
<1>4. ASSUME NEW i, NEW until, Hold(i, until)
      PROVE  Stay
  BY <1>0, <1>4 DEF Hold, Job
<1>5. ASSUME NEW i \in Instances, LoopStep(i)
      PROVE  Stay
  <2>1. ASSUME NEW k \in ScheduledKinds, PushRun(i, k)
        PROVE  Stay
    BY <1>1, <2>1 DEF PushRun, PushScheduled
  <2>2. CASE Claim(i)
    BY <1>4, <2>2 DEF Claim
  <2>3. CASE ClaimNothing(i)
    BY <1>4, <2>3 DEF ClaimNothing
  <2>4. CASE UNCHANGED storeVars
    BY <2>4 DEF storeVars
  <2> QED
    BY <1>5, <2>1, <2>2, <2>3, <2>4
       DEF LoopStep, PushedRuns, TakeSlot, Break, IdleEnds, DrainNext, GraceOver, Return
<1>6. ASSUME NEW w \in Worker, WorkerStep(w)
      PROVE  Stay
  <2>1. CASE Tells(w)
    BY <1>2, <2>1 DEF Tells
  <2>2. ASSUME NEW wait \in Waits, RateRefuses(w, wait)
        PROVE  Stay
    BY <1>3, <2>2 DEF RateRefuses
  <2>3. CASE UNCHANGED jobs
    BY <2>3
  <2> QED
    BY <1>6, <2>1, <2>2, <2>3
       DEF WorkerStep, RateAllows, RefusalLost, HandlerReturns, Report, ReportLost, OnFailReturns, storeVars
<1>7. CASE Environment
  BY <1>1, <1>7 DEF Environment, Tick, Start, Stop, Exit, HandlerHangs, PushAt, PushIn, Push, storeVars
<1>8. CASE UNCHANGED vars
  BY <1>8 DEF vars, storeVars
<1> QED
  BY <1>5, <1>6, <1>7, <1>8 DEF Next

\* A step that isn't a claim starts no worker.
LEMMA OnlyClaimsStart ==
    ASSUME TypeOK, [Next]_vars, \A i \in Instances : ~Claim(i)
    PROVE  clock <= clock' /\ \A w \in Worker : ClaimKept(w)
<1> DEFINE Kept == clock <= clock' /\ \A w \in Worker : ClaimKept(w)
<1>0. clock \in Nat /\ work \in [Worker -> Work]
  BY QueueAssumption DEF TypeOK, QueueAssumption
<1>1. CASE UNCHANGED <<clock, work>>
  BY <1>0, <1>1 DEF ClaimKept, Busy
<1>2. ASSUME NEW i \in Instances, LoopStep(i)
      PROVE  Kept
  BY <1>1, <1>2 DEF LoopStep, PushRun, PushedRuns, TakeSlot, Break, ClaimNothing, IdleEnds,
                    DrainNext, GraceOver, Return, env
<1>3. ASSUME NEW w \in Worker, UNCHANGED clock,
             \/ Frees(w)
             \/ /\ Busy(w) /\ work[w].pc # "onfail"
                /\ \A x \in Worker : x # w => work'[x] = work[x]
                /\ work'[w].id = work[w].id
                /\ work'[w].attempts = work[w].attempts
                /\ work'[w].until = work[w].until
      PROVE  Kept
  BY <1>0, <1>3 DEF Frees, Free, ClaimKept, Busy
<1>4. ASSUME NEW w \in Worker, WorkerStep(w)
      PROVE  Kept
  <2>1. CASE RateAllows(w)
    BY <1>0, <1>3, <2>1 DEF RateAllows, env, Busy, Doing, Work
  <2>2. ASSUME NEW err \in {"nil", "failed", "permanent"}, NEW b \in Backoffs,
               HandlerReturns(w, err, b)
        PROVE  Kept
    <3>1. PICK verdict, at :
            work' = [work EXCEPT ![w] = [@ EXCEPT !.pc = "report", !.verdict = verdict, !.at = at]]
      BY <2>2 DEF HandlerReturns
    <3>2. work[w].pc = "run" /\ UNCHANGED clock
      BY <2>2 DEF HandlerReturns, env, Doing
    <3> QED
      BY <1>0, <1>3, <3>1, <3>2 DEF Busy, Work
  <2>3. CASE Report(w)
    <3>1. CASE Frees(w)
      BY <1>3, <2>3, <3>1 DEF Report, env
    <3>2. CASE work' = [work EXCEPT ![w].pc = "onfail"]
      BY <1>0, <1>3, <2>3, <3>2 DEF Report, env, Busy, Doing, Work
    <3> QED
      BY <2>3, <3>1, <3>2 DEF Report
  <2>4. CASE Frees(w) /\ UNCHANGED clock
    BY <1>3, <2>4
  <2> QED
    BY <1>4, <2>1, <2>2, <2>3, <2>4 DEF WorkerStep, RateRefuses, RefusalLost, ReportLost, OnFailReturns, env
<1>5. CASE Environment
  <2>1. CASE Tick
    BY <1>0, <2>1 DEF Tick, ClaimKept, Busy
  <2>2. ASSUME NEW i \in Instances, Exit(i)
        PROVE  Kept
    BY <1>0, <2>2 DEF Exit, ClaimKept, Busy, Free
  <2>3. ASSUME NEW w \in Worker, HandlerHangs(w)
        PROVE  Kept
    BY <1>0, <1>3, <2>3 DEF HandlerHangs, env, Busy, Doing, Work
  <2> QED
    BY <1>1, <1>5, <2>1, <2>2, <2>3 DEF Environment, Start, Stop, PushAt, PushIn, env
<1>6. CASE UNCHANGED vars
  BY <1>1, <1>6 DEF vars, env
<1> QED
  BY <1>2, <1>4, <1>5, <1>6 DEF Next

\* A job that's claimed isn't one of a OneAtATime kind whose value a live claim's has.
LEMMA ClaimedAlone ==
    ASSUME TypeOK, IInv, NEW i \in Instances, NEW id \in 1..last, NextDue(id, loop[i].now),
           NEW x \in Worker, Live(x), KindOf(x) = jobs[id].kind, jobs[id].kind \in OneAtATimeKinds
    PROVE  ValueOf(x) # jobs[id].value
<1> DEFINE o == work[x].id
           now == loop[i].now
<1>0. /\ jobs \in [1..last -> Job] /\ work \in [Worker -> Work] /\ loop \in [Instances -> Loop]
      /\ clock \in Nat /\ o \in 1..last /\ NoKey \notin Keys
  BY QueueAssumption, StoreAssumption
     DEF TypeOK, StoreTypeOK, QueueAssumption, StoreAssumption, Live, Busy
<1>1. now \in Nat /\ now <= clock /\ work[x].until \in Nat
  BY <1>0 DEF IInv, NowsPassed, Loop, Work
<1>2. jobs[o].heldUntil > now
  BY <1>0, <1>1 DEF IInv, LiveHolds, Live
<1>3. o \in HeldJobs(jobs[id].kind, now)
  BY <1>0, <1>2 DEF HeldJobs, KindOf
<1>4. o # id
  BY <1>0, <1>1, <1>2 DEF NextDue, Claimable, Job
<1>5. jobs[id].value # NoKey /\ AloneKey(jobs[id]) = jobs[id].value /\ AloneKey(jobs[o]) = jobs[o].value
  BY <1>0 DEF AloneKey, KindOf, Job
<1>6. ~Running(id, now)
  BY DEF NextDue, Claimable
<1> QED
  BY <1>3, <1>4, <1>5, <1>6 DEF Running, ValueOf, KindOf

LEMMA OneRunsStep ==
    ASSUME TypeOK, TypeOK', IInv, OneRuns, [Next]_vars
    PROVE  OneRuns'
<1>0. /\ Rows /\ clock \in Nat /\ work \in [Worker -> Work]
      /\ \A w \in Worker : Live(w) => work[w].id \in 1..last
  BY QueueAssumption, TypeParts DEF TypeOK, QueueAssumption, Live, Busy
<1>1. \A i \in 1..last : jobs'[i].kind = jobs[i].kind /\ jobs'[i].value = jobs[i].value
  BY <1>0, JobsStay
<1>2. ASSUME NEW w \in Worker, work'[w].pc = "free" \/ ClaimKept(w), clock' \in Nat,
             clock <= clock', Live(w)'
      PROVE  /\ Live(w) /\ work'[w].id = work[w].id
             /\ KindOf(w)' = KindOf(w) /\ ValueOf(w)' = ValueOf(w)
  <2>1. Live(w) /\ work'[w].id = work[w].id
    BY <1>0, <1>2 DEF ClaimKept, Live, Busy, Work
  <2> QED
    BY <1>0, <1>1, <2>1 DEF KindOf, ValueOf
<1>3. CASE \A i \in Instances : ~Claim(i)
  <2>1. clock <= clock' /\ \A w \in Worker : ClaimKept(w)
    BY <1>3, OnlyClaimsStart
  <2>2. clock' \in Nat
    BY QueueAssumption DEF TypeOK, QueueAssumption
  <2> QED
    BY <1>2, <2>1, <2>2 DEF OneRuns
<1>4. ASSUME NEW i \in Instances, Claim(i)
      PROVE  OneRuns'
  <2>1. PICK id \in 1..last, s \in 1..Slots :
           /\ NextDue(id, loop[i].now)
           /\ work' = [work EXCEPT ![<<i, s>>] =
                  [pc |-> IF Rated(i, jobs[id].kind) THEN "rate" ELSE "run", id |-> id,
                   attempts |-> jobs[id].attempts + 1, until |-> loop[i].now + HoldFor,
                   verdict |-> "none", at |-> 0]]
           /\ UNCHANGED clock
    BY <1>4 DEF Claim, env
  <2> DEFINE new == <<i, s>>
  <2>2. new \in Worker
    BY DEF Worker
  <2>3. work'[new].id = id /\ \A x \in Worker : x # new => work'[x] = work[x]
    BY <1>0, <2>1, <2>2
  <2>4. KindOf(new)' = jobs[id].kind /\ ValueOf(new)' = jobs[id].value
    BY <1>1, <2>3 DEF KindOf, ValueOf
  <2>5. ASSUME NEW x \in Worker, x # new, Live(x)'
        PROVE  /\ Live(x) /\ KindOf(x)' = KindOf(x) /\ ValueOf(x)' = ValueOf(x)
               /\ KindOf(x) = jobs[id].kind /\ jobs[id].kind \in OneAtATimeKinds
                     => ValueOf(x) # jobs[id].value
    <3>1. Live(x) /\ work'[x] = work[x]
      BY <2>1, <2>3, <2>5 DEF Live
    <3>2. KindOf(x)' = KindOf(x) /\ ValueOf(x)' = ValueOf(x)
      BY <1>0, <1>1, <3>1 DEF KindOf, ValueOf
    <3> QED
      BY <2>1, <3>1, <3>2, ClaimedAlone
  <2> QED
    BY <2>2, <2>4, <2>5 DEF OneRuns
<1> QED
  BY <1>3, <1>4

\* Of a OneAtATime kind's jobs of a value, one runs at a time, on all the instances
\* together, as long as the holds of their claims last.
THEOREM OneAtATime == Spec => []OneRuns
<1>1. Init => OneRuns
  BY DEF Init, OneRuns, Live, Free
<1>2. TypeOK /\ TypeOK' /\ IInv /\ [Next]_vars => IInv'
  BY InvStep
<1>3. TypeOK /\ TypeOK' /\ IInv /\ OneRuns /\ [Next]_vars => OneRuns'
  BY OneRunsStep
<1> QED
  BY InitInv, TypeCorrect, <1>1, <1>2, <1>3, PTL DEF Spec

-----------------------------------------------------------------------------
(* AtOnce.  Those of a kind that run each hold a job of their own, held past *)
(* the time a claim reads, so they're no more than those the claim counts.   *)

\* The workers that run a job of kind k, whose claim's hold lasts.
LiveOf(k) == {w \in Worker : Live(w) /\ KindOf(w) = k}

LEMMA NoMoreThanHeld ==
    ASSUME TypeOK, IInv, NEW k, NEW now \in Nat, now <= clock
    PROVE  /\ IsFiniteSet(LiveOf(k))
           /\ Cardinality(LiveOf(k)) \in Nat /\ Cardinality(HeldJobs(k, now)) \in Nat
           /\ Cardinality(LiveOf(k)) <= Cardinality(HeldJobs(k, now))
<1> DEFINE H == HeldJobs(k, now)
           L == LiveOf(k)
           f == [w \in L |-> work[w].id]
<1>0. /\ jobs \in [1..last -> Job] /\ work \in [Worker -> Work] /\ clock \in Nat
      /\ last \in Nat /\ \A w \in Worker : Busy(w) => work[w].id \in 1..last
  BY QueueAssumption, StoreAssumption, TypeParts
     DEF TypeOK, Rows, QueueAssumption, StoreAssumption
<1>1. IsFiniteSet(H)
  <2>1. IsFiniteSet(1..last)
    BY <1>0, FS_Interval
  <2> QED
    BY <2>1, FS_Subset DEF HeldJobs
<1>2. \A w \in L : work[w].id \in H
  <2> SUFFICES ASSUME NEW w \in L PROVE work[w].id \in H
    OBVIOUS
  <2>1. Live(w) /\ work[w].id \in 1..last /\ KindOf(w) = k
    BY <1>0 DEF LiveOf, Live, Busy
  <2>2. jobs[work[w].id].heldUntil > now
    BY <1>0, <2>1 DEF LiveOf, IInv, LiveHolds, Live, Work
  <2> QED
    BY <2>1, <2>2 DEF HeldJobs, KindOf
<1>3. f \in Injection(L, H)
  <2>1. f \in [L -> H]
    BY <1>2
  <2>2. \A w, x \in L : f[w] = f[x] => w = x
    BY IInvExcludes DEF ExclusiveHold, LiveOf
  <2> QED
    BY <2>1, <2>2 DEF Injection, IsInjective
<1>4. IsFiniteSet(L) /\ Cardinality(L) <= Cardinality(H)
  <2> HIDE DEF f, L, H
  <2> QED
    BY <1>1, <1>3, FS_Injection
<1> QED
  BY <1>1, <1>4, FS_CardinalityType

\* Of what a step leaves of those of a kind, there are no more than there were.
LEMMA FewerLive ==
    ASSUME TypeOK, IInv, AtOnceLimit, NEW k \in Kinds, AtOnce[k] # 0, LiveOf(k)' \subseteq LiveOf(k)
    PROVE  Cardinality(LiveOf(k)') <= AtOnce[k]
<1>0. clock \in Nat /\ AtOnce[k] \in Nat
  BY QueueAssumption, StoreAssumption DEF TypeOK, QueueAssumption, StoreAssumption
<1>1. IsFiniteSet(LiveOf(k)) /\ Cardinality(LiveOf(k)) \in Nat
  BY <1>0, NoMoreThanHeld
<1>2. Cardinality(LiveOf(k)) <= AtOnce[k]
  BY DEF AtOnceLimit, LiveOf
<1> DEFINE L2 == LiveOf(k)'
           L == LiveOf(k)
<1>3. L2 \subseteq L
  OBVIOUS
<1> HIDE DEF L2, L
<1>4. IsFiniteSet(L2) /\ Cardinality(L2) <= Cardinality(L)
  BY <1>1, <1>3, FS_Subset DEF L
<1>5. Cardinality(L2) \in Nat
  BY <1>4, FS_CardinalityType
<1> QED
  BY <1>0, <1>1, <1>2, <1>4, <1>5 DEF L2, L

LEMMA AtOnceStep ==
    ASSUME TypeOK, TypeOK', IInv, AtOnceLimit, [Next]_vars
    PROVE  AtOnceLimit'
<1>0. /\ Rows /\ clock \in Nat /\ clock' \in Nat /\ work \in [Worker -> Work]
      /\ \A w \in Worker : Live(w) => work[w].id \in 1..last
  BY QueueAssumption, TypeParts DEF TypeOK, QueueAssumption, Live, Busy
<1>1. \A i \in 1..last : jobs'[i].kind = jobs[i].kind
  BY <1>0, JobsStay
<1>2. SUFFICES ASSUME NEW k \in Kinds, AtOnce[k] # 0
               PROVE  Cardinality(LiveOf(k)') <= AtOnce[k]
  BY DEF AtOnceLimit, LiveOf
<1>3. CASE \A i \in Instances : ~Claim(i)
  <2>1. clock <= clock' /\ \A w \in Worker : ClaimKept(w)
    BY <1>3, OnlyClaimsStart
  <2>2. ASSUME NEW w \in Worker, Live(w)'
        PROVE  Live(w) /\ work'[w].id = work[w].id
    BY <1>0, <2>1, <2>2 DEF ClaimKept, Live, Busy, Work
  <2>3. LiveOf(k)' \subseteq LiveOf(k)
    BY <1>0, <1>1, <2>2 DEF LiveOf, KindOf
  <2> QED
    BY <1>2, <2>3, FewerLive
<1>4. ASSUME NEW i \in Instances, Claim(i)
      PROVE  Cardinality(LiveOf(k)') <= AtOnce[k]
  <2>1. PICK id \in 1..last, s \in 1..Slots :
           /\ NextDue(id, loop[i].now)
           /\ work' = [work EXCEPT ![<<i, s>>] =
                  [pc |-> IF Rated(i, jobs[id].kind) THEN "rate" ELSE "run", id |-> id,
                   attempts |-> jobs[id].attempts + 1, until |-> loop[i].now + HoldFor,
                   verdict |-> "none", at |-> 0]]
           /\ UNCHANGED clock
    BY <1>4 DEF Claim, env
  <2> DEFINE new == <<i, s>>
             now == loop[i].now
  <2>2. new \in Worker
    BY DEF Worker
  <2>3. work'[new].id = id /\ \A x \in Worker : x # new => work'[x] = work[x]
    BY <1>0, <2>1, <2>2
  <2>4. \A x \in Worker : x # new /\ Live(x)' => Live(x) /\ KindOf(x)' = KindOf(x)
    BY <1>0, <1>1, <2>1, <2>3 DEF Live, KindOf
  <2>5. CASE jobs[id].kind # k
    <3>1. LiveOf(k)' \subseteq LiveOf(k)
      BY <1>1, <2>3, <2>4, <2>5 DEF LiveOf, KindOf
    <3> QED
      BY <1>2, <3>1, FewerLive
  <2>6. CASE jobs[id].kind = k
    <3> DEFINE L2 == LiveOf(k)'
               L == LiveOf(k)
               H == HeldJobs(k, now)
    <3>1. L2 \subseteq L \cup {new}
      BY <2>4 DEF LiveOf
    <3>2. now \in Nat /\ now <= clock /\ AtOnce[k] \in Nat
      BY StoreAssumption DEF TypeOK, Loop, IInv, NowsPassed, StoreAssumption
    <3>3. /\ IsFiniteSet(L) /\ Cardinality(L) \in Nat /\ Cardinality(H) \in Nat
          /\ Cardinality(L) <= Cardinality(H)
      BY <3>2, NoMoreThanHeld
    <3>4. Cardinality(H) < AtOnce[k]
      BY <1>2, <2>1, <2>6, <3>2, <3>3 DEF NextDue, Claimable, AtLimit
    <3> HIDE DEF L2, L, H, new, now
    <3>5. /\ IsFiniteSet(L \cup {new})
          /\ Cardinality(L \cup {new}) \in {Cardinality(L), Cardinality(L) + 1}
      BY <3>3, FS_AddElement
    <3>6. IsFiniteSet(L2) /\ Cardinality(L2) <= Cardinality(L \cup {new})
      BY <3>1, <3>5, FS_Subset
    <3>7. Cardinality(L2) \in Nat
      BY <3>6, FS_CardinalityType
    <3> QED
      BY <3>2, <3>3, <3>4, <3>5, <3>6, <3>7 DEF L2
  <2> QED
    BY <2>5, <2>6
<1> QED
  BY <1>3, <1>4

\* Of a kind with AtOnce, no more than so many run at once, on all the instances
\* together, as long as the holds of their claims last: a claim counts the kind's
\* held jobs, and each that runs holds one of its own, past the time the claim read.
THEOREM AtOnceHolds == Spec => []AtOnceLimit
<1>1. Init => AtOnceLimit
  <2> SUFFICES ASSUME Init, NEW k \in Kinds, AtOnce[k] # 0
               PROVE  Cardinality(LiveOf(k)) <= AtOnce[k]
    BY DEF AtOnceLimit, LiveOf
  <2>1. LiveOf(k) = {}
    BY DEF Init, LiveOf, Live, Free
  <2> QED
    BY <2>1, FS_EmptySet, StoreAssumption DEF StoreAssumption
<1>2. TypeOK /\ TypeOK' /\ IInv /\ [Next]_vars => IInv'
  BY InvStep
<1>3. TypeOK /\ TypeOK' /\ IInv /\ AtOnceLimit /\ [Next]_vars => AtOnceLimit'
  BY AtOnceStep
<1> QED
  BY InitInv, TypeCorrect, <1>1, <1>2, <1>3, PTL DEF Spec

-----------------------------------------------------------------------------
(* Unique.  A key is given to a job as it's pushed, or put back, and then   *)
(* only if no other job of the kind has it.                                 *)

\* A step that gives no job a key, or only lets keys go, leaves one job waiting.
KeysGo ==
    /\ UNCHANGED last
    /\ \A i \in 1..last : /\ jobs'[i].kind = jobs[i].kind
                          /\ jobs'[i].key = jobs[i].key \/ jobs'[i].key = NoKey

LEMMA KeysGoOneWaits ==
    ASSUME Rows, OneWaits, KeysGo
    PROVE  OneWaits'
BY DEF OneWaits, KeysGo

LEMMA PushOneWaits ==
    ASSUME Rows, OneWaits, NEW k \in Kinds, NEW v \in Keys, NEW at,
           \/ k \notin UniqueKinds /\ push(k, v, at)
           \/ PushUnique(k, v, at)
           \/ PushLatest(k, v, at)
    PROVE  OneWaits'
<1>0. jobs \in [1..last -> Job] /\ last \in Nat
  BY StoreAssumption DEF Rows, StoreAssumption
<1>1. CASE push(k, v, at) /\ ~Waiting(k, KeyOf(k, v))
  <2>1. /\ last' = last + 1 /\ jobs'[last + 1].kind = k /\ jobs'[last + 1].key = KeyOf(k, v)
        /\ \A i \in 1..last : jobs'[i] = jobs[i]
    BY <1>0, <1>1 DEF push, NewJob
  <2>2. \A i \in 1..last : jobs[i].kind = k /\ jobs[i].key = KeyOf(k, v) => KeyOf(k, v) = NoKey
    BY <1>1 DEF Waiting
  <2> SUFFICES ASSUME NEW i \in 1..last', NEW o \in 1..last', i # o,
                      jobs'[i].kind = jobs'[o].kind, jobs'[i].key = jobs'[o].key
               PROVE  jobs'[i].key = NoKey
    BY DEF OneWaits
  <2>3. CASE i \in 1..last /\ o \in 1..last
    BY <2>1, <2>3 DEF OneWaits
  <2>4. CASE i = last + 1 /\ o \in 1..last
    BY <2>1, <2>2, <2>4
  <2>5. CASE o = last + 1 /\ i \in 1..last
    BY <2>1, <2>2, <2>5
  <2> QED
    BY <1>0, <2>1, <2>3, <2>4, <2>5
<1>2. CASE UNCHANGED <<jobs, last>>
  BY <1>2, KeysGoOneWaits DEF KeysGo
<1>3. CASE PushLatest(k, v, at) /\ Waiting(k, KeyOf(k, v))
  BY <1>0, <1>3, KeysGoOneWaits DEF PushLatest, KeysGo, Job
<1>4. k \notin UniqueKinds => ~Waiting(k, KeyOf(k, v))
  BY DEF KeyOf, Waiting
<1> QED
  BY <1>1, <1>2, <1>3, <1>4 DEF PushUnique, PushLatest

LEMMA TellsKeysGo ==
    ASSUME Rows, NEW w \in Worker, UNCHANGED last, Tells(w)
    PROVE  KeysGo
<1> DEFINE c == work[w]
<1>0. jobs \in [1..last -> Job]
  BY DEF Rows
<1>1. CASE UNCHANGED jobs
  BY <1>1 DEF KeysGo
<1>2. CASE jobs' = [jobs EXCEPT ![c.id] = Deleted(@)]
  BY <1>0, <1>2 DEF Deleted, Job, KeysGo
<1>3. CASE jobs' = [jobs EXCEPT ![c.id].runAt = c.at, ![c.id].heldUntil = 0]
  BY <1>0, <1>3 DEF Job, KeysGo
<1>4. CASE jobs' = [jobs EXCEPT ![c.id].st = "failed", ![c.id].heldUntil = 0]
  BY <1>0, <1>4 DEF Job, KeysGo
<1> QED
  BY <1>1, <1>2, <1>3, <1>4 DEF Tells, Done, Retry, Fail

\* A job is put back with its key, unless another of its kind and value waits.
LEMMA PutBackOneWaits ==
    ASSUME Rows, OneWaits, NEW w \in Worker, work[w].id \in 1..last, NEW until,
           UNCHANGED last, HoldBack(work[w], until)
    PROVE  OneWaits'
<1> DEFINE id == work[w].id
           key == KeyOf(jobs[id].kind, jobs[id].value)
<1>0. jobs \in [1..last -> Job] /\ jobs[id] \in Job
  BY DEF Rows
<1>1. CASE UNCHANGED jobs
  BY <1>1, KeysGoOneWaits DEF KeysGo
<1>2. CASE jobs' = [jobs EXCEPT ![id] = PutBack(@)]
  <2>1. /\ jobs'[id].kind = jobs[id].kind
        /\ jobs'[id].key = IF Waiting(jobs[id].kind, key) THEN jobs[id].key ELSE key
        /\ \A i \in 1..last : i # id => jobs'[i] = jobs[i]
    BY <1>0, <1>2 DEF PutBack, Job
  <2>2. CASE Waiting(jobs[id].kind, key)
    BY <1>0, <2>1, <2>2, KeysGoOneWaits DEF KeysGo
  <2>3. CASE ~Waiting(jobs[id].kind, key)
    <3>1. \A i \in 1..last : jobs[i].kind = jobs[id].kind /\ jobs[i].key = key => key = NoKey
      BY <2>3 DEF Waiting
    <3> QED
      BY <2>1, <2>3, <3>1 DEF OneWaits
  <2> QED
    BY <2>2, <2>3
<1> QED
  BY <1>1, <1>2 DEF HoldBack, GiveBack

LEMMA OneWaitsStep ==
    ASSUME TypeOK, OneWaits, [Next]_vars
    PROVE  OneWaits'
<1> USE StoreAssumption, QueueAssumption DEF StoreAssumption, QueueAssumption
<1>0. Rows /\ jobs \in [1..last -> Job] /\ \A w \in Worker : Busy(w) => work[w].id \in 1..last
  BY TypeParts DEF Rows, TypeOK
<1>1. CASE UNCHANGED <<jobs, last>>
  BY <1>0, <1>1, KeysGoOneWaits DEF KeysGo
<1>2. ASSUME NEW i, NEW until, Hold(i, until), UNCHANGED last
      PROVE  OneWaits'
  BY <1>0, <1>2, KeysGoOneWaits DEF Hold, KeysGo, Job
<1>3. ASSUME NEW i \in Instances, LoopStep(i)
      PROVE  OneWaits'
  <2>1. ASSUME NEW k \in ScheduledKinds, PushRun(i, k)
        PROVE  OneWaits'
    <3>1. PushUnique(k, ScheduleValue, NextRun(loop[i].now)) \/ UNCHANGED <<jobs, last>>
      BY <2>1 DEF PushRun, PushScheduled
    <3> QED
      BY <1>0, <1>1, <3>1, PushOneWaits
  <2>2. CASE Claim(i)
    BY <1>2, <2>2 DEF Claim
  <2>3. CASE ClaimNothing(i)
    BY <1>1, <1>2, <2>3 DEF ClaimNothing
  <2>4. CASE UNCHANGED storeVars
    BY <1>1, <2>4 DEF storeVars
  <2> QED
    BY <1>3, <2>1, <2>2, <2>3, <2>4
       DEF LoopStep, PushedRuns, TakeSlot, Break, IdleEnds, DrainNext, GraceOver, Return
<1>4. ASSUME NEW w \in Worker, WorkerStep(w)
      PROVE  OneWaits'
  <2>1. CASE Tells(w) /\ UNCHANGED last
    BY <1>0, <2>1, TellsKeysGo, KeysGoOneWaits
  <2>2. ASSUME NEW wait \in Waits, RateRefuses(w, wait)
        PROVE  OneWaits'
    BY <1>0, <2>2, PutBackOneWaits DEF RateRefuses, Busy, Doing
  <2> QED
    BY <1>1, <1>4, <2>1, <2>2
       DEF WorkerStep, RateAllows, RefusalLost, HandlerReturns, Report, ReportLost, OnFailReturns, storeVars
<1>5. ASSUME NEW k \in Kinds, NEW v \in Keys, NEW at, Push(k, v, at)
      PROVE  OneWaits'
  BY <1>0, <1>5, PushOneWaits DEF Push
<1>6. CASE Environment
  BY <1>1, <1>5, <1>6 DEF Environment, Tick, Start, Stop, Exit, HandlerHangs, PushAt, PushIn, storeVars
<1>7. CASE UNCHANGED vars
  BY <1>1, <1>7 DEF vars, storeVars
<1> QED
  BY <1>3, <1>4, <1>6, <1>7 DEF Next

\* Of the jobs of a unique kind, one with each key waits, whatever is pushed,
\* claimed, retried and held back, and however schedules push their runs.
THEOREM Uniqueness == Spec => []OneWaits
<1>1. Init => OneWaits
  BY DEF Init, StoreInit, OneWaits
<1>2. TypeOK /\ OneWaits /\ [Next]_vars => OneWaits'
  BY OneWaitsStep
<1> QED
  BY TypeCorrect, <1>1, <1>2, PTL DEF Spec

-----------------------------------------------------------------------------
(* Beside jobs retry, the starter's command.                                *)

LEMMA RetryType ==
    ASSUME TypeOK, NEW id \in 1..last, JobsRetry(id)
    PROVE  TypeOK'
<1>0. Rows /\ OthersOK /\ LoopsOK /\ WorkOK /\ clock \in Nat
  BY QueueAssumption, TypeParts DEF OthersOK, QueueAssumption
<1>1. jobs \in [1..last -> Job] /\ jobs[id] \in Job /\ UNCHANGED last
      /\ jobs' = [jobs EXCEPT ![id].st = "kept", ![id].attempts = 0,
                              ![id].runAt = clock, ![id].heldUntil = 0]
  BY <1>0 DEF JobsRetry, RunAgain, Rows
<1>2. jobs' = [jobs EXCEPT ![id] = [jobs[id] EXCEPT !.st = "kept", !.attempts = 0,
                                                   !.runAt = clock, !.heldUntil = 0]]
  BY <1>1
<1>3. [jobs[id] EXCEPT !.st = "kept", !.attempts = 0, !.runAt = clock, !.heldUntil = 0] \in Job
  BY <1>0, <1>1 DEF Job
<1>4. jobs' \in [1..last -> Job]
  BY <1>1, <1>2, <1>3
<1>5. jobs'[id].heldUntil = 0 /\ \A i \in 1..last : i # id => jobs'[i] = jobs[i]
  BY <1>1, <1>2 DEF Job
<1>6. Rows'
  BY <1>0, <1>1, <1>4, <1>5 DEF Rows
<1>7. OthersOK' /\ LoopsOK' /\ WorkOK'
  BY <1>0, <1>1 DEF JobsRetry, env, runVars, history, OthersOK, LoopsOK, WorkOK, Busy
<1> QED
  BY <1>6, <1>7, TypeWhole

\* The app's own steps, and jobs retry, keep every variable's type.
THEOREM OperatorTypeCorrect == OperatorSpec => []TypeOK
<1>1. ASSUME TypeOK, [OperatorNext]_vars
      PROVE  TypeOK'
  <2>1. CASE Next
    BY <1>1, <2>1, LoopType, WorkerType, EnvironmentType DEF Next
  <2>2. CASE UNCHANGED vars
    BY <1>1, <2>2 DEF vars, storeVars, env, runVars, history, TypeOK, StoreTypeOK, Busy
  <2> QED
    BY <1>1, <2>1, <2>2, RetryType DEF OperatorNext
<1> QED
  BY InitType, <1>1, PTL DEF OperatorSpec

\* jobs retry gives no job a key.
LEMMA RetryKeys ==
    ASSUME Rows, NEW id \in 1..last, JobsRetry(id)
    PROVE  KeysGo /\ UNCHANGED <<schedules, last>>
<1>1. jobs \in [1..last -> Job] /\ jobs[id] \in Job /\ UNCHANGED <<schedules, last>>
      /\ jobs' = [jobs EXCEPT ![id] = [jobs[id] EXCEPT !.st = "kept", !.attempts = 0,
                                                      !.runAt = clock, !.heldUntil = 0]]
  BY DEF JobsRetry, RunAgain, Rows
<1>2. jobs'[id].kind = jobs[id].kind /\ jobs'[id].key = jobs[id].key
      /\ \A i \in 1..last : i # id => jobs'[i] = jobs[i]
  BY <1>1 DEF Job
<1> QED
  BY <1>1, <1>2 DEF KeysGo

\* Of the jobs of a unique kind, one with each key waits, though jobs that
\* failed are run again beside the app (jobs retry, RunAgain).
THEOREM OperatorUniqueness == OperatorSpec => []OneWaits
<1>1. Init => OneWaits
  BY DEF Init, StoreInit, OneWaits
<1>2. TypeOK /\ OneWaits /\ [OperatorNext]_vars => OneWaits'
  BY OneWaitsStep, RetryKeys, KeysGoOneWaits, TypeParts DEF OperatorNext
<1> QED
  BY OperatorTypeCorrect, <1>1, <1>2, PTL DEF OperatorSpec

-----------------------------------------------------------------------------
(* Pushes.  Of each value that's owed a run there's a job, and none of its  *)
(* claims has been done with it, but one that began after the push: a claim *)
(* lets go of the job's key, so a push that finds the key waiting finds a   *)
(* job no worker has.  A job that a rate refuses waits with its key again,  *)
(* while the report of an earlier claim may still come; that's why a unique *)
(* kind whose pushes are followed has no rate.                              *)

\* Job i stands for the value o: it's there, and no worker will have it done
\* before a run that began after o's latest push returns.
Witness(o, i) ==
    /\ jobs[i].kind = o[1] /\ jobs[i].value = o[2] /\ jobs[i].st # "gone"
    /\ \A w \in Worker : Busy(w) /\ work[w].id = i =>
          work[w].verdict # "done" /\ (w \in covers \/ work[w].pc = "rate")

\* No worker has a job that waits with its key.
KeyRow(i) ==
    /\ jobs[i].key \in {NoKey, jobs[i].value}
    /\ jobs[i].st = "gone" => jobs[i].key = NoKey
    /\ jobs[i].kind \in TrackedKinds \cap UniqueKinds /\ jobs[i].key # NoKey =>
          \A w \in Worker : Busy(w) => work[w].id # i

RatesOnly == \A w \in Worker : work[w].pc = "rate" => KindOf(w) \in RatedKinds

OwedHave == \A o \in owed : o[1] \in TrackedKinds /\ \E i \in 1..last : Witness(o, i)

PushInv == (\A i \in 1..last : KeyRow(i)) /\ RatesOnly /\ OwedHave

\* What a step that pushes nothing may do to a job,
RowGoes(i) ==
    /\ jobs'[i].kind = jobs[i].kind /\ jobs'[i].value = jobs[i].value
    /\ \/ jobs'[i].key \in {jobs[i].key, NoKey}
       \/ jobs'[i].key = jobs[i].value /\ jobs[i].kind \in RatedKinds
    /\ jobs'[i].st = "gone" =>
          \/ jobs[i].st = "gone" /\ jobs'[i].key = jobs[i].key
          \/ jobs'[i].key = NoKey
             /\ \E w \in Worker : Busy(w) /\ work[w].id = i /\ work[w].verdict = "done"

\* and to a worker: it's freed, goes on, or has a new claim.
WorkGoes(w) ==
    \/ ~Busy(w)'
    \/ /\ Busy(w) /\ work'[w].id = work[w].id
       /\ work'[w].pc = "rate" => work[w].pc = "rate"
       /\ KindOf(w) \in TrackedKinds /\ (w \in covers \/ work[w].pc = "rate") =>
             w \in covers' \/ work'[w].pc = "rate"
       /\ work'[w].verdict = "done" =>
             \/ work[w].verdict = "done"
             \/ w \notin covers /\ work[w].pc # "rate"
             \/ <<KindOf(w), ValueOf(w)>> \notin owed'
    \/ /\ work'[w].id \in 1..last /\ jobs'[work'[w].id].key = NoKey
       /\ work'[w].verdict # "done"
       /\ jobs[work'[w].id].kind \in TrackedKinds => w \in covers' \/ work'[w].pc = "rate"
       /\ work'[w].pc = "rate" => jobs[work'[w].id].kind \in RatedKinds

LEMMA GoesOn ==
    ASSUME TypeOK, PushInv, TrackedKinds \cap UniqueKinds \cap RatedKinds = {},
           UNCHANGED last, owed' \subseteq owed,
           \A i \in 1..last : RowGoes(i), \A w \in Worker : WorkGoes(w)
    PROVE  PushInv'
<1>1. ASSUME NEW i \in 1..last
      PROVE  KeyRow(i)'
  <2>1. jobs'[i].key \in {NoKey, jobs'[i].value}
    BY <1>1 DEF RowGoes, PushInv, KeyRow
  <2>2. jobs'[i].st = "gone" => jobs'[i].key = NoKey
    BY <1>1 DEF RowGoes, PushInv, KeyRow
  <2>3. ASSUME jobs'[i].kind \in TrackedKinds \cap UniqueKinds, jobs'[i].key # NoKey,
               NEW w \in Worker, Busy(w)'
        PROVE  work'[w].id # i
    <3>1. jobs[i].kind \notin RatedKinds /\ jobs[i].key # NoKey
          /\ jobs[i].kind \in TrackedKinds \cap UniqueKinds
      BY <1>1, <2>3 DEF RowGoes
    <3>2. Busy(w) => work[w].id # i
      BY <1>1, <3>1 DEF PushInv, KeyRow
    <3> QED
      BY <2>3, <3>2 DEF WorkGoes
  <2> QED
    BY <2>1, <2>2, <2>3 DEF KeyRow
<1>2. ASSUME NEW w \in Worker, work'[w].pc = "rate"
      PROVE  jobs'[work'[w].id].kind \in RatedKinds
  <2>1. Busy(w)'
    BY <1>2 DEF Busy
  <2>2. CASE Busy(w) /\ work'[w].id = work[w].id /\ work[w].pc = "rate"
    <3>1. work[w].id \in 1..last /\ jobs[work[w].id].kind \in RatedKinds
      BY <2>2 DEF TypeOK, PushInv, RatesOnly, KindOf
    <3> QED
      BY <2>2, <3>1 DEF RowGoes
  <2>3. CASE work'[w].id \in 1..last /\ jobs[work'[w].id].kind \in RatedKinds
    BY <2>3 DEF RowGoes
  <2> QED
    BY <1>2, <2>1, <2>2, <2>3 DEF WorkGoes
<1>3. ASSUME NEW o \in owed'
      PROVE  o[1] \in TrackedKinds /\ \E i \in 1..last : Witness(o, i)'
  <2>1. PICK i \in 1..last : Witness(o, i)
    BY <1>3 DEF PushInv, OwedHave
  <2>2. o \in owed /\ o[1] \in TrackedKinds /\ o = <<o[1], o[2]>>
    BY <1>3 DEF PushInv, OwedHave, TypeOK
  <2>3. jobs'[i].kind = o[1] /\ jobs'[i].value = o[2] /\ jobs'[i].st # "gone"
    BY <2>1 DEF RowGoes, Witness
  <2>4. ASSUME NEW w \in Worker, Busy(w)', work'[w].id = i
        PROVE  work'[w].verdict # "done" /\ (w \in covers' \/ work'[w].pc = "rate")
    <3>1. CASE Busy(w) /\ work[w].id = i
      <4>1. KindOf(w) = o[1] /\ ValueOf(w) = o[2]
        BY <2>1, <3>1 DEF Witness, KindOf, ValueOf
      <4>2. work[w].verdict # "done" /\ (w \in covers \/ work[w].pc = "rate")
        BY <2>1, <3>1 DEF Witness
      <4>3. <<KindOf(w), ValueOf(w)>> \in owed'
        BY <1>3, <2>2, <4>1
      <4> QED
        BY <2>1, <2>2, <2>4, <3>1, <4>1, <4>2, <4>3 DEF WorkGoes, Witness
    <3>2. CASE ~(Busy(w) /\ work[w].id = i)
      BY <2>1, <2>2, <2>4, <3>2 DEF WorkGoes, Witness
    <3> QED
      BY <3>1, <3>2
  <2> QED
    BY <2>2, <2>3, <2>4 DEF Witness
<1> QED
  BY <1>1, <1>2, <1>3 DEF PushInv, RatesOnly, OwedHave, KindOf

\* A push adds a job no worker has, or finds one that waits with its key, and
\* changes at most that one's time.
LEMMA Pushes ==
    ASSUME TypeOK, NEW k \in Kinds, NEW v \in Keys, NEW at,
           \/ k \notin UniqueKinds /\ push(k, v, at)
           \/ PushUnique(k, v, at)
           \/ PushLatest(k, v, at)
    PROVE  /\ \A i \in 1..last : /\ jobs'[i].kind = jobs[i].kind /\ jobs'[i].value = jobs[i].value
                                 /\ jobs'[i].key = jobs[i].key /\ jobs'[i].st = jobs[i].st
           /\ \/ last' = last + 1 /\ jobs'[last + 1] = NewJob(k, v, at)
              \/ last' = last /\ k \in UniqueKinds /\ Waiting(k, v)
<1>0. jobs \in [1..last -> Job] /\ last \in Nat
  BY StoreAssumption DEF TypeOK, StoreTypeOK, StoreAssumption
<1>1. CASE push(k, v, at)
  BY <1>0, <1>1 DEF push
<1>2. k \notin UniqueKinds => ~Waiting(k, KeyOf(k, v))
  BY DEF KeyOf, Waiting
<1>3. k \in UniqueKinds => KeyOf(k, v) = v
  BY DEF KeyOf
<1>4. CASE PushUnique(k, v, at) /\ Waiting(k, KeyOf(k, v))
  BY <1>2, <1>3, <1>4 DEF PushUnique
<1>5. CASE PushLatest(k, v, at) /\ Waiting(k, KeyOf(k, v))
  <2>1. last' = last /\ k \in UniqueKinds /\ Waiting(k, v)
    BY <1>2, <1>3, <1>5 DEF PushLatest
  <2>2. \A i \in 1..last : /\ jobs'[i].kind = jobs[i].kind /\ jobs'[i].value = jobs[i].value
                           /\ jobs'[i].key = jobs[i].key /\ jobs'[i].st = jobs[i].st
    BY <1>0, <1>5 DEF PushLatest, Job
  <2> QED
    BY <2>1, <2>2
<1> QED
  BY <1>1, <1>4, <1>5 DEF PushUnique, PushLatest

LEMMA PushOwes ==
    ASSUME TypeOK, PushInv, TrackedKinds \cap UniqueKinds \cap RatedKinds = {},
           NEW k \in Kinds, NEW v \in Keys, NEW at, Owes(k, v), UNCHANGED work,
           \/ k \notin UniqueKinds /\ push(k, v, at)
           \/ PushUnique(k, v, at)
           \/ PushLatest(k, v, at)
    PROVE  PushInv'
<1>a. PICK new : new = last + 1
  OBVIOUS
<1>0. /\ last \in Nat /\ last' \in {last, last + 1}
      /\ \A w \in Worker : (Busy(w)' <=> Busy(w)) /\ (Busy(w) => work[w].id \in 1..last)
  BY Pushes, StoreAssumption DEF TypeOK, StoreTypeOK, StoreAssumption, Busy
<1>1. \A i \in 1..last : /\ jobs'[i].kind = jobs[i].kind /\ jobs'[i].value = jobs[i].value
                         /\ jobs'[i].key = jobs[i].key /\ jobs'[i].st = jobs[i].st
  BY Pushes
<1>2. \/ last' = last + 1 /\ jobs'[new] = NewJob(k, v, at)
      \/ last' = last /\ k \in UniqueKinds /\ Waiting(k, v)
  BY Pushes, <1>a
<1>3. \A i \in 1..last : KeyRow(i)'
  BY <1>0, <1>1 DEF PushInv, KeyRow
<1>4. ASSUME last' = last + 1, jobs'[new] = NewJob(k, v, at)
      PROVE  KeyRow(new)'
  <2>1. \A w \in Worker : Busy(w)' => work'[w].id # new
    BY <1>0, <1>a
  <2> QED
    BY <1>4, <2>1 DEF KeyRow, NewJob, KeyOf
<1>5. RatesOnly'
  <2> SUFFICES ASSUME NEW w \in Worker, work'[w].pc = "rate"
               PROVE  jobs'[work'[w].id].kind \in RatedKinds
    BY DEF RatesOnly, KindOf
  <2>1. Busy(w) /\ work'[w] = work[w]
    BY DEF Busy
  <2> QED
    BY <1>0, <1>1, <2>1 DEF PushInv, RatesOnly, KindOf
<1>6. ASSUME NEW o \in owed', o # <<k, v>>
      PROVE  o[1] \in TrackedKinds /\ \E i \in 1..last : Witness(o, i)'
  <2>1. o \in owed
    BY <1>6 DEF Owes
  <2>2. PICK i \in 1..last : Witness(o, i)
    BY <2>1 DEF PushInv, OwedHave
  <2>3. o = <<o[1], o[2]>> /\ o[1] \in TrackedKinds
    BY <2>1 DEF TypeOK, PushInv, OwedHave
  <2>4. ASSUME NEW w \in Worker, Busy(w)', work'[w].id = i
        PROVE  work'[w].verdict # "done" /\ (w \in covers' \/ work'[w].pc = "rate")
    <3>1. work[w].verdict # "done" /\ (w \in covers \/ work[w].pc = "rate")
      BY <1>0, <2>2, <2>4 DEF Witness
    <3>2. <<jobs[work[w].id].kind, jobs[work[w].id].value>> # <<k, v>>
      BY <1>6, <2>2, <2>3, <2>4 DEF Witness
    <3> QED
      BY <3>1, <3>2 DEF Owes
  <2> QED
    BY <1>1, <2>2, <2>3, <2>4 DEF Witness
<1>7. ASSUME <<k, v>> \in owed'
      PROVE  k \in TrackedKinds /\ \E i \in 1..last' : Witness(<<k, v>>, i)'
  <2>1. k \in TrackedKinds
    BY <1>7 DEF Owes, PushInv, OwedHave
  <2>2. CASE last' = last + 1 /\ jobs'[new] = NewJob(k, v, at)
    <3>1. \A w \in Worker : Busy(w)' => work'[w].id # new
      BY <1>0, <1>a
    <3>2. Witness(<<k, v>>, new)'
      BY <2>2, <3>1 DEF Witness, NewJob
    <3> QED
      BY <1>0, <1>a, <2>1, <2>2, <3>2
  <2>3. CASE last' = last /\ k \in UniqueKinds /\ Waiting(k, v)
    <3>1. PICK i \in 1..last : jobs[i].kind = k /\ jobs[i].key = v /\ v # NoKey
      BY <2>3 DEF Waiting
    <3>2. /\ jobs[i].value = v /\ jobs[i].st # "gone"
          /\ \A w \in Worker : Busy(w) => work[w].id # i
      BY <2>1, <2>3, <3>1 DEF PushInv, KeyRow
    <3>3. \A w \in Worker : Busy(w)' => work'[w].id # i
      BY <1>0, <3>2
    <3>4. Witness(<<k, v>>, i)'
      BY <1>1, <3>1, <3>2, <3>3 DEF Witness
    <3> QED
      BY <2>1, <2>3, <3>4
  <2> QED
    BY <1>2, <2>2, <2>3
<1>8. \A i \in 1..last' : KeyRow(i)'
  <2>1. \A i \in 1..last' : i \in 1..last \/ (last' = last + 1 /\ i = new)
    BY <1>0, <1>a
  <2>2. last' = last + 1 => KeyRow(new)'
    BY <1>0, <1>2, <1>4
  <2> QED
    BY <1>3, <2>1, <2>2
<1>9. OwedHave'
  <2>1. 1..last \subseteq 1..last'
    BY <1>0
  <2>2. ASSUME NEW o \in owed'
        PROVE  o[1] \in TrackedKinds /\ \E i \in 1..last' : Witness(o, i)'
    BY <1>6, <1>7, <2>1, <2>2
  <2> QED
    BY <2>2 DEF OwedHave
<1> QED
  BY <1>5, <1>8, <1>9 DEF PushInv

LEMMA SameGoes ==
    ASSUME TypeOK, UNCHANGED jobs
    PROVE  \A i \in 1..last : RowGoes(i)
BY DEF RowGoes

LEMMA HoldGoes ==
    ASSUME TypeOK, NEW id \in 1..last, NEW now, NEW until, NextDue(id, now), Hold(id, until)
    PROVE  (\A i \in 1..last : RowGoes(i)) /\ jobs'[id].key = NoKey
<1>0. jobs \in [1..last -> Job] /\ jobs[id].st = "kept"
  BY DEF TypeOK, StoreTypeOK, NextDue, Claimable
<1>1. /\ jobs'[id].kind = jobs[id].kind /\ jobs'[id].value = jobs[id].value
      /\ jobs'[id].key = NoKey /\ jobs'[id].st = "kept"
      /\ \A i \in 1..last : i # id => jobs'[i] = jobs[i]
  BY <1>0 DEF Hold, Job
<1> QED
  BY <1>1 DEF RowGoes

LEMMA TellsGoes ==
    ASSUME TypeOK, NEW w \in Worker, Busy(w), Tells(w)
    PROVE  \A i \in 1..last : RowGoes(i)
<1> DEFINE id == work[w].id
<1>0. jobs \in [1..last -> Job] /\ id \in 1..last /\ jobs[id] \in Job
  BY DEF TypeOK, StoreTypeOK
<1>1. CASE UNCHANGED jobs
  BY <1>1, SameGoes
<1>2. CASE work[w].verdict = "done" /\ jobs' = [jobs EXCEPT ![id] = Deleted(@)]
  <2>1. /\ jobs'[id].kind = jobs[id].kind /\ jobs'[id].value = jobs[id].value /\ jobs'[id].key = NoKey
        /\ \A i \in 1..last : i # id => jobs'[i] = jobs[i]
    BY <1>0, <1>2 DEF Deleted, Job
  <2> QED
    BY <1>2, <2>1 DEF RowGoes
<1>3. CASE /\ ClaimedBy(work[w])
           /\ \/ jobs' = [jobs EXCEPT ![id].runAt = work[w].at, ![id].heldUntil = 0]
              \/ jobs' = [jobs EXCEPT ![id].st = "failed", ![id].heldUntil = 0]
  <2>1. /\ jobs'[id].kind = jobs[id].kind /\ jobs'[id].value = jobs[id].value
        /\ jobs'[id].key = jobs[id].key /\ jobs'[id].st # "gone"
        /\ \A i \in 1..last : i # id => jobs'[i] = jobs[i]
    <3>1. CASE jobs' = [jobs EXCEPT ![id].runAt = work[w].at, ![id].heldUntil = 0]
      <4>1. jobs'[id] = [jobs[id] EXCEPT !.runAt = work[w].at, !.heldUntil = 0]
        BY <1>0, <3>1
      <4> QED
        BY <1>0, <1>3, <3>1, <4>1 DEF Job, ClaimedBy
    <3>2. CASE jobs' = [jobs EXCEPT ![id].st = "failed", ![id].heldUntil = 0]
      <4>1. jobs'[id] = [jobs[id] EXCEPT !.st = "failed", !.heldUntil = 0]
        BY <1>0, <3>2
      <4> QED
        BY <1>0, <3>2, <4>1 DEF Job
    <3> QED
      BY <1>3, <3>1, <3>2
  <2> QED
    BY <2>1 DEF RowGoes
<1> QED
  BY <1>1, <1>2, <1>3 DEF Tells, Done, Retry, Fail

LEMMA HoldBackGoes ==
    ASSUME TypeOK, NEW w \in Worker, Busy(w), KindOf(w) \in RatedKinds,
           NEW until, HoldBack(work[w], until)
    PROVE  \A i \in 1..last : RowGoes(i)
<1> DEFINE id == work[w].id
<1>0. jobs \in [1..last -> Job] /\ id \in 1..last /\ jobs[id] \in Job
  BY DEF TypeOK, StoreTypeOK
<1>1. CASE UNCHANGED jobs
  BY <1>1, SameGoes
<1>2. CASE ClaimedBy(work[w]) /\ jobs' = [jobs EXCEPT ![id] = PutBack(@)]
  <2>1. /\ jobs'[id].kind = jobs[id].kind /\ jobs'[id].value = jobs[id].value
        /\ jobs'[id].key \in {jobs[id].key, KeyOf(jobs[id].kind, jobs[id].value)}
        /\ jobs'[id].st = "kept"
        /\ \A i \in 1..last : i # id => jobs'[i] = jobs[i]
    BY <1>0, <1>2 DEF PutBack, Job, ClaimedBy
  <2>2. KeyOf(jobs[id].kind, jobs[id].value) \in {NoKey, jobs[id].value}
    BY DEF KeyOf
  <2> QED
    BY <2>1, <2>2 DEF RowGoes, KindOf
<1> QED
  BY <1>1, <1>2 DEF HoldBack, GiveBack

LEMMA LoopPushes ==
    ASSUME TypeOK, PushInv, TrackedKinds \cap UniqueKinds \cap RatedKinds = {},
           NEW i \in Instances, LoopStep(i)
    PROVE  PushInv'
<1> USE QueueAssumption, StoreAssumption DEF QueueAssumption, StoreAssumption
<1>1. ASSUME UNCHANGED <<work, history, last>>, \A id \in 1..last : RowGoes(id)
      PROVE  PushInv'
  <2>1. \A w \in Worker : WorkGoes(w)
    BY <1>1 DEF WorkGoes, Busy, history
  <2> QED
    BY <1>1, <2>1, GoesOn DEF history
<1>2. CASE UNCHANGED <<storeVars, work, history>>
  BY <1>1, <1>2, SameGoes DEF storeVars
<1>3. ASSUME NEW k \in ScheduledKinds, PushRun(i, k)
      PROVE  PushInv'
  <2> DEFINE at == NextRun(loop[i].now)
  <2>1. \/ UNCHANGED <<jobs, last, history>>
        \/ PushScheduled(k, ScheduleValue, at)
           /\ IF schedules[k] < at THEN Owes(k, ScheduleValue) ELSE UNCHANGED history
    BY <1>3 DEF PushRun
  <2>2. at \in Nat /\ schedules[k] \in Nat
    BY NextRunType DEF TypeOK, StoreTypeOK, Loop
  <2>3. \/ UNCHANGED <<jobs, last, history>>
        \/ PushUnique(k, ScheduleValue, at) /\ Owes(k, ScheduleValue)
    BY <2>1, <2>2 DEF PushScheduled
  <2> HIDE DEF at
  <2>4. UNCHANGED work /\ k \in Kinds /\ ScheduleValue \in Keys
    BY <1>3 DEF PushRun
  <2>5. CASE UNCHANGED <<jobs, last, history>>
    BY <1>1, <2>4, <2>5, SameGoes
  <2>6. CASE PushUnique(k, ScheduleValue, at) /\ Owes(k, ScheduleValue)
    BY <2>4, <2>6, PushOwes
  <2> QED
    BY <2>3, <2>5, <2>6
<1>4. CASE Claim(i)
  <2>1. PICK id \in 1..last, s \in 1..Slots :
           /\ NextDue(id, loop[i].now)
           /\ Hold(id, loop[i].now + HoldFor)
           /\ work' = [work EXCEPT ![<<i, s>>] =
                  [pc |-> IF Rated(i, jobs[id].kind) THEN "rate" ELSE "run", id |-> id,
                   attempts |-> jobs[id].attempts + 1, until |-> loop[i].now + HoldFor,
                   verdict |-> "none", at |-> 0]]
           /\ covers' = IF Rated(i, jobs[id].kind) \/ jobs[id].kind \notin TrackedKinds THEN covers
                         ELSE covers \cup {<<i, s>>}
           /\ UNCHANGED <<last, owed>>
    BY <1>4 DEF Claim
  <2>2. <<i, s>> \in Worker /\ work \in [Worker -> Work]
    BY DEF TypeOK, Worker
  <2>3. (\A j \in 1..last : RowGoes(j)) /\ jobs'[id].key = NoKey
    BY <2>1, HoldGoes
  <2>4. PICK w \in Worker : w = <<i, s>>
    BY <2>2
  <2>5. /\ work'[w].pc = (IF Rated(i, jobs[id].kind) THEN "rate" ELSE "run")
        /\ work'[w].id = id /\ work'[w].verdict = "none"
        /\ \A x \in Worker : x # w => work'[x] = work[x]
    BY <2>1, <2>2, <2>4
  <2>6. WorkGoes(w)
    BY <2>1, <2>3, <2>4, <2>5 DEF WorkGoes, Rated
  <2>7. ASSUME NEW x \in Worker, x # w
        PROVE  WorkGoes(x)
    BY <2>1, <2>5, <2>7 DEF WorkGoes, Busy
  <2> QED
    BY <2>1, <2>3, <2>6, <2>7, GoesOn
<1>5. CASE ClaimNothing(i)
  <2>1. \A id \in 1..last : RowGoes(id)
    BY <1>5, SameGoes, HoldGoes DEF ClaimNothing
  <2> QED
    BY <1>1, <1>5, <2>1 DEF ClaimNothing
<1> QED
  BY <1>2, <1>3, <1>4, <1>5
     DEF LoopStep, PushedRuns, TakeSlot, Break, IdleEnds, DrainNext, GraceOver, Return

LEMMA WorkerPushes ==
    ASSUME TypeOK, PushInv, TrackedKinds \cap UniqueKinds \cap RatedKinds = {},
           NEW w \in Worker, WorkerStep(w)
    PROVE  PushInv'
<1>0. work \in [Worker -> Work] /\ (Busy(w) => KindOf(w) \in Kinds)
  BY DEF TypeOK, StoreTypeOK, KindOf, Job
<1>1. ASSUME Busy(w), Frees(w), UNCHANGED <<last, owed>>, \A i \in 1..last : RowGoes(i)
      PROVE  PushInv'
  <2>1. ~Busy(w)' /\ (\A x \in Worker : x # w => work'[x] = work[x]) /\ covers' = covers \ {w}
    BY <1>0, <1>1 DEF Frees, Free, Busy
  <2>2. \A x \in Worker : WorkGoes(x)
    BY <2>1 DEF WorkGoes, Busy
  <2> QED
    BY <1>1, <2>2, GoesOn
\* Steps that change w alone, and no row.
<1>2. ASSUME Busy(w), UNCHANGED <<jobs, last>>, owed' \subseteq owed, covers \subseteq covers',
             \A x \in Worker : x # w => work'[x] = work[x], WorkGoes(w)
      PROVE  PushInv'
  <2>1. \A x \in Worker : WorkGoes(x)
    BY <1>2 DEF WorkGoes, Busy
  <2> QED
    BY <1>2, <2>1, SameGoes, GoesOn
<1>3. CASE RateAllows(w)
  <2>1. /\ work[w].pc = "rate" /\ work'[w].pc = "run"
        /\ work'[w].id = work[w].id /\ work'[w].verdict = work[w].verdict
        /\ \A x \in Worker : x # w => work'[x] = work[x]
        /\ UNCHANGED <<jobs, last, owed>>
        /\ covers \subseteq covers' /\ (KindOf(w) \in TrackedKinds => w \in covers')
    BY <1>0, <1>3 DEF RateAllows, Doing, storeVars, Work
  <2>2. Busy(w) /\ WorkGoes(w)
    BY <2>1 DEF WorkGoes, Busy
  <2> QED
    BY <1>2, <2>1, <2>2
<1>4. ASSUME NEW wait \in Waits, RateRefuses(w, wait)
      PROVE  PushInv'
  <2>1. Busy(w) /\ KindOf(w) \in RatedKinds
    BY <1>4 DEF RateRefuses, Doing, Busy, PushInv, RatesOnly
  <2>2. \A i \in 1..last : RowGoes(i)
    BY <1>4, <2>1, HoldBackGoes DEF RateRefuses
  <2> QED
    BY <1>1, <1>4, <2>1, <2>2 DEF RateRefuses
<1>5. ASSUME NEW wait \in Waits, RefusalLost(w, wait)
      PROVE  PushInv'
  BY <1>1, <1>5, SameGoes DEF RefusalLost, Doing, Busy
<1>6. ASSUME NEW err \in {"nil", "failed", "permanent"}, NEW b \in Backoffs, HandlerReturns(w, err, b)
      PROVE  PushInv'
  <2>1. PICK at :
          /\ work' = [work EXCEPT ![w] =
                          [@ EXCEPT !.pc = "report", !.verdict = VerdictOn(w, err), !.at = at]]
          /\ owed' = IF err = "nil" /\ w \in covers THEN owed \ {<<KindOf(w), ValueOf(w)>>} ELSE owed
          /\ UNCHANGED <<jobs, last, covers>> /\ work[w].pc = "run"
    BY <1>6 DEF HandlerReturns, storeVars, Doing
  <2>2. VerdictOn(w, err) = "done" <=> err = "nil"
    BY <1>6 DEF VerdictOn
  <2>3. /\ work'[w].pc = "report" /\ work'[w].id = work[w].id
        /\ work'[w].verdict = VerdictOn(w, err)
        /\ \A x \in Worker : x # w => work'[x] = work[x]
    BY <1>0, <2>1 DEF Work
  <2>4. Busy(w) /\ WorkGoes(w)
    BY <2>1, <2>2, <2>3 DEF WorkGoes, Busy
  <2> QED
    BY <1>2, <2>1, <2>3, <2>4
<1>7. CASE Report(w)
  <2>1. Busy(w) /\ Tells(w) /\ UNCHANGED <<last, owed>>
    BY <1>7 DEF Report, Doing, Busy
  <2>2. \A i \in 1..last : RowGoes(i)
    BY <2>1, TellsGoes
  <2>3. CASE work' = [work EXCEPT ![w].pc = "onfail"] /\ UNCHANGED covers
    <3>1. /\ work'[w].pc = "onfail" /\ work'[w].id = work[w].id
          /\ work'[w].verdict = work[w].verdict
          /\ \A x \in Worker : x # w => work'[x] = work[x]
      BY <1>0, <2>3 DEF Work
    <3>2. work[w].pc = "report"
      BY <1>7 DEF Report, Doing
    <3>3. \A x \in Worker : WorkGoes(x)
      BY <2>1, <2>3, <3>1, <3>2 DEF WorkGoes, Busy
    <3> QED
      BY <2>1, <2>2, <3>3, GoesOn
  <2> QED
    BY <1>1, <1>7, <2>1, <2>2, <2>3 DEF Report
<1>8. CASE ReportLost(w)
  <2>1. Busy(w) /\ UNCHANGED <<last, owed>> /\ Frees(w) /\ (Tells(w) \/ UNCHANGED jobs)
    BY <1>8 DEF ReportLost, Doing, Busy
  <2> QED
    BY <1>1, <2>1, TellsGoes, SameGoes
<1>9. CASE OnFailReturns(w)
  BY <1>1, <1>9, SameGoes DEF OnFailReturns, Doing, Busy, storeVars
<1> QED
  BY <1>3, <1>4, <1>5, <1>6, <1>7, <1>8, <1>9 DEF WorkerStep

LEMMA EnvironmentPushes ==
    ASSUME TypeOK, PushInv, TrackedKinds \cap UniqueKinds \cap RatedKinds = {}, Environment
    PROVE  PushInv'
<1> USE QueueAssumption, StoreAssumption DEF QueueAssumption, StoreAssumption
<1>1. ASSUME UNCHANGED <<storeVars, work, history>>
      PROVE  PushInv'
  <2>1. \A w \in Worker : WorkGoes(w)
    BY <1>1 DEF WorkGoes, Busy, history
  <2> QED
    BY <1>1, <2>1, SameGoes, GoesOn DEF storeVars, history
<1>2. ASSUME NEW i \in Instances, Exit(i)
      PROVE  PushInv'
  <2>1. \A w \in Worker : WorkGoes(w)
    BY <1>2 DEF Exit, WorkGoes, Busy, Free
  <2> QED
    BY <1>2, <2>1, SameGoes, GoesOn DEF Exit, storeVars
<1>3. ASSUME NEW w \in Worker, HandlerHangs(w)
      PROVE  PushInv'
  <2>1. /\ work[w].pc = "run" /\ work'[w].pc = "hung"
        /\ work'[w].id = work[w].id /\ work'[w].verdict = work[w].verdict
        /\ \A x \in Worker : x # w => work'[x] = work[x]
        /\ UNCHANGED <<jobs, last, owed, covers>>
    BY <1>3 DEF HandlerHangs, Doing, storeVars, history, TypeOK, Work
  <2>2. \A x \in Worker : WorkGoes(x)
    BY <2>1 DEF WorkGoes, Busy
  <2> QED
    BY <2>1, <2>2, SameGoes, GoesOn
<1>4. ASSUME NEW k \in Kinds, NEW v \in Keys, NEW at, Push(k, v, at), UNCHANGED work
      PROVE  PushInv'
  BY <1>4, PushOwes DEF Push
<1>5. ASSUME NEW i \in Instances, NEW k \in Kinds, NEW v \in Keys,
             (\E a \in Ahead : PushAt(i, k, v, a)) \/ (\E y \in InWakes : PushIn(i, k, v, y))
      PROVE  PushInv'
  BY <1>4, <1>5 DEF PushAt, PushIn
<1> QED
  BY <1>1, <1>2, <1>3, <1>5 DEF Environment, Tick, Start, Stop

LEMMA RetryPushes ==
    ASSUME TypeOK, PushInv, TrackedKinds \cap UniqueKinds \cap RatedKinds = {},
           NEW id \in 1..last, JobsRetry(id)
    PROVE  PushInv'
<1>1. jobs \in [1..last -> Job] /\ jobs[id] \in Job /\ UNCHANGED <<last, work, owed, covers>>
      /\ jobs' = [jobs EXCEPT ![id] = [jobs[id] EXCEPT !.st = "kept", !.attempts = 0,
                                                      !.runAt = clock, !.heldUntil = 0]]
  BY DEF JobsRetry, RunAgain, TypeOK, StoreTypeOK, history
<1>2. jobs'[id].kind = jobs[id].kind /\ jobs'[id].value = jobs[id].value
      /\ jobs'[id].key = jobs[id].key /\ jobs'[id].st = "kept"
      /\ \A i \in 1..last : i # id => jobs'[i] = jobs[i]
  BY <1>1 DEF Job
<1>3. \A i \in 1..last : RowGoes(i)
  BY <1>2 DEF RowGoes
<1>4. \A w \in Worker : WorkGoes(w)
  BY <1>1 DEF WorkGoes, Busy
<1> QED
  BY <1>1, <1>3, <1>4, GoesOn

\* A value that's pushed is in the store, waiting, held or failed, until a run
\* that began after its latest push has succeeded, through whatever kills, lost
\* answers, late reports, refusals and jobs run again (Kind.Push, run, Done's look
\* at the claim). A unique kind that has a rate as well is left out: of one, it's
\* not so.
THEOREM NothingLost ==
    TrackedKinds \cap UniqueKinds \cap RatedKinds = {} => (OperatorSpec => []NoPushLost)
<1> SUFFICES ASSUME TrackedKinds \cap UniqueKinds \cap RatedKinds = {}
             PROVE  OperatorSpec => []NoPushLost
  OBVIOUS
<1>1. Init => PushInv
  BY DEF Init, StoreInit, PushInv, RatesOnly, OwedHave, Free
<1>2. TypeOK /\ PushInv /\ [OperatorNext]_vars => PushInv'
  <2> SUFFICES ASSUME TypeOK, PushInv, [OperatorNext]_vars
               PROVE  PushInv'
    OBVIOUS
  <2>1. CASE UNCHANGED vars
    <3>1. \A i \in 1..last : RowGoes(i)
      BY <2>1, SameGoes DEF vars, storeVars
    <3>2. \A w \in Worker : WorkGoes(w)
      BY <2>1 DEF vars, history, WorkGoes, Busy
    <3> QED
      BY <2>1, <3>1, <3>2, GoesOn DEF vars, storeVars, history
  <2> QED
    BY <2>1, LoopPushes, WorkerPushes, EnvironmentPushes, RetryPushes DEF OperatorNext, Next
<1>3. PushInv => NoPushLost
  BY DEF PushInv, OwedHave, Witness, NoPushLost
<1> QED
  BY OperatorTypeCorrect, <1>1, <1>2, <1>3, PTL DEF OperatorSpec

-----------------------------------------------------------------------------
(* Schedules.  The runs pushed of a kind are of times apart by the period,  *)
(* each later than the one before, as the store refuses a run that isn't.   *)

LEMMA DivMultiple ==
    ASSUME NEW m \in Nat, NEW p \in Nat \ {0}
    PROVE  (m * p) \div p = m
BY Z3

\* The jobs of kind k there have been.
Given(k) == {i \in 1..last : jobs[i].kind = k}

\* The run of k's schedule pushed last, and how many may have been.
RunsOf(k) == \E m \in Nat : schedules[k] = m * Period /\ Cardinality(Given(k)) <= m

RunsInv == \A k \in ScheduledKinds : RunsOf(k)

LEMMA GivenFinite ==
    ASSUME TypeOK, NEW k
    PROVE  IsFiniteSet(Given(k)) /\ Cardinality(Given(k)) \in Nat
<1>1. IsFiniteSet(1..last)
  BY FS_Interval, StoreAssumption DEF TypeOK, StoreTypeOK, StoreAssumption
<1>2. IsFiniteSet(Given(k))
  BY <1>1, FS_Subset DEF Given
<1> QED
  BY <1>2, FS_CardinalityType

LEMMA RunsGive ==
    ASSUME TypeOK, RunsInv
    PROVE  OneJobPerRun
<1> SUFFICES ASSUME NEW k \in ScheduledKinds
             PROVE  Cardinality(Given(k)) <= schedules[k] \div Period
  BY DEF OneJobPerRun, Given
<1>1. PICK m \in Nat : schedules[k] = m * Period /\ Cardinality(Given(k)) <= m
  BY DEF RunsInv, RunsOf
<1>2. (m * Period) \div Period = m
  BY DivMultiple, QueueAssumption DEF QueueAssumption
<1> QED
  BY <1>1, <1>2

\* A step that pushes no run leaves the jobs as many as they were.
LEMMA NoRunPushed ==
    ASSUME TypeOK, RunsInv, UNCHANGED <<last, schedules>>,
           \A i \in 1..last : jobs'[i].kind = jobs[i].kind
    PROVE  RunsInv'
<1>1. \A k \in ScheduledKinds : Given(k)' = Given(k)
  BY DEF Given
<1> QED
  BY <1>1 DEF RunsInv, RunsOf

\* An app that pushes no job itself only moves those that wait.
LEMMA NoOtherPush ==
    ASSUME TypeOK, AppJobs = 0, NEW k \in Kinds, NEW v \in Keys, NEW at, Push(k, v, at)
    PROVE  UNCHANGED last
<1>1. Waiting(k, KeyOf(k, v))
  BY StoreAssumption DEF Push, TypeOK, StoreTypeOK, StoreAssumption
<1>2. k \in UniqueKinds
  BY <1>1 DEF Waiting, KeyOf
<1> QED
  BY <1>1, <1>2 DEF Push, PushLatest, PushUnique

LEMMA RunPushed ==
    ASSUME TypeOK, RunsInv, NEW k \in ScheduledKinds, NEW now \in Nat,
           PushScheduled(k, ScheduleValue, NextRun(now))
    PROVE  RunsInv'
<1> USE QueueAssumption DEF QueueAssumption
<1> DEFINE at == NextRun(now)
<1>0. /\ last \in Nat /\ schedules \in [ScheduledKinds -> Nat] /\ k \in Kinds
      /\ jobs \in [1..last -> Job]
  BY StoreAssumption DEF TypeOK, StoreTypeOK, StoreAssumption
<1>1. PICK n \in Nat : at = n * Period
  <2>1. PICK q \in Nat : q = now \div Period + 1
    OBVIOUS
  <2>2. at = q * Period
    BY <2>1 DEF NextRun
  <2> HIDE DEF at
  <2> QED
    BY <2>2
<1> HIDE DEF at
<1>2. CASE UNCHANGED <<jobs, last, schedules>>
  BY <1>2, NoRunPushed
<1>3. CASE /\ schedules[k] < at /\ schedules' = [schedules EXCEPT ![k] = at]
           /\ PushUnique(k, ScheduleValue, at)
  <2>1. PICK new : new = last + 1
    OBVIOUS
  <2>2. /\ \A i \in 1..last : jobs'[i].kind = jobs[i].kind
        /\ last' = last \/ (last' = new /\ jobs'[new].kind = k)
    <3>1. /\ \A i \in 1..last : jobs'[i].kind = jobs[i].kind
          /\ last' = last \/ (last' = last + 1 /\ jobs'[last + 1] = NewJob(k, ScheduleValue, at))
      BY <1>0, <1>3, Pushes
    <3>2. NewJob(k, ScheduleValue, at).kind = k
      BY DEF NewJob
    <3> QED
      BY <2>1, <3>1, <3>2
  <2>3. ASSUME NEW j \in ScheduledKinds
        PROVE  RunsOf(j)'
    <3>1. PICK m \in Nat : schedules[j] = m * Period /\ Cardinality(Given(j)) <= m
      BY DEF RunsInv, RunsOf
    <3>2. CASE j # k
      <4>1. Given(j)' = Given(j)
        BY <1>0, <2>1, <2>2, <3>2 DEF Given
      <4> QED
        BY <1>0, <1>3, <3>1, <3>2, <4>1 DEF RunsOf
    <3>3. CASE j = k
      <4>1. schedules'[j] = n * Period
        BY <1>0, <1>1, <1>3, <3>3
      <4>2. m < n
        <5>1. m * Period < n * Period
          BY <1>1, <1>3, <3>1, <3>3
        <5> QED
          BY <5>1, Z3
      <4>3. Given(j)' = Given(j) \/ Given(j)' = Given(j) \cup {new}
        BY <1>0, <2>1, <2>2, <3>3 DEF Given
      <4>4. Cardinality(Given(j)') <= Cardinality(Given(j)) + 1 /\ Cardinality(Given(j)') \in Nat
        <5>1. PICK S : S = Given(j)
          OBVIOUS
        <5>2. IsFiniteSet(S) /\ Cardinality(S) \in Nat
          BY <5>1, GivenFinite
        <5>3. /\ Cardinality(S \cup {new}) <= Cardinality(S) + 1
              /\ Cardinality(S \cup {new}) \in Nat
          <6>1. /\ IsFiniteSet(S \cup {new})
                /\ Cardinality(S \cup {new}) = Cardinality(S)
                   \/ Cardinality(S \cup {new}) = Cardinality(S) + 1
            BY <5>2, FS_AddElement
          <6> QED
            BY <5>2, <6>1, FS_CardinalityType
        <5>4. Given(j)' = S \/ Given(j)' = S \cup {new}
          BY <4>3, <5>1
        <5>5. CASE Given(j)' = S
          BY <5>1, <5>2, <5>5
        <5>6. CASE Given(j)' = S \cup {new}
          BY <5>1, <5>3, <5>6
        <5> QED
          BY <5>4, <5>5, <5>6
      <4>5. Cardinality(Given(j))' <= n
        BY <3>1, <4>2, <4>4, GivenFinite
      <4> QED
        BY <4>1, <4>5 DEF RunsOf
    <3> QED
      BY <3>2, <3>3
  <2> QED
    BY <2>3 DEF RunsInv
<1> QED
  BY <1>0, <1>1, <1>2, <1>3 DEF PushScheduled, at

LEMMA RunsStep ==
    ASSUME TypeOK, AppJobs = 0, RunsInv, [OperatorNext]_vars
    PROVE  RunsInv'
<1> USE QueueAssumption, StoreAssumption DEF QueueAssumption, StoreAssumption
<1>0. Rows
  BY TypeParts
<1>1. ASSUME [Next]_vars, UNCHANGED <<last, schedules>>
      PROVE  RunsInv'
  BY <1>0, <1>1, JobsStay, NoRunPushed
<1>2. ASSUME NEW i \in Instances, NEW k \in ScheduledKinds, PushRun(i, k)
      PROVE  RunsInv'
  <2>1. loop[i].now \in Nat
    BY DEF TypeOK, Loop
  <2>2. UNCHANGED <<jobs, last, schedules>> \/ PushScheduled(k, ScheduleValue, NextRun(loop[i].now))
    BY <1>2 DEF PushRun
  <2>3. CASE UNCHANGED <<jobs, last, schedules>>
    BY <2>3, NoRunPushed
  <2> QED
    BY <2>1, <2>2, <2>3, RunPushed
<1>3. ASSUME NEW i \in Instances, LoopStep(i)
      PROVE  RunsInv'
  <2>1. (\E k \in ScheduledKinds : PushRun(i, k)) \/ UNCHANGED <<last, schedules>>
    BY <1>3 DEF LoopStep, PushedRuns, TakeSlot, Break, Claim, ClaimNothing, IdleEnds,
                DrainNext, GraceOver, Return, storeVars
  <2> QED
    BY <1>1, <1>2, <1>3, <2>1 DEF Next
<1>4. ASSUME NEW w \in Worker, WorkerStep(w)
      PROVE  RunsInv'
  <2>1. UNCHANGED <<last, schedules>>
    BY <1>4 DEF WorkerStep, RateAllows, RateRefuses, RefusalLost, HandlerReturns, Report,
                ReportLost, OnFailReturns, storeVars
  <2> QED
    BY <1>1, <1>4, <2>1 DEF Next
<1>5. CASE Environment
  <2>1. ASSUME NEW i \in Instances, NEW k \in Kinds, NEW v \in Keys,
               (\E a \in Ahead : PushAt(i, k, v, a)) \/ (\E y \in InWakes : PushIn(i, k, v, y))
        PROVE  UNCHANGED <<last, schedules>>
    <3>1. PICK at : Push(k, v, at)
      BY <2>1 DEF PushAt, PushIn
    <3> QED
      BY <3>1, NoOtherPush DEF Push
  <2>2. UNCHANGED <<last, schedules>>
    BY <1>5, <2>1 DEF Environment, Tick, Start, Stop, Exit, HandlerHangs, storeVars
  <2> QED
    BY <1>1, <1>5, <2>2 DEF Next
<1>6. CASE UNCHANGED vars
  BY <1>1, <1>6 DEF vars, storeVars
<1>7. ASSUME NEW id \in 1..last, JobsRetry(id)
      PROVE  RunsInv'
  BY <1>0, <1>7, RetryKeys, NoRunPushed DEF KeysGo
<1> QED
  BY <1>3, <1>4, <1>5, <1>6, <1>7 DEF OperatorNext, Next

\* Each run of a schedule is pushed once, whichever of the instances push it,
\* restart, or read the time long before they push, for a kind only its schedule
\* pushes (pushScheduled, PushScheduled, Every.Next).
THEOREM RunsOnce == AppJobs = 0 => (OperatorSpec => []OneJobPerRun)
<1> SUFFICES ASSUME AppJobs = 0
             PROVE  OperatorSpec => []OneJobPerRun
  OBVIOUS
<1>1. Init => RunsInv
  <2> SUFFICES ASSUME Init, NEW k \in ScheduledKinds
               PROVE  RunsOf(k)
    BY DEF RunsInv
  <2>1. Given(k) = {} /\ schedules[k] = 0 * Period
    BY QueueAssumption DEF Init, StoreInit, Given, QueueAssumption
  <2>2. Cardinality(Given(k)) = 0
    BY <2>1, FS_EmptySet
  <2> QED
    BY <2>1, <2>2 DEF RunsOf
<1>2. TypeOK /\ RunsInv /\ [OperatorNext]_vars => RunsInv'
  BY RunsStep
<1>3. TypeOK /\ RunsInv => OneJobPerRun
  BY RunsGive
<1> QED
  BY OperatorTypeCorrect, <1>1, <1>2, <1>3, PTL DEF OperatorSpec

\* What's proved beside jobs retry holds without it.
LEMMA SpecIsOperators == Spec => OperatorSpec
<1>1. [Next]_vars => [OperatorNext]_vars
  BY DEF OperatorNext
<1> QED
  BY <1>1, PTL DEF Spec, OperatorSpec

-----------------------------------------------------------------------------
(* The wake.  While Run sleeps with no poke on its way, each job that no    *)
(* claim holds waits for another that's held: whoever lets go of one that   *)
(* others wait for pokes, or is on OnFail and will.                         *)

\* One instance, that isn't stopped, of a Store that doesn't fail; its jobs are due as
\* they're pushed or retried, and whoever pushes in a transaction calls Wake.
JobsDueAtOnce ==
    /\ \E i : Instances = {i}
    /\ Drainers = {} /\ ScheduledKinds = {} /\ RatedKinds = {}
    /\ Ahead \subseteq {0} /\ Backoffs \subseteq {0} /\ InWakes \subseteq {TRUE}
    /\ ~Faults /\ MaxEnds = 0

Loose(id) == jobs[id].st = "kept" /\ jobs[id].heldUntil = 0
Blocked(id) == Running(id, 0) \/ AtLimit(id, 0)

LoopsRun ==
    \A i \in Instances : loop[i].pc \in {"off", "slot", "claim", "idle"} /\ ~told[i]

DueNow ==
    /\ \A k \in Kinds : heldKinds[k] = 0
    /\ \A id \in 1..last :
          jobs[id].runAt <= clock /\ \A i \in Instances : jobs[id].kind \in Knows[i]
    /\ \A w \in Worker :
          /\ work[w].pc # "rate" /\ work[w].verdict # "stop"
          /\ work[w].verdict = "retry" => work[w].at <= clock

\* A claim sees every job that's loose as it read the time, or a poke is there;
SeenDue ==
    \A i \in Instances :
        InLoop(i, "claim") /\ ~wake[i] =>
            \A id \in 1..last : Loose(id) => jobs[id].runAt <= loop[i].now

\* and it sleeps only as what's loose is blocked, or someone's about to poke it.
Untold(i) == ~wake[i] /\ \A w \in Worker : Doing(w, "onfail") => ~PokesAtEnd(w)

NoneLoose ==
    \A i \in Instances :
        InLoop(i, "idle") /\ Untold(i) => \A id \in 1..last : Loose(id) => Blocked(id)

WakeInv == LoopsRun /\ DueNow /\ SeenDue /\ NoneLoose

\* The steps there are, then.
LEMMA WakeSteps ==
    ASSUME TypeOK, JobsDueAtOnce, WakeInv, Next
    PROVE  \/ \E i \in Instances : TakeSlot(i) \/ Claim(i) \/ ClaimNothing(i) \/ IdleEnds(i) \/ Start(i)
           \/ \E w \in Worker : \/ \E err \in {"nil", "failed", "permanent"}, b \in Backoffs :
                                      HandlerReturns(w, err, b)
                                \/ Report(w) \/ OnFailReturns(w) \/ HandlerHangs(w)
           \/ Tick
           \/ \E i \in Instances, k \in Kinds, v \in Keys :
                 (\E a \in Ahead : PushAt(i, k, v, a)) \/ (\E y \in InWakes : PushIn(i, k, v, y))
<1>1. ~Ends
  BY DEF Ends, JobsDueAtOnce, TypeOK
<1>2. ASSUME NEW i \in Instances, LoopStep(i)
      PROVE  TakeSlot(i) \/ Claim(i) \/ ClaimNothing(i) \/ IdleEnds(i)
  BY <1>2 DEF LoopStep, PushRun, PushedRuns, Break, DrainNext, GraceOver, Return, MayReturn, InLoop,
              WakeInv, LoopsRun, JobsDueAtOnce
<1>3. ASSUME NEW w \in Worker, WorkerStep(w)
      PROVE  \/ \E err \in {"nil", "failed", "permanent"}, b \in Backoffs : HandlerReturns(w, err, b)
             \/ Report(w) \/ OnFailReturns(w)
  BY <1>3 DEF WorkerStep, RateAllows, RateRefuses, RefusalLost, ReportLost, Doing, WakeInv, DueNow,
              JobsDueAtOnce
<1>4. ASSUME NEW i \in Instances PROVE ~Stop(i) /\ ~Exit(i)
  BY <1>1 DEF Stop, Exit, InLoop, WakeInv, LoopsRun
<1> QED
  BY <1>2, <1>3, <1>4 DEF Next, Environment

\* With no schedules, the loop's top is its slots.
LEMMA TopIsSlot ==
    ASSUME JobsDueAtOnce, NEW i PROVE Top(i) = At("slot", 0)
BY DEF Top, JobsDueAtOnce

\* And no job's context is done.
LEMMA NotStopped ==
    ASSUME TypeOK, JobsDueAtOnce, WakeInv, NEW w \in Worker
    PROVE  ~JobsCtxDone(w[1]) /\ w[1] \in Instances
BY DEF JobsCtxDone, JobsDueAtOnce, WakeInv, LoopsRun, Worker

\* Jobs stay, as the loop goes on.
LEMMA LoopWakes ==
    ASSUME TypeOK, JobsDueAtOnce, WakeInv, NEW i \in Instances,
           TakeSlot(i) \/ Claim(i) \/ ClaimNothing(i) \/ IdleEnds(i) \/ Start(i)
    PROVE  WakeInv'
<1> USE StoreAssumption, QueueAssumption DEF StoreAssumption, QueueAssumption
<1>1. Instances = {i} /\ loop \in [Instances -> Loop] /\ clock \in Nat
      /\ jobs \in [1..last -> Job] /\ work \in [Worker -> Work]
  BY DEF JobsDueAtOnce, TypeOK, StoreTypeOK
<1>2. UNCHANGED <<clock, heldKinds, last, told>>
  BY DEF TakeSlot, Claim, ClaimNothing, IdleEnds, Start, env, storeVars
<1>3. \A l : Goto(i, l) => loop'[i] = l
  BY <1>1 DEF Goto
<1>4. loop'[i].pc \in {"slot", "claim", "idle"} => LoopsRun'
  BY <1>1, <1>2 DEF WakeInv, LoopsRun
<1>5. CASE TakeSlot(i)
  <2>1. UNCHANGED <<jobs, work, wake>> /\ loop'[i] = At("claim", clock)
    BY <1>3, <1>5 DEF TakeSlot, storeVars
  <2>2. DueNow'
    BY <1>2, <2>1 DEF WakeInv, DueNow
  <2>3. SeenDue' /\ NoneLoose'
    BY <1>1, <1>2, <2>1 DEF WakeInv, DueNow, SeenDue, NoneLoose, Loose, At, InLoop
  <2> QED
    BY <1>4, <2>1, <2>2, <2>3 DEF WakeInv, At
<1>6. CASE IdleEnds(i) \/ Start(i)
  <2>1. UNCHANGED <<jobs, work>> /\ loop'[i] = At("slot", 0)
    BY <1>3, <1>6, TopIsSlot DEF IdleEnds, Start, storeVars, JobsDueAtOnce
  <2>2. DueNow'
    BY <1>2, <2>1 DEF WakeInv, DueNow
  <2>3. SeenDue' /\ NoneLoose'
    BY <1>1, <2>1 DEF SeenDue, NoneLoose, At, InLoop
  <2> QED
    BY <1>4, <2>1, <2>2, <2>3 DEF WakeInv, At
<1>7. CASE Claim(i)
  <2>1. PICK id \in 1..last, s \in 1..Slots :
           /\ Hold(id, loop[i].now + HoldFor)
           /\ work' = [work EXCEPT ![<<i, s>>] =
                  [pc |-> IF Rated(i, jobs[id].kind) THEN "rate" ELSE "run", id |-> id,
                   attempts |-> jobs[id].attempts + 1, until |-> loop[i].now + HoldFor,
                   verdict |-> "none", at |-> 0]]
           /\ Goto(i, IF i \in Drainers THEN At("draining", 0) ELSE Top(i))
    BY <1>7 DEF Claim
  <2>2. ~Rated(i, jobs[id].kind) /\ i \notin Drainers
    BY DEF Rated, JobsDueAtOnce
  <2>3. loop'[i] = At("slot", 0)
    BY <1>3, <2>1, <2>2, TopIsSlot
  <2>4. \A x \in 1..last : jobs'[x].runAt = jobs[x].runAt /\ jobs'[x].kind = jobs[x].kind
    <3>1. /\ jobs'[id].runAt = jobs[id].runAt /\ jobs'[id].kind = jobs[id].kind
          /\ \A x \in 1..last : x # id => jobs'[x] = jobs[x]
      BY <1>1, <2>1 DEF Hold, Job
    <3> QED
      BY <3>1
  <2>5. \A w \in Worker : \/ work'[w] = work[w]
                          \/ work'[w].pc = "run" /\ work'[w].verdict = "none"
    BY <1>1, <2>1, <2>2
  <2>6. DueNow'
    BY <1>2, <2>4, <2>5 DEF WakeInv, DueNow
  <2>7. SeenDue' /\ NoneLoose'
    BY <1>1, <2>3 DEF SeenDue, NoneLoose, At, InLoop
  <2> QED
    BY <1>4, <2>3, <2>6, <2>7 DEF WakeInv, At
<1>8. CASE ClaimNothing(i)
  <2>1. /\ UNCHANGED <<jobs, work, wake>> /\ loop'[i] = At("idle", 0) /\ InLoop(i, "claim")
        /\ \A id \in 1..last : ~Claimable(id, loop[i].now)
    BY <1>3, <1>8 DEF ClaimNothing, JobsDueAtOnce, WakeInv, LoopsRun
  <2>2. DueNow'
    BY <1>2, <2>1 DEF WakeInv, DueNow
  <2>3. loop[i].now \in Nat
    BY <1>1 DEF Loop
  <2>4. ASSUME ~wake[i], NEW id \in 1..last, Loose(id)
        PROVE  Blocked(id)
    <3>1. jobs[id].runAt <= loop[i].now /\ jobs[id].heldUntil = 0 /\ jobs[id].st = "kept"
      BY <2>1, <2>4 DEF WakeInv, SeenDue, Loose
    <3>2. heldKinds[jobs[id].kind] <= loop[i].now
      BY <1>1, <2>3 DEF WakeInv, DueNow, Job
    <3>3. Running(id, loop[i].now) \/ AtLimit(id, loop[i].now)
      BY <2>1, <2>3, <3>1, <3>2 DEF Claimable
    <3>4. HeldJobs(jobs[id].kind, loop[i].now) \subseteq HeldJobs(jobs[id].kind, 0)
      BY <1>1, <2>3 DEF HeldJobs, Job
    <3>5. CASE Running(id, loop[i].now)
      BY <3>4, <3>5 DEF Running, Blocked
    <3>6. CASE AtLimit(id, loop[i].now)
      <4> DEFINE H == HeldJobs(jobs[id].kind, 0)
                 G == HeldJobs(jobs[id].kind, loop[i].now)
      <4>1. IsFiniteSet(H)
        <5>1. IsFiniteSet(1..last)
          BY FS_Interval DEF TypeOK, StoreTypeOK
        <5> QED
          BY <5>1, FS_Subset DEF HeldJobs
      <4>2. IsFiniteSet(G) /\ Cardinality(G) <= Cardinality(H)
        BY <3>4, <4>1, FS_Subset
      <4>3. Cardinality(G) \in Nat /\ Cardinality(H) \in Nat /\ AtOnce[jobs[id].kind] \in Nat
        BY <1>1, <4>1, <4>2, FS_CardinalityType DEF Job
      <4>4. AtOnce[jobs[id].kind] # 0 /\ Cardinality(G) >= AtOnce[jobs[id].kind]
        BY <3>6 DEF AtLimit
      <4>5. Cardinality(H) >= AtOnce[jobs[id].kind]
        BY <4>2, <4>3, <4>4
      <4> QED
        BY <4>4, <4>5 DEF AtLimit, Blocked
    <3> QED
      BY <3>3, <3>5, <3>6
  <2>5. SeenDue'
    BY <1>1, <2>1 DEF SeenDue, At, InLoop
  <2>6. NoneLoose'
    BY <1>1, <1>2, <2>1, <2>4
       DEF NoneLoose, Untold, Loose, Blocked, Running, AtLimit, HeldJobs
  <2> QED
    BY <1>4, <2>1, <2>2, <2>5, <2>6 DEF WakeInv, At
<1> QED
  BY <1>5, <1>6, <1>7, <1>8

\* The end of a job that none waits for leaves who waits waiting.
LEMMA StillBlocked ==
    ASSUME NEW o \in 1..last, UNCHANGED last,
           \A x \in 1..last : x # o => jobs'[x] = jobs[x],
           jobs'[o].kind = jobs[o].kind,
           AtOnce[jobs[o].kind] = 0, jobs[o].kind \notin OneAtATimeKinds,
           NoKey \notin Keys, NEW id \in 1..last, Blocked(id)
    PROVE  Blocked(id)'
<1>1. jobs[id].kind # jobs[o].kind
  BY DEF Blocked, Running, AtLimit, AloneKey
<1>2. jobs'[id] = jobs[id]
  BY <1>1
<1>3. HeldJobs(jobs[id].kind, 0)' = HeldJobs(jobs[id].kind, 0)
  BY <1>1, <1>2 DEF HeldJobs
<1>4. \A x \in HeldJobs(jobs[id].kind, 0) : jobs'[x] = jobs[x]
  BY <1>1 DEF HeldJobs
<1>5. Running(id, 0) => Running(id, 0)'
  BY <1>2, <1>3, <1>4 DEF Running, AloneKey
<1>6. AtLimit(id, 0) => AtLimit(id, 0)'
  BY <1>2, <1>3 DEF AtLimit
<1> QED
  BY <1>5, <1>6 DEF Blocked

\* A step of w that leaves no poke out: if none is there or on its way after it,
\* none was before it.
LEMMA StillUntold ==
    ASSUME TypeOK, JobsDueAtOnce, NEW i \in Instances, NEW w \in Worker, UNCHANGED last,
           Doing(w, "onfail") => ~PokesAtEnd(w),
           \A x \in Worker : x # w => work'[x] = work[x],
           \A x \in 1..last : jobs'[x].kind = jobs[x].kind,
           wake[i] => wake'[i], Untold(i)'
    PROVE  Untold(i)
<1>1. SUFFICES ASSUME NEW x \in Worker, x # w, Doing(x, "onfail")
               PROVE  ~PokesAtEnd(x)
  BY DEF Untold
<1>2. work'[x] = work[x] /\ work[x].id \in 1..last
  BY <1>1 DEF TypeOK, Busy, Doing
<1>3. ~PokesAtEnd(x)'
  BY <1>1, <1>2 DEF Untold, Doing
<1> QED
  BY <1>2, <1>3 DEF PokesAtEnd, KindOf

\* A worker's step that tells the store nothing.
LEMMA OtherWakes ==
    ASSUME TypeOK, JobsDueAtOnce, WakeInv, NEW w \in Worker,
           UNCHANGED <<storeVars, clock, loop, told>>,
           Doing(w, "onfail") => ~PokesAtEnd(w),
           \A x \in Worker : x # w => work'[x] = work[x],
           work'[w].pc # "rate", work'[w].verdict # "stop",
           work'[w].verdict = "retry" => work'[w].at <= clock,
           \A i \in Instances : wake[i] => wake'[i]
    PROVE  WakeInv'
<1>1. LoopsRun'
  BY DEF WakeInv, LoopsRun
<1>2. DueNow'
  BY DEF WakeInv, DueNow, storeVars
<1>3. SeenDue'
  BY DEF WakeInv, SeenDue, Loose, InLoop, storeVars
<1>4. \A i \in Instances : Untold(i)' => Untold(i)
  BY StillUntold DEF storeVars
<1>5. NoneLoose'
  BY <1>4 DEF WakeInv, NoneLoose, Loose, Blocked, Running, AtLimit, HeldJobs, AloneKey, InLoop, storeVars
<1> QED
  BY <1>1, <1>2, <1>3, <1>5 DEF WakeInv

\* Nothing but Run's own loop takes a poke.
LEMMA PokeWakes ==
    ASSUME TypeOK, JobsDueAtOnce, NEW i \in Instances, NEW yes, Pokes(i, yes)
    PROVE  \A x \in Instances : (wake[x] => wake'[x]) /\ (yes => wake'[x])
BY DEF TypeOK, JobsDueAtOnce, Pokes

\* While each Run has a poke, there's nothing to say of where it sleeps.
LEMMA PokedWakes ==
    ASSUME \A i \in Instances : wake'[i], LoopsRun', DueNow'
    PROVE  WakeInv'
BY DEF WakeInv, SeenDue, NoneLoose, Untold

\* The handlers, and OnFail, whose pokes it sends as it returns.
LEMMA RunWakes ==
    ASSUME TypeOK, JobsDueAtOnce, WakeInv, NEW w \in Worker,
           \/ \E err \in {"nil", "failed", "permanent"}, b \in Backoffs : HandlerReturns(w, err, b)
           \/ OnFailReturns(w) \/ HandlerHangs(w)
    PROVE  WakeInv'
<1>0. work \in [Worker -> Work] /\ w[1] \in Instances /\ ~JobsCtxDone(w[1]) /\ clock \in Nat
  BY NotStopped, QueueAssumption DEF TypeOK, QueueAssumption
<1>1. ASSUME NEW err \in {"nil", "failed", "permanent"}, NEW b \in Backoffs, HandlerReturns(w, err, b)
      PROVE  WakeInv'
  <2> DEFINE verdict == VerdictOn(w, err)
             at == CASE verdict = "stop" -> clock
                     [] verdict = "retry" -> clock + b
                     [] OTHER -> 0
  <2>1. /\ Doing(w, "run") /\ UNCHANGED <<storeVars, clock, loop, told, wake>>
        /\ work' = [work EXCEPT ![w] = [@ EXCEPT !.pc = "report", !.verdict = verdict, !.at = at]]
    BY <1>1 DEF HandlerReturns, env, runVars
  <2>2. verdict \in {"done", "fail", "retry"}
    BY <1>0 DEF VerdictOn
  <2>3. verdict = "retry" => at <= clock
    BY <1>0 DEF JobsDueAtOnce
  <2>4. /\ work'[w].pc = "report" /\ work'[w].verdict = verdict /\ work'[w].at = at
        /\ \A x \in Worker : x # w => work'[x] = work[x]
    <3> HIDE DEF verdict, at
    <3> QED
      BY <1>0, <2>1 DEF Work
  <2> HIDE DEF verdict, at
  <2> QED
    BY <2>1, <2>2, <2>3, <2>4, OtherWakes DEF Doing
<1>2. CASE OnFailReturns(w)
  <2>1. /\ UNCHANGED <<storeVars, clock, loop, told>> /\ work' = [work EXCEPT ![w] = Free]
        /\ Pokes(w[1], PokesAtEnd(w))
    BY <1>2 DEF OnFailReturns, env, Frees
  <2>2. /\ work'[w] = Free /\ \A x \in Worker : x # w => work'[x] = work[x]
    BY <1>0, <2>1
  <2>3. \A x \in Instances : (wake[x] => wake'[x]) /\ (PokesAtEnd(w) => wake'[x])
    BY <1>0, <2>1, PokeWakes
  <2>4. CASE PokesAtEnd(w)
    <3>1. LoopsRun' /\ DueNow'
      BY <2>1, <2>2 DEF WakeInv, LoopsRun, DueNow, storeVars, Free
    <3> QED
      BY <2>3, <2>4, <3>1, PokedWakes
  <2>5. CASE ~PokesAtEnd(w)
    BY <2>1, <2>2, <2>3, <2>5, OtherWakes DEF Free
  <2> QED
    BY <2>4, <2>5
<1>3. CASE HandlerHangs(w)
  <2>1. /\ UNCHANGED <<storeVars, clock, loop, told, wake>> /\ work' = [work EXCEPT ![w].pc = "hung"]
        /\ Doing(w, "run")
    BY <1>3 DEF HandlerHangs, env, runVars
  <2>2. /\ work'[w].pc = "hung" /\ work'[w].verdict = work[w].verdict /\ work'[w].at = work[w].at
        /\ \A x \in Worker : x # w => work'[x] = work[x]
    BY <1>0, <2>1 DEF Work
  <2> QED
    BY <2>1, <2>2, OtherWakes DEF Doing, WakeInv, DueNow
<1> QED
  BY <1>1, <1>2, <1>3

\* What a report makes of the rows.  But for a retry, none becomes loose.
LEMMA TellsLoose ==
    ASSUME TypeOK, DueNow, NEW w \in Worker, Busy(w), Tells(w)
    PROVE  /\ \A x \in 1..last : x # work[w].id => jobs'[x] = jobs[x]
           /\ \A x \in 1..last : jobs'[x].kind = jobs[x].kind /\ jobs'[x].runAt <= clock
           /\ work[w].verdict # "retry" =>
                 \A x \in 1..last : Loose(x)' => Loose(x) /\ jobs'[x] = jobs[x]
<1> DEFINE id == work[w].id
<1>0. /\ jobs \in [1..last -> Job] /\ id \in 1..last /\ jobs[id] \in Job /\ clock \in Nat
      /\ \A x \in 1..last : jobs[x].runAt <= clock
  BY QueueAssumption DEF TypeOK, StoreTypeOK, DueNow, QueueAssumption
<1>1. CASE UNCHANGED jobs
  BY <1>0, <1>1 DEF Loose
<1>2. ASSUME NEW j, jobs' = [jobs EXCEPT ![id] = j], j.kind = jobs[id].kind, j.runAt <= clock,
             work[w].verdict # "retry" => j.st # "kept"
      PROVE  /\ \A x \in 1..last : x # id => jobs'[x] = jobs[x]
             /\ \A x \in 1..last : jobs'[x].kind = jobs[x].kind /\ jobs'[x].runAt <= clock
             /\ work[w].verdict # "retry" =>
                   \A x \in 1..last : Loose(x)' => Loose(x) /\ jobs'[x] = jobs[x]
  <2>1. jobs'[id] = j /\ \A x \in 1..last : x # id => jobs'[x] = jobs[x]
    BY <1>0, <1>2
  <2> QED
    BY <1>0, <1>2, <2>1 DEF Loose
<1>3. CASE work[w].verdict = "done" /\ Done(work[w]) /\ ClaimedBy(work[w])
  <2> DEFINE j == Deleted(jobs[id])
  <2>1. jobs' = [jobs EXCEPT ![id] = j]
    BY <1>0, <1>3 DEF Done
  <2>2. j.kind = jobs[id].kind /\ j.runAt <= clock /\ j.st = "gone"
    BY <1>0 DEF Deleted, Job
  <2> HIDE DEF j
  <2> QED
    BY <1>2, <2>1, <2>2
<1>4. CASE work[w].verdict = "retry" /\ Retry(work[w], work[w].at) /\ ClaimedBy(work[w])
  <2> DEFINE j == [jobs[id] EXCEPT !.runAt = work[w].at, !.heldUntil = 0]
  <2>1. jobs' = [jobs EXCEPT ![id] = j]
    BY <1>0, <1>4 DEF Retry
  <2>2. j.kind = jobs[id].kind /\ j.runAt <= clock
    BY <1>0, <1>4 DEF DueNow, Job
  <2> HIDE DEF j
  <2> QED
    BY <1>2, <1>4, <2>1, <2>2
<1>5. CASE work[w].verdict = "fail" /\ Fail(work[w]) /\ ClaimedBy(work[w])
  <2> DEFINE j == [jobs[id] EXCEPT !.st = "failed", !.heldUntil = 0]
  <2>1. jobs' = [jobs EXCEPT ![id] = j]
    BY <1>0, <1>5 DEF Fail
  <2>2. j.kind = jobs[id].kind /\ j.runAt <= clock /\ j.st = "failed"
    BY <1>0 DEF Job
  <2> HIDE DEF j
  <2> QED
    BY <1>2, <2>1, <2>2
<1> QED
  BY <1>1, <1>3, <1>4, <1>5 DEF Tells, Done, Retry, Fail, DueNow

\* A report pokes, or its OnFail will, if another job may have waited for its own.
LEMMA ReportWakes ==
    ASSUME TypeOK, JobsDueAtOnce, WakeInv, NEW w \in Worker, Report(w)
    PROVE  WakeInv'
<1> USE StoreAssumption, QueueAssumption DEF StoreAssumption, QueueAssumption
<1> DEFINE id == work[w].id
<1>0. /\ work \in [Worker -> Work] /\ w[1] \in Instances /\ Instances = {w[1]}
      /\ id \in 1..last /\ KindOf(w) \in Knows[w[1]] /\ Busy(w)
  <2>1. w[1] \in Instances /\ Instances = {w[1]}
    BY NotStopped DEF JobsDueAtOnce
  <2>2. Busy(w) /\ id \in 1..last /\ work \in [Worker -> Work]
    BY DEF Report, Doing, Busy, TypeOK
  <2> QED
    BY <2>1, <2>2 DEF WakeInv, DueNow, KindOf
<1>1. /\ Doing(w, "report") /\ Tells(w) /\ UNCHANGED <<last, heldKinds, clock, loop, told>>
  BY DEF Report, env
<1>2. \/ /\ work[w].verdict = "fail" /\ work' = [work EXCEPT ![w].pc = "onfail"] /\ UNCHANGED wake
      \/ /\ work[w].verdict # "fail" /\ work' = [work EXCEPT ![w] = Free]
         /\ Pokes(w[1], PokesAtEnd(w) \/ PokesDue(w))
  BY <1>0 DEF Report, Frees
<1>3. /\ \A x \in 1..last : x # id => jobs'[x] = jobs[x]
      /\ \A x \in 1..last : jobs'[x].kind = jobs[x].kind /\ jobs'[x].runAt <= clock
      /\ work[w].verdict # "retry" =>
            \A x \in 1..last : Loose(x)' => Loose(x) /\ jobs'[x] = jobs[x]
  BY <1>0, <1>1, TellsLoose DEF WakeInv
<1>4. /\ \A x \in Worker : x # w => work'[x] = work[x]
      /\ \/ work'[w] = Free /\ work[w].verdict # "fail"
         \/ /\ work[w].verdict = "fail" /\ work'[w].pc = "onfail" /\ work'[w].id = id
            /\ work'[w].verdict = "fail"
  BY <1>0, <1>2 DEF Work
<1>5. /\ wake[w[1]] => wake'[w[1]]
      /\ work[w].verdict # "fail" /\ (PokesAtEnd(w) \/ PokesDue(w)) => wake'[w[1]]
  BY <1>0, <1>2, PokeWakes
<1>6. LoopsRun'
  BY <1>1 DEF WakeInv, LoopsRun
<1>7. DueNow'
  BY <1>1, <1>3, <1>4 DEF WakeInv, DueNow, Free
<1>8. CASE work[w].verdict = "retry"
  <2>1. PokesDue(w)
    BY <1>8 DEF PokesDue, WakeInv, DueNow
  <2> QED
    BY <1>0, <1>5, <1>6, <1>7, <1>8, <2>1, PokedWakes
<1>9. CASE work[w].verdict # "retry"
  <2>1. SeenDue'
    BY <1>0, <1>1, <1>3, <1>5, <1>9 DEF WakeInv, SeenDue, InLoop
  <2>2. ASSUME InLoop(w[1], "idle"), Untold(w[1])', NEW x \in 1..last, Loose(x)'
        PROVE  Blocked(x)'
    <3>1. ~PokesAtEnd(w)
      <4>1. CASE work[w].verdict # "fail"
        BY <1>5, <2>2, <4>1 DEF Untold
      <4>2. CASE work'[w].pc = "onfail" /\ work'[w].id = id
        <5>1. ~PokesAtEnd(w)'
          BY <2>2, <4>2 DEF Untold, Doing
        <5>2. KindOf(w)' = KindOf(w)
          BY <1>0, <1>3, <4>2 DEF KindOf
        <5> QED
          BY <5>1, <5>2 DEF PokesAtEnd
      <4> QED
        BY <1>4, <4>1, <4>2
    <3>2. Untold(w[1])
      BY <1>0, <1>1, <1>3, <1>4, <1>5, <2>2, <3>1, StillUntold
    <3>3. Blocked(x)
      BY <1>0, <1>3, <1>9, <2>2, <3>2 DEF WakeInv, NoneLoose
    <3>4. AtOnce[jobs[id].kind] = 0 /\ jobs[id].kind \notin OneAtATimeKinds
      BY <1>0, <3>1 DEF PokesAtEnd, KindOf
    <3> QED
      BY <1>0, <1>1, <1>3, <3>3, <3>4, StillBlocked
  <2>3. NoneLoose'
    BY <1>0, <1>1, <2>2 DEF NoneLoose, InLoop
  <2> QED
    BY <1>6, <1>7, <2>1, <2>3 DEF WakeInv
<1> QED
  BY <1>8, <1>9

\* A push pokes.
LEMMA PushWakes ==
    ASSUME TypeOK, JobsDueAtOnce, WakeInv, NEW i \in Instances, NEW k \in Kinds, NEW v \in Keys,
           \/ \E a \in Ahead : PushAt(i, k, v, a)
           \/ \E y \in InWakes : PushIn(i, k, v, y)
    PROVE  WakeInv'
<1> USE StoreAssumption, QueueAssumption DEF StoreAssumption, QueueAssumption
<1>1. /\ k \in Knows[i] /\ Push(k, v, clock) /\ Pokes(i, TRUE) /\ UNCHANGED <<clock, loop, told, work>>
  <2>1. CASE \E a \in Ahead : PushAt(i, k, v, a)
    <3>1. PushAt(i, k, v, 0)
      BY <2>1 DEF JobsDueAtOnce
    <3>2. clock + 0 = clock
      BY DEF TypeOK
    <3> QED
      BY <3>1, <3>2 DEF PushAt, env
  <2>2. CASE \E y \in InWakes : PushIn(i, k, v, y)
    <3>1. PushIn(i, k, v, TRUE)
      BY <2>2 DEF JobsDueAtOnce
    <3> QED
      BY <3>1 DEF PushIn, env
  <2> QED
    BY <2>1, <2>2
<1>2. Instances = {i} /\ jobs \in [1..last -> Job] /\ last \in Nat /\ clock \in Nat
  BY DEF JobsDueAtOnce, TypeOK, StoreTypeOK
<1>3. UNCHANGED heldKinds /\ (PushLatest(k, v, clock) \/ PushUnique(k, v, clock) \/ push(k, v, clock))
  BY <1>1 DEF Push
<1>4. \A x \in 1..last' : \/ x \in 1..last /\ jobs'[x].kind = jobs[x].kind
                              /\ jobs'[x].runAt \in {clock, jobs[x].runAt}
                          \/ jobs'[x].kind = k /\ jobs'[x].runAt = clock
  <2>1. CASE UNCHANGED <<jobs, last>>
    BY <2>1
  <2>2. CASE push(k, v, clock)
    BY <1>2, <2>2 DEF push, NewJob
  <2>3. CASE /\ UNCHANGED last
             /\ jobs' = [x \in 1..last |-> IF jobs[x].kind = k /\ jobs[x].key = KeyOf(k, v)
                                           THEN [jobs[x] EXCEPT !.runAt = clock] ELSE jobs[x]]
    BY <1>2, <2>3 DEF Job
  <2> QED
    BY <1>3, <2>1, <2>2, <2>3 DEF PushLatest, PushUnique
<1>5. DueNow'
  BY <1>1, <1>2, <1>3, <1>4 DEF WakeInv, DueNow
<1>6. LoopsRun' /\ \A x \in Instances : wake'[x]
  BY <1>1, <1>2, PokeWakes DEF WakeInv, LoopsRun
<1> QED
  BY <1>5, <1>6, PokedWakes

\* So every step keeps the invariant; a tick makes nothing due that wasn't.
LEMMA WakeStep ==
    ASSUME TypeOK, JobsDueAtOnce, WakeInv, [Next]_vars
    PROVE  WakeInv'
<1>1. CASE Tick
  <2>1. /\ UNCHANGED <<jobs, last, heldKinds, loop, told, wake, work>> /\ clock \in Nat
        /\ clock' = clock + 1 /\ jobs \in [1..last -> Job] /\ work \in [Worker -> Work]
    BY <1>1, QueueAssumption DEF Tick, storeVars, runVars, TypeOK, StoreTypeOK, QueueAssumption
  <2>2. \A x \in Worker : work[x].at \in Nat
    BY <2>1 DEF Work
  <2>3. \A x \in 1..last : jobs[x].runAt \in Nat
    BY <2>1 DEF Job
  <2>4. LoopsRun' /\ DueNow' /\ SeenDue'
    BY <2>1, <2>2, <2>3 DEF WakeInv, LoopsRun, DueNow, SeenDue, InLoop, Loose
  <2>5. NoneLoose'
    BY <2>1 DEF WakeInv, NoneLoose, Untold, PokesAtEnd, KindOf, Doing, InLoop, Loose, Blocked,
                Running, AtLimit, HeldJobs, AloneKey
  <2> QED
    BY <2>4, <2>5 DEF WakeInv
<1>2. CASE UNCHANGED vars
  BY <1>2 DEF vars, storeVars, env, runVars, WakeInv, LoopsRun, DueNow, SeenDue, NoneLoose, Untold,
              PokesAtEnd, KindOf, Doing, InLoop, Loose, Blocked, Running, AtLimit, HeldJobs, AloneKey
<1>3. CASE Next
  BY <1>1, <1>3, WakeSteps, LoopWakes, RunWakes, ReportWakes, PushWakes
<1> QED
  BY <1>2, <1>3

\* In every run of an app of one instance that nothing stops, whose store doesn't fail
\* and whose jobs are due as they're pushed or retried: Run doesn't sleep while a job
\* it could claim is in the store, whatever is pushed and ends between its claim that
\* found nothing and its sleep, and with AtOnce and OneAtATime making jobs wait for
\* others.  The deferred poke of run, and the pokes of the pushes, leave out none.
THEOREM AwakeForWork == JobsDueAtOnce => (Spec => []NoSleepOnWork)
<1> SUFFICES ASSUME JobsDueAtOnce PROVE Spec => []NoSleepOnWork
  OBVIOUS
<1>1. Init => WakeInv
  BY DEF JobsDueAtOnce, Init, StoreInit, WakeInv, LoopsRun, DueNow, SeenDue, NoneLoose, Off, At,
         InLoop, Free
<1>2. TypeOK /\ WakeInv /\ [Next]_vars => WakeInv'
  BY WakeStep
<1>3. TypeOK /\ WakeInv => NoSleepOnWork
  BY DEF WakeInv, NoneLoose, NoSleepOnWork, Untold, Loose, Blocked, JobsDueAtOnce, Worker
<1> QED
  BY <1>1, <1>2, <1>3, TypeCorrect, PTL DEF Spec

-----------------------------------------------------------------------------
(* What a Store promises, JobRuns: those who run are the workers whose holds *)
(* last, and each step of the queue's is one of its own, or none.           *)

\* What's seen of the queue stutters, or takes a step of JobRuns.
SeenStep == [AsRuns!Next]_<<RowsSeen, RunsSeen>>

\* A row says the same of its job.
SaysSame(i) ==
    /\ jobs'[i].st = jobs[i].st /\ jobs'[i].kind = jobs[i].kind /\ jobs'[i].value = jobs[i].value

LEMMA SameSeen ==
    ASSUME UNCHANGED last, \A i \in 1..last : SaysSame(i)
    PROVE  RowsSeen' = RowsSeen
BY DEF RowsSeen, SaysSame

\* Where none begins, who runs ran before.
LEMMA NoneBegins ==
    ASSUME TypeOK, TypeOK', clock <= clock', \A w \in Worker : ClaimKept(w)
    PROVE  RunsSeen' \subseteq RunsSeen
<1>1. clock \in Nat /\ clock' \in Nat /\ work \in [Worker -> Work]
  BY QueueAssumption DEF TypeOK, QueueAssumption
<1>2. ASSUME NEW w \in Worker, Live(w)'
      PROVE  Live(w) /\ work'[w].id = work[w].id
  BY <1>1, <1>2 DEF ClaimKept, Live, Busy, Work
<1> QED
  BY <1>2 DEF RunsSeen

LEMMA LetsGo ==
    ASSUME RowsSeen' = RowsSeen, RunsSeen' \subseteq RunsSeen
    PROVE  SeenStep
BY DEF SeenStep, AsRuns!Next, AsRuns!LetGo

\* A new row is a push.
LEMMA PushSeen ==
    ASSUME TypeOK, NEW k \in Kinds, NEW v \in Keys, NEW at, push(k, v, at), UNCHANGED <<work, clock>>
    PROVE  SeenStep
<1>1. last \in Nat /\ last + 1 \in 1..MaxJobs /\ last' = last + 1
  BY StoreAssumption DEF TypeOK, StoreTypeOK, push, StoreAssumption
<1>2. RunsSeen' = RunsSeen
  BY DEF RunsSeen, Live
<1>3. DOMAIN RowsSeen = 1..last /\ last + 1 \notin 1..last
  BY <1>1 DEF RowsSeen
<1>4. RowsSeen' = [o \in 1..last \cup {last + 1} |->
                     IF o = last + 1 THEN [st |-> "kept", kind |-> k, value |-> v] ELSE RowsSeen[o]]
  <2>1. 1..(last + 1) = 1..last \cup {last + 1}
    BY <1>1
  <2>2. jobs' = [o \in 1..last \cup {last + 1} |-> IF o <= last THEN jobs[o] ELSE NewJob(k, v, at)]
    BY <2>1 DEF push
  <2>3. RowsSeen' = [o \in 1..last \cup {last + 1} |->
                       [st |-> jobs'[o].st, kind |-> jobs'[o].kind, value |-> jobs'[o].value]]
    BY <1>1, <2>1 DEF RowsSeen
  <2>4. \A o \in 1..last \cup {last + 1} :
           [st |-> jobs'[o].st, kind |-> jobs'[o].kind, value |-> jobs'[o].value]
           = IF o = last + 1 THEN [st |-> "kept", kind |-> k, value |-> v] ELSE RowsSeen[o]
    <3>1. ASSUME NEW o \in 1..last PROVE jobs'[o] = jobs[o] /\ o # last + 1
      BY <1>1, <2>2
    <3>2. jobs'[last + 1] = NewJob(k, v, at)
      BY <1>1, <2>2
    <3>3. NewJob(k, v, at).st = "kept" /\ NewJob(k, v, at).kind = k /\ NewJob(k, v, at).value = v
      BY DEF NewJob
    <3> QED
      BY <3>1, <3>2, <3>3 DEF RowsSeen
  <2> QED
    BY <2>3, <2>4
<1>5. AsRuns!Push(last + 1, k, v)
  BY <1>2, <1>3, <1>4 DEF AsRuns!Push
<1> QED
  BY <1>1, <1>5 DEF SeenStep, AsRuns!Next

\* The rows that say the same may have a push's time, be held, or put back.
LEMMA PushesSeen ==
    ASSUME TypeOK, NEW k \in Kinds, NEW v \in Keys, NEW at, UNCHANGED <<work, clock>>,
           push(k, v, at) \/ PushUnique(k, v, at) \/ PushLatest(k, v, at)
    PROVE  SeenStep
<1>1. RunsSeen' = RunsSeen
  BY DEF RunsSeen, Live
<1>2. CASE push(k, v, at)
  BY <1>2, PushSeen
<1>3. CASE UNCHANGED <<jobs, last>>
  BY <1>1, <1>3, SameSeen, LetsGo DEF SaysSame
<1>4. CASE PushLatest(k, v, at) /\ Waiting(k, KeyOf(k, v))
  <2>1. UNCHANGED last /\ jobs \in [1..last -> Job]
    BY <1>4 DEF PushLatest, TypeOK, StoreTypeOK
  <2>2. \A i \in 1..last : SaysSame(i)
    BY <1>4, <2>1 DEF PushLatest, SaysSame, Job
  <2> QED
    BY <1>1, <2>1, <2>2, SameSeen, LetsGo
<1> QED
  BY <1>2, <1>3, <1>4 DEF PushUnique, PushLatest

LEMMA HoldSeen ==
    ASSUME TypeOK, NEW id \in 1..last, NEW until, Hold(id, until), UNCHANGED last
    PROVE  RowsSeen' = RowsSeen
<1>1. jobs \in [1..last -> Job]
  BY DEF TypeOK, StoreTypeOK
<1>2. \A i \in 1..last : SaysSame(i)
  BY <1>1 DEF Hold, SaysSame, Job
<1> QED
  BY <1>2, SameSeen

LEMMA PutBackSeen ==
    ASSUME TypeOK, NEW c, NEW until, HoldBack(c, until), UNCHANGED last
    PROVE  RowsSeen' = RowsSeen
<1>1. jobs \in [1..last -> Job]
  BY DEF TypeOK, StoreTypeOK
<1>2. \A i \in 1..last : SaysSame(i)
  BY <1>1 DEF HoldBack, GiveBack, PutBack, SaysSame, Job
<1> QED
  BY <1>2, SameSeen

\* A report ends its job, or changes nothing that's seen of it.
LEMMA TellsSeen ==
    ASSUME TypeOK, NEW w \in Worker, Busy(w), Tells(w)
    PROVE  \/ \A i \in 1..last : SaysSame(i)
           \/ /\ ClaimedBy(work[w])
              /\ \A i \in 1..last : i # work[w].id => jobs'[i] = jobs[i]
              /\ jobs'[work[w].id].st \in {"failed", "gone"}
              /\ jobs'[work[w].id].kind = jobs[work[w].id].kind
              /\ jobs'[work[w].id].value = jobs[work[w].id].value
<1> DEFINE id == work[w].id
<1>0. jobs \in [1..last -> Job] /\ id \in 1..last /\ jobs[id] \in Job
  BY DEF TypeOK, StoreTypeOK
<1>1. CASE UNCHANGED jobs
  BY <1>1 DEF SaysSame
<1>2. CASE ClaimedBy(work[w]) /\ Done(work[w])
  BY <1>0, <1>2 DEF Done, Deleted, Job
<1>3. CASE ClaimedBy(work[w]) /\ Retry(work[w], work[w].at)
  BY <1>0, <1>3 DEF Retry, SaysSame, Job
<1>4. CASE ClaimedBy(work[w]) /\ Fail(work[w])
  BY <1>0, <1>4 DEF Fail, Job
<1> QED
  BY <1>1, <1>2, <1>3, <1>4 DEF Tells, Done, Retry, Fail

\* The end of a job is the end of the run of it, as any other worker that ran it
\* would hold it still.
LEMMA EndSeen ==
    ASSUME TypeOK, IInv', UNCHANGED <<clock, last>>, NEW w \in Worker, Busy(w), ~Live(w)',
           \A x \in Worker : x # w => work'[x] = work[x],
           ClaimedBy(work[w]), \A i \in 1..last : i # work[w].id => jobs'[i] = jobs[i],
           jobs'[work[w].id].st \in {"failed", "gone"},
           jobs'[work[w].id].kind = jobs[work[w].id].kind,
           jobs'[work[w].id].value = jobs[work[w].id].value
    PROVE  SeenStep
<1> DEFINE id == work[w].id
           st == jobs'[id].st
<1>0. id \in 1..last /\ jobs[id].st = "kept"
  BY DEF TypeOK, ClaimedBy
<1>1. RowsSeen' = [RowsSeen EXCEPT ![id].st = st]
  BY <1>0 DEF RowsSeen
<1>2. \A x \in Worker : Live(x)' => x # w /\ work'[x] = work[x] /\ Live(x) /\ work[x].id # id
  <2> SUFFICES ASSUME NEW x \in Worker, Live(x)'
               PROVE  x # w /\ work'[x] = work[x] /\ Live(x) /\ work[x].id # id
    OBVIOUS
  <2>1. x # w /\ work'[x] = work[x] /\ Live(x)
    BY DEF Live
  <2>2. jobs'[work'[x].id].st = "kept"
    BY DEF IInv, LiveHolds, ClaimedBy
  <2> QED
    BY <2>1, <2>2
<1>3. \A x \in Worker : Live(x) /\ work[x].id # id => Live(x)' /\ work'[x] = work[x]
  BY DEF Live
<1>4. RunsSeen' = {r \in RunsSeen : r[2] # id}
  BY <1>2, <1>3 DEF RunsSeen
<1>5. RowsSeen[id].st = "kept" /\ id \in DOMAIN RowsSeen
  BY <1>0 DEF RowsSeen
<1>6. AsRuns!End(id, st)
  BY <1>1, <1>4, <1>5 DEF AsRuns!End
<1> QED
  BY <1>5, <1>6 DEF SeenStep, AsRuns!Next

\* JobRuns has its own instance of FiniteSets.
LEMMA SameCardinality == \A S : AsRuns!Cardinality(S) = Cardinality(S)
BY DEF AsRuns!Cardinality, Cardinality, AsRuns!IsFiniteSet, IsFiniteSet

\* Those that run jobs of a kind are no more than the workers that do.
LEMMA RunsOfKind ==
    ASSUME TypeOK, IInv, NEW k, NEW now \in Nat, now <= clock
    PROVE  /\ Cardinality(AsRuns!RunsOf(k)) \in Nat /\ Cardinality(HeldJobs(k, now)) \in Nat
           /\ Cardinality(AsRuns!RunsOf(k)) <= Cardinality(HeldJobs(k, now))
<1> DEFINE R == AsRuns!RunsOf(k)
           L == LiveOf(k)
           f == [r \in R |-> r[1]]
<1>1. /\ IsFiniteSet(L) /\ Cardinality(L) \in Nat /\ Cardinality(HeldJobs(k, now)) \in Nat
      /\ Cardinality(L) <= Cardinality(HeldJobs(k, now))
  BY NoMoreThanHeld
<1>2. \A r \in R : r[1] \in L /\ r = <<r[1], work[r[1]].id>>
  <2> SUFFICES ASSUME NEW r \in R PROVE r[1] \in L /\ r = <<r[1], work[r[1]].id>>
    OBVIOUS
  <2>1. PICK w \in Worker : Live(w) /\ r = <<w, work[w].id>> /\ RowsSeen[r[2]].kind = k
    BY DEF AsRuns!RunsOf, RunsSeen
  <2>2. work[w].id \in 1..last
    BY <2>1 DEF TypeOK, Live, Busy
  <2> QED
    BY <2>1, <2>2 DEF RowsSeen, LiveOf, KindOf
<1>3. f \in Injection(R, L)
  <2>1. f \in [R -> L]
    BY <1>2
  <2>2. \A r, q \in R : f[r] = f[q] => r = q
    BY <1>2
  <2> QED
    BY <2>1, <2>2 DEF Injection, IsInjective
<1>4. IsFiniteSet(R) /\ Cardinality(R) <= Cardinality(L)
  <2> HIDE DEF f, L, R
  <2> QED
    BY <1>1, <1>3, FS_Injection
<1>5. Cardinality(R) \in Nat
  BY <1>4, FS_CardinalityType
<1> QED
  BY <1>1, <1>4, <1>5

\* A claim whose hold lasts is the beginning of a run, of a job that no one else runs.
LEMMA ClaimSeen ==
    ASSUME TypeOK, TypeOK', IInv, IInv', NEW i \in Instances, Claim(i)
    PROVE  SeenStep
<1>0. /\ clock \in Nat /\ work \in [Worker -> Work] /\ jobs \in [1..last -> Job]
      /\ \A w \in Worker : Live(w) => work[w].id \in 1..last
      /\ loop[i].now \in Nat /\ loop[i].now <= clock /\ AtOnce \in [Kinds -> Nat]
  BY QueueAssumption, StoreAssumption
     DEF TypeOK, StoreTypeOK, QueueAssumption, StoreAssumption, Live, Busy, Loop, IInv, NowsPassed
<1>1. PICK id \in 1..last, s \in 1..Slots :
         /\ NextDue(id, loop[i].now) /\ ~Busy(<<i, s>>)
         /\ Hold(id, loop[i].now + HoldFor)
         /\ work' = [work EXCEPT ![<<i, s>>] =
                [pc |-> IF Rated(i, jobs[id].kind) THEN "rate" ELSE "run", id |-> id,
                 attempts |-> jobs[id].attempts + 1, until |-> loop[i].now + HoldFor,
                 verdict |-> "none", at |-> 0]]
         /\ UNCHANGED <<clock, last>>
  BY DEF Claim, env
<1> DEFINE new == <<i, s>>
           k == jobs[id].kind
<1>2. new \in Worker /\ work'[new].id = id /\ \A x \in Worker : x # new => work'[x] = work[x]
  BY <1>0, <1>1 DEF Worker
<1>3. RowsSeen' = RowsSeen /\ id \in DOMAIN RowsSeen
  BY <1>1, HoldSeen DEF RowsSeen
<1>4. ~Live(new)
  BY <1>1 DEF Live, Busy
<1>5. \A x \in Worker : x # new => (Live(x)' <=> Live(x))
  BY <1>1, <1>2 DEF Live
<1>6. CASE ~Live(new)'
  <2>1. RunsSeen' = RunsSeen
    BY <1>2, <1>4, <1>5, <1>6 DEF RunsSeen
  <2> QED
    BY <1>3, <2>1, LetsGo
<1>7. CASE Live(new)'
  <2>1. RunsSeen' = RunsSeen \cup {<<new, id>>}
    BY <1>2, <1>4, <1>5, <1>7 DEF RunsSeen
  <2>2. \A r \in RunsSeen : r[1] # new /\ r[2] # id
    <3> SUFFICES ASSUME NEW w \in Worker, Live(w) PROVE w # new /\ work[w].id # id
      BY DEF RunsSeen
    <3>1. w # new /\ Live(w)' /\ work'[w] = work[w]
      BY <1>2, <1>4, <1>5
    <3>2. ExclusiveHold'
      BY IInvExcludes, PTL
    <3> QED
      BY <1>2, <1>7, <3>1, <3>2 DEF ExclusiveHold
  <2>3. RowsSeen[id].st = "kept" /\ RowsSeen[id].kind = k /\ RowsSeen[id].value = jobs[id].value
    BY <1>1 DEF RowsSeen, NextDue, Claimable
  <2>4. k \in Kinds /\ ~AtLimit(id, loop[i].now)
    BY <1>0, <1>1 DEF Job, NextDue, Claimable
  <2>5. AtOnce[k] # 0 => Cardinality(AsRuns!RunsOf(k)) < AtOnce[k]
    <3>1. /\ Cardinality(AsRuns!RunsOf(k)) \in Nat /\ Cardinality(HeldJobs(k, loop[i].now)) \in Nat
          /\ Cardinality(AsRuns!RunsOf(k)) <= Cardinality(HeldJobs(k, loop[i].now))
      BY <1>0, RunsOfKind
    <3>2. AtOnce[k] # 0 => Cardinality(HeldJobs(k, loop[i].now)) < AtOnce[k]
      BY <1>0, <2>4, <3>1 DEF AtLimit
    <3>3. AtOnce[k] \in Nat
      BY <1>0, <2>4
    <3> QED
      BY <3>1, <3>2, <3>3
  <2>6. k \in OneAtATimeKinds =>
           \A r \in AsRuns!RunsOf(k) : RowsSeen[r[2]].value # jobs[id].value
    <3> SUFFICES ASSUME k \in OneAtATimeKinds, NEW r \in AsRuns!RunsOf(k)
                 PROVE  RowsSeen[r[2]].value # jobs[id].value
      OBVIOUS
    <3>1. PICK w \in Worker : Live(w) /\ r = <<w, work[w].id>> /\ RowsSeen[r[2]].kind = k
      BY DEF AsRuns!RunsOf, RunsSeen
    <3>2. KindOf(w) = k /\ RowsSeen[r[2]].value = ValueOf(w)
      BY <1>0, <3>1 DEF RowsSeen, KindOf, ValueOf
    <3> QED
      BY <1>1, <3>1, <3>2, ClaimedAlone
  <2>7. AsRuns!Begin(new, id)
    <3> HIDE DEF new, k
    <3> QED
      BY <1>3, <2>1, <2>2, <2>3, <2>5, <2>6, SameCardinality DEF AsRuns!Begin
  <2> QED
    BY <1>2, <1>3, <2>7 DEF SeenStep, AsRuns!Next
<1> QED
  BY <1>6, <1>7

LEMMA StepSeen ==
    ASSUME TypeOK, TypeOK', IInv, IInv', [Next]_vars
    PROVE  SeenStep
<1> USE QueueAssumption, StoreAssumption DEF QueueAssumption, StoreAssumption
<1>1. ASSUME NEW i \in Instances, Claim(i) PROVE SeenStep
  BY <1>1, ClaimSeen
<1>2. CASE \A i \in Instances : ~Claim(i)
  <2>0. clock <= clock' /\ (\A w \in Worker : ClaimKept(w)) /\ RunsSeen' \subseteq RunsSeen
    BY <1>2, OnlyClaimsStart, NoneBegins
  <2>1. ASSUME RowsSeen' = RowsSeen PROVE SeenStep
    BY <2>0, <2>1, LetsGo
  <2>2. ASSUME UNCHANGED <<jobs, last>> PROVE SeenStep
    BY <2>1, <2>2, SameSeen DEF SaysSame
  <2>3. ASSUME NEW i \in Instances, LoopStep(i) PROVE SeenStep
    <3>1. ASSUME NEW k \in ScheduledKinds, PushRun(i, k) PROVE SeenStep
      BY <2>2, <3>1, PushesSeen DEF PushRun, PushScheduled, env
    <3>2. CASE ClaimNothing(i)
      BY <2>1, <2>2, <3>2, HoldSeen DEF ClaimNothing
    <3> QED
      BY <1>2, <2>2, <2>3, <3>1, <3>2
         DEF LoopStep, PushedRuns, TakeSlot, Break, IdleEnds, DrainNext, GraceOver, Return, storeVars
  <2>4. ASSUME NEW w \in Worker, Busy(w), Tells(w), UNCHANGED <<clock, last>>, ~Live(w)',
               \A x \in Worker : x # w => work'[x] = work[x]
        PROVE  SeenStep
    BY <2>1, <2>4, TellsSeen, SameSeen, EndSeen
  <2>5. ASSUME NEW w \in Worker, WorkerStep(w) PROVE SeenStep
    <3>1. work \in [Worker -> Work]
      BY DEF TypeOK
    <3>2. ASSUME NEW wait \in Waits, RateRefuses(w, wait) PROVE SeenStep
      BY <2>1, <3>2, PutBackSeen DEF RateRefuses
    <3>3. ASSUME Report(w) \/ ReportLost(w), Tells(w) PROVE SeenStep
      <4>1. Busy(w) /\ UNCHANGED <<clock, last>>
        BY <3>3 DEF Report, ReportLost, Doing, Busy, env
      <4>2. work' = [work EXCEPT ![w].pc = "onfail"] \/ work' = [work EXCEPT ![w] = Free]
        BY <3>3 DEF Report, ReportLost, Frees
      <4>3. ~Live(w)' /\ \A x \in Worker : x # w => work'[x] = work[x]
        BY <3>1, <4>2 DEF Live, Free, Work
      <4> QED
        BY <2>4, <3>3, <4>1, <4>3
    <3>4. ASSUME ReportLost(w), ~Tells(w) PROVE SeenStep
      BY <2>2, <3>4 DEF ReportLost
    <3> QED
      BY <2>2, <2>5, <3>2, <3>3, <3>4
         DEF WorkerStep, RateAllows, RefusalLost, HandlerReturns, Report, OnFailReturns, storeVars
  <2>6. CASE Environment
    <3>1. ASSUME NEW i \in Instances, NEW k \in Kinds, NEW v \in Keys, NEW at,
                 Push(k, v, at), UNCHANGED <<work, clock>>
          PROVE  SeenStep
      BY <3>1, PushesSeen DEF Push
    <3>2. ASSUME NEW i \in Instances, NEW k \in Kinds, NEW v \in Keys,
                 (\E a \in Ahead : PushAt(i, k, v, a)) \/ (\E y \in InWakes : PushIn(i, k, v, y))
          PROVE  SeenStep
      BY <3>1, <3>2 DEF PushAt, PushIn, env
    <3> QED
      BY <2>2, <2>6, <3>2 DEF Environment, Tick, Start, Stop, Exit, HandlerHangs, storeVars
  <2>7. CASE UNCHANGED vars
    BY <2>2, <2>7 DEF vars, storeVars
  <2> QED
    BY <2>3, <2>5, <2>6, <2>7 DEF Next
<1> QED
  BY <1>1, <1>2

\* In every run of the app's instances the queue is a JobRuns: through kills, lost
\* answers, holds that run out and the late reports of their workers, a job is run
\* by one worker at a time, with no more of its kind than AtOnce and none of its value
\* beside it if it's OneAtATime, and ends once, by the report of the worker that has it.
THEOREM QueueImplementsRuns == Spec => ImplementsRuns
<1>1. Init => AsRuns!Init
  <2> SUFFICES ASSUME Init PROVE AsRuns!Init
    OBVIOUS
  <2>1. RunsSeen = {}
    BY DEF Init, RunsSeen, Live, Free
  <2>2. DOMAIN RowsSeen = {}
    BY DEF Init, StoreInit, RowsSeen
  <2> QED
    BY <2>1, <2>2 DEF AsRuns!Init
<1>2. TypeOK /\ TypeOK' /\ IInv /\ [Next]_vars => IInv'
  BY InvStep
<1>3. TypeOK /\ TypeOK' /\ IInv /\ IInv' /\ [Next]_vars => [AsRuns!Next]_<<RowsSeen, RunsSeen>>
  BY StepSeen DEF SeenStep
<1> QED
  BY InitInv, TypeCorrect, <1>1, <1>2, <1>3, PTL DEF Spec, ImplementsRuns, AsRuns!Spec
=============================================================================
