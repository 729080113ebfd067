-------------------------- MODULE SqlClaimsProofs --------------------------
(***************************************************************************)
(* That the claims of SqlClaims, of several steps each, are the claims of  *)
(* JobClaims, of one step, keep the limits, and never wait for each other, *)
(* for every value of the constants.                                       *)
(***************************************************************************)
EXTENDS SqlClaims, JobStoreProofs, FiniteSetTheorems

-----------------------------------------------------------------------------
(* The invariant.                                                          *)

\* No row is locked by two claims.
LocksExclude == \A l, m \in locks : l[2] = m[2] => l[1] = m[1]

\* The steps of a claim that has its job.
Holding == {"key", "keyed", "kind", "kinded", "write"}

\* What claim c has seen of its job is so still: the job is due, as its row is
\* locked; past its key's lock no other of its key is held, and past its kind's
\* the kind has room, as whoever would change that waits for the lock.
ClaimSafe(c) ==
    LET i == txn[c].id
        now == txn[c].now
        k == jobs[i].kind
    IN txn[c].pc \in Holding =>
        /\ i \in 1..last
        /\ <<c, JobRow(i)>> \in locks
        /\ Due(i, now)
        /\ txn[c].pc = "keyed" => <<c, KeyRow(k, AloneKey(jobs[i]))>> \in locks
        /\ txn[c].pc \in {"kind", "kinded", "write"} =>
              \/ AloneKey(jobs[i]) = NoKey
              \/ <<c, KeyRow(k, AloneKey(jobs[i]))>> \in locks /\ ~Running(i, now)
        /\ txn[c].pc = "kinded" => <<c, KindRow(k)>> \in locks
        /\ txn[c].pc = "write" =>
              \/ AtOnce[k] = 0
              \/ <<c, KindRow(k)>> \in locks /\ ~AtLimit(i, now)

IInv ==
    /\ LocksExclude
    /\ \A c \in Claimers : txn[c].now <= clock /\ ClaimSafe(c)

\* What's said of the types, apart.
ClockOK == clock \in 0..MaxTime /\ heldKinds \in [Kinds -> Nat] /\ schedules \in [ScheduledKinds -> Nat]
GivenOK == \A c \in given : c \in Claims /\ c.id \in 1..last /\ c.attempts > 0
Txn == [pc : Pc, now : 0..MaxTime, id : 0..MaxJobs, seen : SUBSET (1..MaxJobs)]
TxnOK ==
    /\ txn \in [Claimers -> Txn]
    /\ \A l \in locks : l = <<l[1], l[2]>> /\ l[1] \in Claimers
Types == Rows /\ ClockOK /\ GivenOK /\ TxnOK

LEMMA TypesAreTypeOK == Types => SqlTypeOK
BY DEF Types, SqlTypeOK, StoreTypeOK, Rows, ClockOK, GivenOK, TxnOK, Txn

-----------------------------------------------------------------------------
(* Type correctness.                                                       *)

LEMMA InitInv == SqlInit => Types /\ IInv
<1> USE StoreAssumption, ClaimsAssumption DEF StoreAssumption, ClaimsAssumption
<1> SUFFICES ASSUME SqlInit PROVE Types /\ IInv
  OBVIOUS
<1>1. Rows /\ ClockOK /\ GivenOK
  BY DEF SqlInit, Init, StoreInit, Rows, ClockOK, GivenOK
<1>2. TxnOK
  BY DEF SqlInit, TxnOK, Txn, Idle, Pc
<1>3. IInv
  BY DEF SqlInit, Init, IInv, LocksExclude, ClaimSafe, Holding, Idle
<1> QED
  BY <1>1, <1>2, <1>3 DEF Types

\* A step of a claim changes its transaction alone, but for its last.
LEMMA ClaimTypes ==
    ASSUME Types, NEW c \in Claimers, NEW t \in Txn, txn' = [txn EXCEPT ![c] = t],
           UNCHANGED claimVars, \A l \in locks' : l \in locks \/ l = <<c, l[2]>>
    PROVE  Types'
BY DEF Types, Rows, ClockOK, GivenOK, TxnOK, claimVars, storeVars

LEMMA TryAgainTypes ==
    ASSUME Types, NEW c \in Claimers, TryAgain(c), UNCHANGED claimVars
    PROVE  Types'
<1>0. txn[c] \in Txn /\ 0 \in 0..MaxJobs
  BY StoreAssumption DEF Types, TxnOK, StoreAssumption
<1>1. [txn[c] EXCEPT !.pc = "look", !.id = 0] \in Txn
  BY <1>0 DEF Txn, Pc
<1>2. txn' = [txn EXCEPT ![c] = [txn[c] EXCEPT !.pc = "look", !.id = 0]]
  BY DEF Types, TxnOK, TryAgain
<1>3. \A l \in locks' : l \in locks
  BY DEF TryAgain, LetGo
<1> QED
  BY <1>1, <1>2, <1>3, ClaimTypes

LEMMA GotoTypes ==
    ASSUME Types, NEW c \in Claimers, NEW pc \in Pc, Goto(c, pc), UNCHANGED claimVars,
           \A l \in locks' : l \in locks \/ l = <<c, l[2]>>
    PROVE  Types'
<1>1. [txn[c] EXCEPT !.pc = pc] \in Txn
  BY DEF Types, TxnOK, Txn
<1>2. txn' = [txn EXCEPT ![c] = [txn[c] EXCEPT !.pc = pc]]
  BY DEF Types, TxnOK, Goto
<1> QED
  BY <1>1, <1>2, ClaimTypes

LEMMA IdleType == Idle \in Txn
BY StoreAssumption, ClaimsAssumption DEF Idle, Txn, Pc, StoreAssumption, ClaimsAssumption

LEMMA WriteTypes ==
    ASSUME Types, IInv, NEW c \in Claimers, Write(c)
    PROVE  Types'
<1> DEFINE i == txn[c].id
<1>0. txn[c] \in Txn /\ txn[c].pc \in Holding /\ ClaimSafe(c)
  BY DEF Write, Doing, IInv, Holding, Types, TxnOK
<1>a. i \in 1..last /\ Due(i, txn[c].now)
  BY <1>0 DEF ClaimSafe
<1>1. i \in 1..last /\ jobs[i].st = "kept" /\ txn[c].now \in Nat
  BY <1>0, <1>a, ClaimsAssumption DEF Due, Txn, ClaimsAssumption
<1>2. Rows'
  BY <1>1, HoldRows, ClaimsAssumption DEF Write, Types, ClaimsAssumption
<1>3. GivenOK'
  <2>1. ClaimOf(i) \in Claims /\ ClaimOf(i).id = i /\ ClaimOf(i).attempts > 0
    <3>1. jobs[i] \in Job /\ i \in 1..MaxJobs
      BY <1>1, StoreAssumption DEF Types, Rows, StoreAssumption
    <3> QED
      BY <3>1 DEF Job, Claims, ClaimOf
  <2> QED
    BY <1>1, <2>1 DEF Write, Types, GivenOK
<1>4. ClockOK' /\ TxnOK'
  BY IdleType DEF Write, Types, ClockOK, TxnOK, LetGo
<1> QED
  BY <1>2, <1>3, <1>4 DEF Types

LEMMA ClaimStepTypes ==
    ASSUME Types, IInv, NEW c \in Claimers, Begin(c) \/ ClaimStep(c) \/ Fails(c)
    PROVE  Types'
<1>0. txn[c] \in Txn /\ txn \in [Claimers -> Txn] /\ last \in 0..MaxJobs
  BY DEF Types, TxnOK, Rows
<1>1. CASE Begin(c)
  <2>1. [Idle EXCEPT !.pc = "look", !.now = clock] \in Txn
    BY IdleType DEF Types, ClockOK, Txn, Pc
  <2> QED
    BY <1>1, <2>1, ClaimTypes DEF Begin
<1>2. CASE Look(c)
  <2> DEFINE s == {i \in 1..last : Claimable(i, txn[c].now)}
  <2>1. s \in SUBSET (1..MaxJobs)
    BY <1>0, StoreAssumption DEF StoreAssumption
  <2> HIDE DEF s
  <2>2. [txn[c] EXCEPT !.pc = "pick", !.seen = s] \in Txn
    BY <1>0, <2>1 DEF Txn, Pc
  <2>3. txn' = [txn EXCEPT ![c] = [txn[c] EXCEPT !.pc = "pick", !.seen = s]]
    BY <1>0, <1>2 DEF Look, s
  <2> QED
    BY <1>2, <2>2, <2>3, ClaimTypes DEF Look
<1>3. ASSUME NEW i \in 1..last, Pick(c, i)
      PROVE  Types'
  <2> DEFINE t == [txn[c] EXCEPT !.pc = AfterRow(i), !.id = i, !.seen = {}]
  <2>1. AfterRow(i) \in Pc /\ i \in 0..MaxJobs
    BY <1>0, StoreAssumption DEF AfterRow, AfterKey, Pc, StoreAssumption
  <2>2. t \in Txn
    BY <1>0, <2>1 DEF Txn
  <2>3. txn' = [txn EXCEPT ![c] = t]
    BY <1>0, <1>3 DEF Pick
  <2> HIDE DEF t
  <2>4. UNCHANGED claimVars /\ \A l \in locks' : l \in locks \/ l = <<c, l[2]>>
    BY <1>3 DEF Pick
  <2> QED
    BY <2>2, <2>3, <2>4, ClaimTypes
<1>4. CASE FindNothing(c)
  BY <1>4, IdleType, ClaimTypes DEF FindNothing
<1>5. CASE LockKey(c)
  BY <1>5, GotoTypes DEF LockKey, Lock, Pc
<1>6. CASE LookAgain(c)
  <2>1. AfterKey(txn[c].id) \in Pc
    BY DEF AfterKey, Pc
  <2> QED
    BY <1>6, <2>1, GotoTypes, TryAgainTypes DEF LookAgain
<1>7. CASE LockKind(c)
  BY <1>7, GotoTypes DEF LockKind, Lock, Pc
<1>8. CASE CountAgain(c)
  BY <1>8, GotoTypes, TryAgainTypes DEF CountAgain, Pc
<1>9. CASE Write(c)
  BY <1>9, WriteTypes
<1>10. CASE Fails(c)
  BY <1>10, IdleType, ClaimTypes DEF Fails, LetGo
<1> QED
  BY <1>1, <1>2, <1>3, <1>4, <1>5, <1>6, <1>7, <1>8, <1>9, <1>10 DEF ClaimStep

-----------------------------------------------------------------------------
(* The other steps: reports, pushes and the clock.                         *)

LEMMA ReportRows ==
    ASSUME Types, NEW c \in given, Report(c) \/ GoBack(c)
    PROVE  Rows' /\ NoNewHolds /\ \A i \in 1..last : i # c.id => jobs'[i] = jobs[i]
<1>1. /\ Rows /\ c.id \in 1..last /\ c.attempts \in Nat \ {0} /\ clock + 1 \in Nat
      /\ UNCHANGED last
  BY ClaimsAssumption DEF Types, GivenOK, Claims, ClockOK, Report, GoBack, ClaimsAssumption
<1>2. CASE Done(c) \/ Retry(c, clock + 1) \/ Fail(c)
  BY <1>1, <1>2, TellsRows, TellsHolds
<1>3. CASE GiveBack(c)
  BY <1>1, <1>3, GiveBackRows, GiveBackHolds
<1> QED
  BY <1>2, <1>3 DEF Report, GoBack

LEMMA ReportedTypes ==
    ASSUME Types, NEW c \in given, Reported(c)
    PROVE  Types'
<1>1. Rows'
  BY ReportRows DEF Reported
<1>2. ClockOK' /\ GivenOK' /\ TxnOK'
  BY DEF Reported, Report, GoBack, Types, ClockOK, GivenOK, TxnOK
<1> QED
  BY <1>1, <1>2 DEF Types

LEMMA RefusedTypes ==
    ASSUME Types, NEW c \in given, Refused(c)
    PROVE  Types'
<1>1. heldKinds' \in [Kinds -> Nat]
  <2>1. clock + 1 \in Nat /\ heldKinds \in [Kinds -> Nat]
    BY ClaimsAssumption DEF Types, ClockOK, ClaimsAssumption
  <2> QED
    BY <2>1 DEF Refused, Refuse, HoldKind
<1>2. GivenOK'
  <2>1. c \in Claims /\ c.id \in 1..last /\ c.attempts > 0
    BY DEF Types, GivenOK
  <2>2. LET r == [c EXCEPT !.refused = TRUE]
        IN r \in Claims /\ r.id = c.id /\ r.attempts = c.attempts
    BY <2>1 DEF Claims
  <2> QED
    BY <2>1, <2>2 DEF Refused, Refuse, Types, GivenOK
<1>3. Rows' /\ ClockOK' /\ TxnOK'
  BY <1>1 DEF Refused, Refuse, Types, Rows, ClockOK, TxnOK
<1> QED
  BY <1>2, <1>3 DEF Types

LEMMA PushRowsHolds ==
    ASSUME Types, NEW k \in Kinds, NEW v \in Keys, SqlPush(k, v)
    PROVE  /\ Rows' /\ NoNewHolds
           /\ \A i \in 1..last : jobs'[i] = jobs[i] \/ ~Locked(JobRow(i))
<1>1. Rows /\ clock \in Nat
  BY ClaimsAssumption DEF Types, ClockOK, ClaimsAssumption
<1>2. CASE k \in LatestKinds /\ PushLatest(k, v, clock)
  <2>1. \A i \in 1..last : jobs'[i] = jobs[i] \/ ~Locked(JobRow(i))
    <3>1. CASE Waiting(k, KeyOf(k, v))
      <4>1. KeyOf(k, v) = v
        BY <1>2, StoreAssumption DEF KeyOf, StoreAssumption
      <4>2. jobs' = [i \in 1..last |->
                       IF jobs[i].kind = k /\ jobs[i].key = v
                       THEN [jobs[i] EXCEPT !.runAt = clock] ELSE jobs[i]]
        BY <1>2, <3>1, <4>1 DEF PushLatest
      <4>3. \A i \in 1..last : jobs[i].kind = k /\ jobs[i].key = v => ~Locked(JobRow(i))
        BY <1>2 DEF SqlPush
      <4> QED
        BY <4>2, <4>3
    <3>2. CASE ~Waiting(k, KeyOf(k, v))
      BY <1>1, <1>2, <3>2 DEF PushLatest, push, Rows
    <3> QED
      BY <3>1, <3>2
  <2> QED
    BY <1>1, <1>2, <2>1, PushLatestRows, PushHolds
<1>3. CASE PushUnique(k, v, clock) \/ push(k, v, clock)
  <2>1. \A i \in 1..last : jobs'[i] = jobs[i]
    BY <1>1, <1>3 DEF PushUnique, push, Rows
  <2> QED
    BY <1>1, <1>3, <2>1, PushRows, PushUniqueRows, PushHolds
<1> QED
  BY <1>2, <1>3 DEF SqlPush, Pushed

LEMMA SqlPushTypes ==
    ASSUME Types, NEW k \in Kinds, NEW v \in Keys, SqlPush(k, v)
    PROVE  Types'
<1>1. Rows' /\ last <= last' /\ last \in Nat /\ last' \in Nat
  BY PushRowsHolds DEF NoNewHolds, Types, Rows
<1>2. GivenOK'
  BY <1>1 DEF SqlPush, Pushed, Types, GivenOK
<1>3. ClockOK' /\ TxnOK'
  BY DEF SqlPush, Pushed, Types, ClockOK, TxnOK
<1> QED
  BY <1>1, <1>2, <1>3 DEF Types

LEMMA TickTypes ==
    ASSUME Types, Tick, UNCHANGED <<txn, locks>>
    PROVE  Types'
BY ClaimsAssumption DEF Tick, storeVars, Types, Rows, ClockOK, GivenOK, TxnOK, ClaimsAssumption

LEMMA TypesStep ==
    ASSUME Types, IInv, [SqlNext]_vars
    PROVE  Types'
<1>1. CASE UNCHANGED vars
  BY <1>1 DEF vars, claimVars, storeVars, Types, Rows, ClockOK, GivenOK, TxnOK
<1>2. CASE SqlNext
  BY <1>2, ClaimStepTypes, ReportedTypes, RefusedTypes, SqlPushTypes, TickTypes DEF SqlNext
<1> QED
  BY <1>1, <1>2

-----------------------------------------------------------------------------
(* A step of another: what a claim has seen stays so.                      *)

LEMMA HeldFinite ==
    ASSUME Rows, NEW k, NEW now
    PROVE  IsFiniteSet(HeldJobs(k, now))
<1>1. IsFiniteSet(1..last)
  BY FS_Interval DEF Rows
<1> QED
  BY <1>1, FS_Subset DEF HeldJobs

\* Held later, after a step that holds none: held before it.
LEMMA HeldShrinks ==
    ASSUME Rows, Rows', NoNewHolds, NEW k, NEW now \in Nat, NEW later \in Nat, now <= later
    PROVE  \A o \in 1..last' : jobs'[o].kind = k /\ jobs'[o].heldUntil > later => o \in HeldJobs(k, now)
<1>1. SUFFICES ASSUME NEW o \in 1..last', jobs'[o].kind = k, jobs'[o].heldUntil > later
               PROVE  o \in HeldJobs(k, now)
  OBVIOUS
<1>2. o \in 1..last
  BY <1>1 DEF NoNewHolds
<1>3. jobs[o].heldUntil \in Nat /\ jobs'[o].heldUntil \in Nat
  BY <1>2 DEF Rows, Job
<1> QED
  BY <1>1, <1>2, <1>3 DEF HeldJobs, NoNewHolds

LEMMA RunningKept ==
    ASSUME Rows, Rows', NoNewHolds, NEW i \in 1..last, NEW now \in Nat, NEW later \in Nat,
           now <= later, ~Running(i, now)
    PROVE  ~Running(i, later)'
<1>1. jobs'[i].kind = jobs[i].kind /\ AloneKey(jobs'[i]) = AloneKey(jobs[i])
  BY DEF NoNewHolds, AloneKey
<1>2. ASSUME NEW k
      PROVE  \A o \in 1..last' : jobs'[o].kind = k /\ jobs'[o].heldUntil > later => o \in HeldJobs(k, now)
  BY HeldShrinks
<1>3. \A o \in HeldJobs(jobs[i].kind, now) : AloneKey(jobs'[o]) = AloneKey(jobs[o])
  BY DEF HeldJobs, NoNewHolds, AloneKey
<1> QED
  BY <1>1, <1>2, <1>3 DEF Running, HeldJobs

LEMMA CountShrinks ==
    ASSUME Rows, Rows', NoNewHolds, NEW k, NEW now \in Nat, NEW later \in Nat, now <= later
    PROVE  LET H2 == {o \in 1..last' : jobs'[o].kind = k /\ jobs'[o].heldUntil > later}
           IN /\ Cardinality(H2) \in Nat /\ Cardinality(HeldJobs(k, now)) \in Nat
              /\ Cardinality(H2) <= Cardinality(HeldJobs(k, now))
<1> DEFINE H2 == {o \in 1..last' : jobs'[o].kind = k /\ jobs'[o].heldUntil > later}
<1>1. H2 \subseteq HeldJobs(k, now)
  BY HeldShrinks
<1>2. IsFiniteSet(HeldJobs(k, now))
  BY HeldFinite
<1> HIDE DEF H2
<1>3. IsFiniteSet(H2) /\ Cardinality(H2) <= Cardinality(HeldJobs(k, now))
  BY <1>1, <1>2, FS_Subset
<1>4. Cardinality(H2) \in Nat /\ Cardinality(HeldJobs(k, now)) \in Nat
  BY <1>2, <1>3, FS_CardinalityType
<1> QED
  BY <1>3, <1>4 DEF H2

LEMMA AtLimitKept ==
    ASSUME Rows, Rows', NoNewHolds, NEW i \in 1..last, NEW now \in Nat, ~AtLimit(i, now)
    PROVE  ~AtLimit(i, now)'
<1> DEFINE k == jobs[i].kind
           H2 == {o \in 1..last' : jobs'[o].kind = k /\ jobs'[o].heldUntil > now}
<1>1. jobs'[i].kind = k /\ k \in Kinds
  BY DEF NoNewHolds, Rows, Job
<1>2. /\ Cardinality(H2) \in Nat /\ Cardinality(HeldJobs(k, now)) \in Nat
      /\ Cardinality(H2) <= Cardinality(HeldJobs(k, now))
  BY CountShrinks
<1>3. AtOnce[k] \in Nat
  BY <1>1, StoreAssumption DEF StoreAssumption
<1>4. AtOnce[k] = 0 \/ Cardinality(HeldJobs(k, now)) < AtOnce[k]
  BY <1>2, <1>3 DEF AtLimit
<1>5. AtLimit(i, now)' => AtOnce[k] # 0 /\ Cardinality(H2) >= AtOnce[k]
  BY <1>1 DEF AtLimit, HeldJobs
<1> HIDE DEF H2, k
<1> QED
  BY <1>2, <1>3, <1>4, <1>5

\* A step that writes no locked row, and holds none, changes nothing a claim has seen.
LEMMA Undisturbed ==
    ASSUME Types, Types', NoNewHolds, NEW c \in Claimers, ClaimSafe(c), txn'[c] = txn[c],
           \A l \in locks : l[1] = c => l \in locks',
           txn[c].pc \in Holding => jobs'[txn[c].id] = jobs[txn[c].id]
    PROVE  ClaimSafe(c)'
<1> DEFINE i == txn[c].id
           now == txn[c].now
           k == jobs[i].kind
<1> SUFFICES ASSUME txn[c].pc \in Holding PROVE ClaimSafe(c)'
  BY DEF ClaimSafe
<1>1. Rows /\ Rows' /\ now \in Nat /\ last <= last' /\ last \in Nat /\ last' \in Nat
  BY ClaimsAssumption DEF Types, TxnOK, Txn, Rows, NoNewHolds, ClaimsAssumption
<1>2. /\ i \in 1..last /\ <<c, JobRow(i)>> \in locks /\ Due(i, now)
      /\ txn[c].pc = "keyed" => <<c, KeyRow(k, AloneKey(jobs[i]))>> \in locks
      /\ txn[c].pc \in {"kind", "kinded", "write"} =>
            \/ AloneKey(jobs[i]) = NoKey
            \/ <<c, KeyRow(k, AloneKey(jobs[i]))>> \in locks /\ ~Running(i, now)
      /\ txn[c].pc = "kinded" => <<c, KindRow(k)>> \in locks
      /\ txn[c].pc = "write" =>
            AtOnce[k] = 0 \/ (<<c, KindRow(k)>> \in locks /\ ~AtLimit(i, now))
  BY DEF ClaimSafe
<1>3. i \in 1..last' /\ jobs'[i] = jobs[i]
  BY <1>1, <1>2
<1>4. \A row : <<c, row>> \in locks => <<c, row>> \in locks'
  OBVIOUS
<1>5. ~Running(i, now) => ~Running(txn[c].id, txn[c].now)'
  BY <1>1, <1>2, RunningKept DEF Running, HeldJobs
<1>6. ~AtLimit(i, now) => ~AtLimit(txn[c].id, txn[c].now)'
  BY <1>1, <1>2, AtLimitKept DEF AtLimit, HeldJobs
<1>7. Due(txn[c].id, txn[c].now)'
  BY <1>2, <1>3 DEF Due
<1> QED
  BY <1>2, <1>3, <1>4, <1>5, <1>6, <1>7 DEF ClaimSafe, AloneKey, JobRow, KeyRow, KindRow

\* A claim of job j holds it, and no other.
LEMMA HoldHolds ==
    ASSUME Rows, Rows', NEW j \in 1..last, NEW until \in Nat, Hold(j, until), UNCHANGED last
    PROVE  /\ \A i \in 1..last : i # j => jobs'[i] = jobs[i]
           /\ \A i \in 1..last : jobs'[i].kind = jobs[i].kind /\ jobs'[i].value = jobs[i].value
           /\ jobs'[j].heldUntil = until
BY DEF Hold, Rows, Job

\* Another's claim is of a row c hasn't locked.  Had it c's job's key, or were it of
\* c's job's limited kind, it would have locked what c has locked.
LEMMA WriteUndisturbs ==
    ASSUME Types, Types', IInv, NEW c \in Claimers, NEW d \in Claimers, c # d, Write(d)
    PROVE  ClaimSafe(c)'
<1> DEFINE i == txn[c].id
           now == txn[c].now
           k == jobs[i].kind
           j == txn[d].id
<1> SUFFICES ASSUME txn[c].pc \in Holding PROVE ClaimSafe(c)'
  BY DEF ClaimSafe, Write, Types, TxnOK
<1>1. Rows /\ Rows' /\ now \in Nat /\ txn[d].now \in Nat /\ last' = last /\ last \in Nat
  BY ClaimsAssumption DEF Types, TxnOK, Txn, Rows, Write, ClaimsAssumption
<1>2. /\ i \in 1..last /\ <<c, JobRow(i)>> \in locks /\ Due(i, now)
      /\ txn[c].pc = "keyed" => <<c, KeyRow(k, AloneKey(jobs[i]))>> \in locks
      /\ txn[c].pc \in {"kind", "kinded", "write"} =>
            \/ AloneKey(jobs[i]) = NoKey
            \/ <<c, KeyRow(k, AloneKey(jobs[i]))>> \in locks /\ ~Running(i, now)
      /\ txn[c].pc = "kinded" => <<c, KindRow(k)>> \in locks
      /\ txn[c].pc = "write" =>
            AtOnce[k] = 0 \/ (<<c, KindRow(k)>> \in locks /\ ~AtLimit(i, now))
  BY DEF IInv, ClaimSafe
<1>3. txn[d].pc = "write" /\ ClaimSafe(d)
  BY DEF Write, Doing, IInv
<1>4. /\ j \in 1..last /\ <<d, JobRow(j)>> \in locks
      /\ \/ AloneKey(jobs[j]) = NoKey
         \/ <<d, KeyRow(jobs[j].kind, AloneKey(jobs[j]))>> \in locks
      /\ AtOnce[jobs[j].kind] = 0 \/ <<d, KindRow(jobs[j].kind)>> \in locks
  BY <1>3 DEF ClaimSafe, Holding
<1>5. \A row : ~(<<c, row>> \in locks /\ <<d, row>> \in locks)
  BY DEF IInv, LocksExclude
<1>6. i # j
  BY <1>2, <1>4, <1>5
<1>7. /\ \A o \in 1..last : o # j => jobs'[o] = jobs[o]
      /\ \A o \in 1..last : jobs'[o].kind = jobs[o].kind /\ jobs'[o].value = jobs[o].value
  <2>1. txn[d].now + HoldFor \in Nat
    BY <1>1, ClaimsAssumption DEF ClaimsAssumption
  <2> QED
    BY <1>1, <1>4, <2>1, HoldHolds DEF Write
<1>8. i \in 1..last' /\ jobs'[i] = jobs[i] /\ txn'[c] = txn[c]
  BY <1>1, <1>2, <1>6, <1>7 DEF Write, Types, TxnOK
<1>9. \A row : <<c, row>> \in locks => <<c, row>> \in locks'
  BY DEF Write, LetGo
<1>10. ASSUME AloneKey(jobs[i]) # NoKey, <<c, KeyRow(k, AloneKey(jobs[i]))>> \in locks, ~Running(i, now)
       PROVE  ~Running(i, now)'
  <2>1. ~(jobs[j].kind = k /\ AloneKey(jobs[j]) = AloneKey(jobs[i]))
    BY <1>4, <1>5, <1>10
  <2>2. \A o \in 1..last : AloneKey(jobs'[o]) = AloneKey(jobs[o])
    BY <1>7 DEF AloneKey
  <2>3. ASSUME NEW o \in 1..last', jobs'[o].kind = k, jobs'[o].heldUntil > now, o # i,
               AloneKey(jobs'[o]) = AloneKey(jobs[i])
        PROVE  FALSE
    <3>1. o # j
      BY <1>1, <1>7, <2>1, <2>2, <2>3
    <3>2. jobs'[o] = jobs[o]
      BY <1>1, <1>7, <2>3, <3>1
    <3> QED
      BY <1>1, <1>10, <2>3, <3>2 DEF Running, HeldJobs
  <2> QED
    BY <1>8, <2>3 DEF Running, HeldJobs
<1>11. ASSUME AtOnce[k] # 0, <<c, KindRow(k)>> \in locks, ~AtLimit(i, now)
       PROVE  ~AtLimit(i, now)'
  <2>1. jobs[j].kind # k
    BY <1>4, <1>5, <1>11
  <2>2. {o \in 1..last' : jobs'[o].kind = k /\ jobs'[o].heldUntil > now} = HeldJobs(k, now)
    <3>1. ASSUME NEW o \in 1..last
          PROVE  (jobs'[o].kind = k /\ jobs'[o].heldUntil > now) <=> (jobs[o].kind = k /\ jobs[o].heldUntil > now)
      BY <1>7, <2>1
    <3> QED
      BY <1>1, <3>1 DEF HeldJobs
  <2> QED
    BY <1>8, <1>11, <2>2 DEF AtLimit, HeldJobs
<1> QED
  <2>1. \/ AloneKey(jobs[i]) = NoKey
        \/ ~(txn[c].pc \in {"kind", "kinded", "write"})
        \/ <<c, KeyRow(k, AloneKey(jobs[i]))>> \in locks' /\ ~Running(txn[c].id, txn[c].now)'
    BY <1>2, <1>8, <1>9, <1>10 DEF Running, HeldJobs
  <2>2. \/ AtOnce[k] = 0
        \/ txn[c].pc # "write"
        \/ <<c, KindRow(k)>> \in locks' /\ ~AtLimit(txn[c].id, txn[c].now)'
    BY <1>2, <1>8, <1>9, <1>11 DEF AtLimit, HeldJobs
  <2>3. Due(txn[c].id, txn[c].now)'
    BY <1>2, <1>8 DEF Due
  <2> QED
    BY <1>2, <1>8, <1>9, <2>1, <2>2, <2>3 DEF ClaimSafe, AloneKey, JobRow, KeyRow, KindRow

-----------------------------------------------------------------------------
(* Each step keeps the invariant.                                          *)

LEMMA LockExcludes ==
    ASSUME Types, LocksExclude, NEW c \in Claimers, NEW row, ~Locked(row),
           locks' = locks \cup {<<c, row>>}
    PROVE  LocksExclude'
<1> SUFFICES ASSUME NEW l \in locks', NEW m \in locks', l[2] = m[2] PROVE l[1] = m[1]
  BY DEF LocksExclude
<1>1. \A o \in locks : o[2] # row
  <2>1. SUFFICES ASSUME NEW o \in locks, o[2] = row PROVE FALSE
    OBVIOUS
  <2>2. o = <<o[1], row>> /\ o[1] \in Claimers
    BY <2>1 DEF Types, TxnOK
  <2> QED
    BY <2>2 DEF Locked
<1> QED
  BY <1>1 DEF LocksExclude

LEMMA NoMoreLocks ==
    ASSUME LocksExclude, \A l \in locks' : l \in locks
    PROVE  LocksExclude'
BY DEF LocksExclude

\* What the lock of its key's row, and of its kind's, are taken for.
LEMMA StepSafe ==
    ASSUME Types, Types', IInv, NEW c \in Claimers, ClaimStep(c)
    PROVE  ClaimSafe(c)'
<1>0. txn[c] \in Txn /\ txn \in [Claimers -> Txn] /\ ClaimSafe(c)
  BY DEF Types, TxnOK, IInv
<1>1. CASE txn'[c].pc \notin Holding
  BY <1>1 DEF ClaimSafe
<1>2. ASSUME NEW i \in 1..last, Pick(c, i)
      PROVE  ClaimSafe(c)'
  <2>1. /\ txn'[c].pc = AfterRow(i) /\ txn'[c].id = i /\ txn'[c].now = txn[c].now
        /\ UNCHANGED claimVars
    BY <1>0, <1>2 DEF Pick, Txn
  <2>2. <<c, JobRow(i)>> \in locks' /\ Due(i, txn[c].now)
    BY <1>2 DEF Pick, Free
  <2>3. /\ AfterRow(i) \in {"key", "kind", "write"}
        /\ AfterRow(i) \in {"kind", "write"} => AloneKey(jobs[i]) = NoKey
        /\ AfterRow(i) = "write" => AtOnce[jobs[i].kind] = 0
    BY DEF AfterRow, AfterKey
  <2> QED
    BY <2>1, <2>2, <2>3 DEF ClaimSafe, Due, AloneKey, claimVars, storeVars
<1>3. CASE LockKey(c)
  <2>1. /\ txn'[c] = [txn[c] EXCEPT !.pc = "keyed"] /\ txn[c].pc = "key"
        /\ UNCHANGED claimVars /\ \A l \in locks : l \in locks'
        /\ <<c, KeyRow(KindOf(c), AloneKey(jobs[txn[c].id]))>> \in locks'
    BY <1>0, <1>3 DEF LockKey, Lock, Goto, Doing
  <2>2. txn'[c].id = txn[c].id /\ txn'[c].now = txn[c].now /\ txn'[c].pc = "keyed"
    BY <1>0, <2>1 DEF Txn
  <2> QED
    BY <1>0, <2>1, <2>2 DEF ClaimSafe, Holding, KindOf, Due, AloneKey, claimVars, storeVars
<1>4. CASE LockKind(c)
  <2>1. /\ txn'[c] = [txn[c] EXCEPT !.pc = "kinded"] /\ txn[c].pc = "kind"
        /\ UNCHANGED claimVars /\ \A l \in locks : l \in locks'
        /\ <<c, KindRow(KindOf(c))>> \in locks'
    BY <1>0, <1>4 DEF LockKind, Lock, Goto, Doing
  <2>2. txn'[c].id = txn[c].id /\ txn'[c].now = txn[c].now /\ txn'[c].pc = "kinded"
    BY <1>0, <2>1 DEF Txn
  <2> QED
    BY <1>0, <2>1, <2>2 DEF ClaimSafe, Holding, KindOf, Due, Running, HeldJobs, AloneKey, claimVars, storeVars
<1>5. CASE LookAgain(c) /\ ~RunsNow(c) /\ Goto(c, AfterKey(txn[c].id)) /\ UNCHANGED locks
  <2>1. /\ txn'[c] = [txn[c] EXCEPT !.pc = AfterKey(txn[c].id)] /\ txn[c].pc = "keyed"
        /\ UNCHANGED <<claimVars, locks>> /\ ~Running(txn[c].id, txn[c].now)
    BY <1>0, <1>5 DEF LookAgain, RunsNow, Goto, Doing
  <2>2. txn'[c].id = txn[c].id /\ txn'[c].now = txn[c].now /\ txn'[c].pc = AfterKey(txn[c].id)
    BY <1>0, <2>1 DEF Txn
  <2>3. /\ AfterKey(txn[c].id) \in {"kind", "write"}
        /\ AfterKey(txn[c].id) = "write" => AtOnce[jobs[txn[c].id].kind] = 0
    BY DEF AfterKey
  <2> QED
    BY <1>0, <2>1, <2>2, <2>3 DEF ClaimSafe, Holding, Due, Running, HeldJobs, AloneKey, claimVars, storeVars
<1>6. CASE CountAgain(c) /\ ~FullNow(c) /\ Goto(c, "write") /\ UNCHANGED locks
  <2>1. /\ txn'[c] = [txn[c] EXCEPT !.pc = "write"] /\ txn[c].pc = "kinded"
        /\ UNCHANGED <<claimVars, locks>> /\ ~AtLimit(txn[c].id, txn[c].now)
    BY <1>0, <1>6 DEF CountAgain, FullNow, Goto, Doing
  <2>2. txn'[c].id = txn[c].id /\ txn'[c].now = txn[c].now /\ txn'[c].pc = "write"
    BY <1>0, <2>1 DEF Txn
  <2> QED
    BY <1>0, <2>1, <2>2 DEF ClaimSafe, Holding, Due, Running, AtLimit, HeldJobs, AloneKey, claimVars, storeVars
<1>7. CASE Look(c) \/ FindNothing(c) \/ Write(c) \/ TryAgain(c)
  <2>1. txn'[c].pc \in {"pick", "none", "look"}
    BY <1>0, <1>7 DEF Look, FindNothing, Write, TryAgain, Idle, Txn
  <2> QED
    BY <1>1, <2>1 DEF Holding
<1> QED
  BY <1>2, <1>3, <1>4, <1>5, <1>6, <1>7 DEF ClaimStep, LookAgain, CountAgain

LEMMA ClaimInv ==
    ASSUME Types, Types', IInv, NEW c \in Claimers, Begin(c) \/ ClaimStep(c) \/ Fails(c)
    PROVE  IInv'
<1>a. Write(c) \/ UNCHANGED claimVars
  BY DEF Begin, Look, Pick, FindNothing, LockKey, LookAgain, LockKind, CountAgain, Fails, ClaimStep
<1>b. clock' = clock
  BY <1>a DEF Write, claimVars
<1>0. /\ txn \in [Claimers -> Txn] /\ txn[c] \in Txn /\ LocksExclude /\ Rows
      /\ clock \in Nat /\ clock' = clock
  BY <1>b, ClaimsAssumption DEF Types, TxnOK, ClockOK, IInv, ClaimsAssumption
<1>1. LocksExclude'
  <2>1. ASSUME NEW row, Lock(c, row)
        PROVE  LocksExclude'
    BY <1>0, <2>1, LockExcludes DEF Lock
  <2>2. ASSUME NEW i \in 1..last, Pick(c, i)
        PROVE  LocksExclude'
    BY <1>0, <2>2, LockExcludes DEF Pick, Free
  <2>3. CASE \A l \in locks' : l \in locks
    BY <1>0, <2>3, NoMoreLocks
  <2> QED
    BY <2>1, <2>2, <2>3 DEF Begin, ClaimStep, Look, FindNothing, LockKey, LookAgain, LockKind,
       CountAgain, TryAgain, Write, Fails, LetGo
<1>2. \A d \in Claimers : d # c => txn'[d] = txn[d]
  BY <1>0 DEF Begin, ClaimStep, Look, Pick, FindNothing, LockKey, LookAgain, LockKind, CountAgain,
     TryAgain, Goto, Write, Fails
<1>3. txn'[c].now \in {0, clock, txn[c].now}
  <2>1. Idle.now = 0 /\ [Idle EXCEPT !.pc = "look", !.now = clock].now = clock
    BY DEF Idle
  <2>2. CASE Begin(c) \/ FindNothing(c) \/ Write(c) \/ Fails(c)
    <3>1. txn'[c] \in {Idle, [Idle EXCEPT !.pc = "look", !.now = clock]}
      BY <1>0, <2>2 DEF Begin, FindNothing, Write, Fails
    <3> QED
      BY <2>1, <3>1
  <2>3. CASE TryAgain(c) \/ \E pc : Goto(c, pc)
    BY <1>0, <2>3 DEF TryAgain, Goto, Txn
  <2>4. CASE Look(c) \/ \E i \in 1..last : Pick(c, i)
    <3>1. PICK pc, id, s : txn' = [txn EXCEPT ![c].pc = pc, ![c].id = id, ![c].seen = s]
      <4>1. ASSUME NEW s, txn' = [txn EXCEPT ![c].pc = "pick", ![c].seen = s]
            PROVE  txn' = [txn EXCEPT ![c].pc = "pick", ![c].id = txn[c].id, ![c].seen = s]
        BY <1>0, <4>1 DEF Txn
      <4>2. CASE Look(c)
        <5> DEFINE s == {i \in 1..last : Claimable(i, txn[c].now)}
        <5>1. txn' = [txn EXCEPT ![c].pc = "pick", ![c].seen = s]
          BY <4>2 DEF Look
        <5> HIDE DEF s
        <5>2. txn' = [txn EXCEPT ![c].pc = "pick", ![c].id = txn[c].id, ![c].seen = s]
          BY <4>1, <5>1
        <5> QED
          BY <5>2
      <4>3. CASE \E i \in 1..last : Pick(c, i)
        BY <4>3 DEF Pick
      <4> QED
        BY <2>4, <4>2, <4>3
    <3> QED
      BY <1>0, <3>1 DEF Txn
  <2> QED
    BY <2>2, <2>3, <2>4 DEF ClaimStep, LockKey, LookAgain, LockKind, CountAgain
<1>4. \A l \in locks : l[1] # c => l \in locks'
  BY DEF Begin, ClaimStep, Look, Pick, FindNothing, LockKey, LookAgain, LockKind, CountAgain, Lock,
     TryAgain, Write, Fails, LetGo
<1>5. ASSUME NEW d \in Claimers, d # c
      PROVE  ClaimSafe(d)'
  <2>1. CASE Write(c)
    BY <1>5, <2>1, WriteUndisturbs
  <2>2. CASE UNCHANGED claimVars
    <3>1. NoNewHolds
      BY <1>0, <2>2, SameHolds DEF claimVars, storeVars
    <3>2. ClaimSafe(d)
      BY DEF IInv
    <3> QED
      BY <1>2, <1>4, <1>5, <2>2, <3>1, <3>2, Undisturbed DEF claimVars, storeVars
  <2> QED
    BY <2>1, <2>2 DEF Begin, ClaimStep, Look, Pick, FindNothing, LockKey, LookAgain, LockKind,
       CountAgain, Fails
<1>6. ClaimSafe(c)'
  <2>1. CASE Begin(c) \/ Fails(c)
    <3>1. txn'[c].pc \in {"look", "none"}
      <4>1. txn'[c] \in {Idle, [Idle EXCEPT !.pc = "look", !.now = clock]}
        BY <1>0, <2>1 DEF Begin, Fails
      <4>2. Idle.pc = "none" /\ [Idle EXCEPT !.pc = "look", !.now = clock].pc = "look"
        BY DEF Idle
      <4> QED
        BY <4>1, <4>2
    <3> QED
      BY <3>1 DEF ClaimSafe, Holding
  <2>2. CASE ClaimStep(c)
    BY <2>2, StepSafe
  <2> QED
    BY <2>1, <2>2
<1>7. \A d \in Claimers : txn'[d].now <= clock'
  BY <1>0, <1>2, <1>3 DEF IInv
<1> QED
  BY <1>1, <1>5, <1>6, <1>7 DEF IInv

\* The steps that aren't a claim's write no locked row, and hold none.
LEMMA OthersInv ==
    ASSUME Types, Types', IInv, UNCHANGED <<txn, locks>>, clock <= clock', NoNewHolds,
           \A i \in 1..last : jobs'[i] = jobs[i] \/ ~Locked(JobRow(i))
    PROVE  IInv'
<1>1. LocksExclude'
  BY NoMoreLocks DEF IInv
<1>2. ASSUME NEW c \in Claimers
      PROVE  txn'[c].now <= clock' /\ ClaimSafe(c)'
  <2>1. txn[c].now <= clock /\ ClaimSafe(c) /\ txn[c].now \in Nat /\ clock \in Nat /\ clock' \in Nat
    BY ClaimsAssumption DEF IInv, Types, TxnOK, Txn, ClockOK, ClaimsAssumption
  <2>2. txn[c].pc \in Holding => jobs'[txn[c].id] = jobs[txn[c].id]
    BY <2>1 DEF ClaimSafe, Locked
  <2> QED
    BY <2>1, <2>2, Undisturbed
<1> QED
  BY <1>1, <1>2 DEF IInv

LEMMA InvStep ==
    ASSUME Types, Types', IInv, [SqlNext]_vars
    PROVE  IInv'
<1>0. Rows /\ clock \in Nat /\ clock' \in Nat
  BY ClaimsAssumption DEF Types, ClockOK, ClaimsAssumption
<1>1. ASSUME NEW c \in given, Reported(c)
      PROVE  IInv'
  <2>1. UNCHANGED <<txn, locks, clock>> /\ ~Locked(JobRow(c.id))
    BY <1>1 DEF Reported, Report, GoBack
  <2>2. NoNewHolds /\ \A i \in 1..last : i # c.id => jobs'[i] = jobs[i]
    BY <1>1, ReportRows DEF Reported
  <2>3. clock <= clock'
    BY <1>0, <2>1
  <2> QED
    BY <2>1, <2>2, <2>3, OthersInv
<1>2. ASSUME NEW k \in Kinds, NEW v \in Keys, SqlPush(k, v)
      PROVE  IInv'
  <2>1. UNCHANGED <<txn, locks, clock>> /\ clock <= clock'
    BY <1>0, <1>2 DEF SqlPush, Pushed
  <2> QED
    BY <1>2, <2>1, PushRowsHolds, OthersInv
<1>3. CASE Tick /\ UNCHANGED <<txn, locks>>
  <2>1. UNCHANGED <<jobs, last>> /\ clock <= clock'
    BY <1>0, <1>3 DEF Tick, storeVars
  <2> QED
    BY <1>0, <1>3, <2>1, SameHolds, OthersInv
<1>4. CASE UNCHANGED vars \/ \E c \in given : Refused(c)
  <2>1. UNCHANGED <<jobs, last, txn, locks>> /\ clock <= clock'
    BY <1>0, <1>4 DEF vars, claimVars, storeVars, Refused, Refuse
  <2> QED
    BY <1>0, <2>1, SameHolds, OthersInv
<1> QED
  BY <1>1, <1>2, <1>3, <1>4, ClaimInv DEF SqlNext

-----------------------------------------------------------------------------
(* What follows of it.                                                     *)

\* SqlTypeOK of every state: ids are given out in order, and a report that puts a
\* job back, late or not, takes no attempt that wasn't counted.
THEOREM SqlTypeCorrect == SqlSpec => []SqlTypeOK
<1>1. SqlInit => Types /\ IInv
  BY InitInv
<1>2. Types /\ IInv /\ [SqlNext]_vars => Types' /\ IInv'
  BY TypesStep, InvStep
<1>3. Types => SqlTypeOK
  BY TypesAreTypeOK
<1> QED
  BY <1>1, <1>2, <1>3, PTL DEF SqlSpec

LEMMA WriteTakes ==
    ASSUME Types, IInv, NEW c \in Claimers, Write(c)
    PROVE  /\ txn[c].id \in 1..last /\ txn[c].now \in 0..MaxTime
           /\ Take(txn[c].id, txn[c].now)
<1> DEFINE i == txn[c].id
           now == txn[c].now
<1>1. txn[c].pc = "write" /\ ClaimSafe(c) /\ now <= clock /\ now \in 0..MaxTime
  BY DEF Write, Doing, IInv, Types, TxnOK, Txn
<1>2. i \in 1..last /\ Due(i, now)
  BY <1>1 DEF ClaimSafe, Holding
<1>3. ~Running(i, now)
  BY <1>1 DEF ClaimSafe, Holding, Running
<1>4. ~AtLimit(i, now)
  BY <1>1 DEF ClaimSafe, Holding, AtLimit
<1> QED
  BY <1>1, <1>2, <1>3, <1>4 DEF Take, Write

LEMMA StepIsAtomic ==
    ASSUME Types, IInv, [SqlNext]_vars
    PROVE  [Next]_claimVars
<1>1. ASSUME NEW c \in Claimers, Write(c)
      PROVE  Next
  BY <1>1, WriteTakes DEF Next
<1>2. ASSUME NEW c \in Claimers, Begin(c) \/ ClaimStep(c) \/ Fails(c)
      PROVE  [Next]_claimVars
  BY <1>1, <1>2 DEF Begin, ClaimStep, Look, Pick, FindNothing, LockKey, LookAgain, LockKind,
     CountAgain, Fails
<1>3. CASE UNCHANGED vars
  BY <1>3 DEF vars
<1> QED
  BY <1>2, <1>3 DEF SqlNext, Next, Reported, Refused, SqlPush

\* ClaimsAreAtomic: the claims of Postgres and MySQL, whatever each saw before the
\* others committed, are claims made at one moment, within what OneAtATime and
\* AtOnce allow at it.  A claim that isn't within them by then is passed over.
THEOREM Atomic == SqlSpec => ClaimsAreAtomic
<1>1. SqlInit => Types /\ IInv
  BY InitInv
<1>2. Types /\ IInv /\ [SqlNext]_vars => Types' /\ IInv'
  BY TypesStep, InvStep
<1>3. SqlInit => Init
  BY DEF SqlInit
<1>4. Types /\ IInv /\ [SqlNext]_vars => [Next]_claimVars
  BY StepIsAtomic
<1> QED
  BY <1>1, <1>2, <1>3, <1>4, PTL DEF SqlSpec, ClaimsAreAtomic, Spec

LEMMA StepHolds ==
    ASSUME Types, [SqlNext]_vars
    PROVE  (\E c \in Claimers : Write(c)) \/ (NoNewHolds /\ clock <= clock')
<1>0. Rows /\ clock \in Nat
  BY ClaimsAssumption DEF Types, ClockOK, ClaimsAssumption
<1>1. ASSUME NEW c \in given, Reported(c)
      PROVE  NoNewHolds /\ clock <= clock'
  BY <1>0, <1>1, ReportRows DEF Reported, Report, GoBack
<1>2. ASSUME NEW k \in Kinds, NEW v \in Keys, SqlPush(k, v)
      PROVE  NoNewHolds /\ clock <= clock'
  BY <1>0, <1>2, PushRowsHolds DEF SqlPush, Pushed
<1>3. CASE Tick
  BY <1>0, <1>3, SameHolds DEF Tick, storeVars
<1>4. CASE UNCHANGED claimVars \/ \E c \in given : Refused(c)
  BY <1>0, <1>4, SameHolds DEF claimVars, storeVars, Refused, Refuse
<1> QED
  BY <1>1, <1>2, <1>3, <1>4 DEF SqlNext, Begin, ClaimStep, Look, Pick, FindNothing, LockKey, LookAgain,
     LockKind, CountAgain, Fails, vars

\* A claim made within the limits at its own time leaves them kept now: what's held
\* now was held then.
LEMMA WriteKeepsLimits ==
    ASSUME Types, Types', IInv, LimitsKept, NEW c \in Claimers, Write(c)
    PROVE  LimitsKept'
<1> DEFINE j == txn[c].id
           now == txn[c].now
<1>1. /\ Rows /\ Rows' /\ now \in Nat /\ clock \in Nat /\ last' = last /\ clock' = clock
      /\ last \in Nat
  BY ClaimsAssumption DEF Types, TxnOK, Txn, ClockOK, Rows, Write, ClaimsAssumption
<1>2. j \in 1..last /\ now <= clock /\ ~Running(j, now) /\ ~AtLimit(j, now)
  BY WriteTakes DEF Take
<1>3. /\ \A o \in 1..last : o # j => jobs'[o] = jobs[o]
      /\ \A o \in 1..last : jobs'[o].kind = jobs[o].kind /\ jobs'[o].value = jobs[o].value
  <2>1. now + HoldFor \in Nat
    BY <1>1, ClaimsAssumption DEF ClaimsAssumption
  <2> QED
    BY <1>1, <1>2, <2>1, HoldHolds DEF Write
<1>4. \A o \in 1..last : AloneKey(jobs'[o]) = AloneKey(jobs[o]) /\ jobs[o].heldUntil \in Nat /\ jobs[o].kind \in Kinds
  BY <1>1, <1>3 DEF AloneKey, Rows, Job
<1> SUFFICES ASSUME NEW i \in 1..last, jobs'[i].heldUntil > clock
             PROVE  /\ ~Running(i, clock)'
                    /\ AtOnce[jobs'[i].kind] # 0
                       => Cardinality(HeldJobs(jobs[i].kind, clock)') <= AtOnce[jobs[i].kind]
  BY <1>1, <1>3 DEF LimitsKept, HeldJobs
<1> DEFINE k == jobs[i].kind
<1>5. ~Running(i, clock)'
  <2>1. SUFFICES ASSUME AloneKey(jobs[i]) # NoKey,
                        NEW o \in 1..last, o # i, jobs[o].kind = k, jobs'[o].heldUntil > clock,
                        AloneKey(jobs[o]) = AloneKey(jobs[i])
                 PROVE  FALSE
    BY <1>1, <1>3, <1>4 DEF Running, HeldJobs
  <2>2. CASE i = j
    BY <1>1, <1>2, <1>3, <1>4, <2>1, <2>2 DEF Running, HeldJobs
  <2>3. CASE o = j
    BY <1>1, <1>2, <1>3, <1>4, <2>1, <2>3 DEF Running, HeldJobs
  <2>4. CASE i # j /\ o # j
    BY <1>3, <2>1, <2>4 DEF LimitsKept, Running, HeldJobs
  <2> QED
    BY <2>2, <2>3, <2>4
<1>6. ASSUME AtOnce[k] # 0
      PROVE  Cardinality(HeldJobs(k, clock)') <= AtOnce[k]
  <2> DEFINE H == HeldJobs(k, now)
             H2 == {o \in 1..last : jobs'[o].kind = k /\ jobs'[o].heldUntil > clock}
  <2>1. HeldJobs(k, clock)' = H2
    BY <1>1, <1>3 DEF HeldJobs
  <2>2. CASE jobs[j].kind # k
    <3>1. H2 = HeldJobs(k, clock)
      BY <1>3, <2>2 DEF HeldJobs
    <3>2. jobs[i].heldUntil > clock
      BY <1>3, <2>2
    <3> QED
      BY <1>6, <2>1, <3>1, <3>2 DEF LimitsKept
  <2>3. CASE jobs[j].kind = k
    <3>1. H2 \subseteq H \cup {j}
      BY <1>1, <1>2, <1>3, <1>4 DEF HeldJobs
    <3>2. IsFiniteSet(H) /\ Cardinality(H) \in Nat /\ AtOnce[k] \in Nat
      BY <1>1, <1>4, HeldFinite, FS_CardinalityType, StoreAssumption DEF StoreAssumption
    <3>3. Cardinality(H) < AtOnce[k]
      BY <1>2, <1>6, <2>3, <3>2 DEF AtLimit
    <3> HIDE DEF H, H2, k, j
    <3>4. /\ IsFiniteSet(H \cup {j})
          /\ Cardinality(H \cup {j}) \in {Cardinality(H), Cardinality(H) + 1}
      BY <3>2, FS_AddElement
    <3>5. Cardinality(H2) <= Cardinality(H \cup {j}) /\ IsFiniteSet(H2)
      BY <3>1, <3>4, FS_Subset
    <3>6. Cardinality(H2) \in Nat
      BY <3>5, FS_CardinalityType
    <3> QED
      BY <2>1, <3>2, <3>3, <3>4, <3>5, <3>6
  <2> QED
    BY <2>2, <2>3
<1> QED
  BY <1>3, <1>5, <1>6

LEMMA LimitsStep ==
    ASSUME Types, Types', IInv, LimitsKept, [SqlNext]_vars
    PROVE  LimitsKept'
<1>1. ASSUME NEW c \in Claimers, Write(c)
      PROVE  LimitsKept'
  BY <1>1, WriteKeepsLimits
<1>2. CASE NoNewHolds /\ clock <= clock'
  <2>1. Rows /\ Rows' /\ clock \in Nat /\ clock' \in Nat
    BY ClaimsAssumption DEF Types, ClockOK, ClaimsAssumption
  <2> SUFFICES ASSUME NEW i \in 1..last', jobs'[i].heldUntil > clock'
               PROVE  /\ ~Running(i, clock)'
                      /\ AtOnce[jobs'[i].kind] # 0
                         => Cardinality(HeldJobs(jobs[i].kind, clock)') <= AtOnce[jobs'[i].kind]
    BY DEF LimitsKept
  <2>2. i \in 1..last /\ jobs[i].heldUntil \in Nat /\ jobs'[i].heldUntil \in Nat
    BY <1>2, <2>1 DEF NoNewHolds, Rows, Job
  <2> DEFINE k == jobs[i].kind
             H2 == {o \in 1..last' : jobs'[o].kind = k /\ jobs'[o].heldUntil > clock'}
  <2>3. jobs[i].heldUntil > clock /\ jobs'[i].kind = k /\ k \in Kinds
    BY <1>2, <2>1, <2>2 DEF NoNewHolds, Rows, Job
  <2>4. ~Running(i, clock) /\ (AtOnce[k] # 0 => Cardinality(HeldJobs(k, clock)) <= AtOnce[k])
    BY <2>2, <2>3 DEF LimitsKept
  <2>5. ~Running(i, clock)'
    BY <1>2, <2>1, <2>2, <2>4, RunningKept DEF Running, HeldJobs
  <2>6. /\ Cardinality(H2) \in Nat /\ Cardinality(HeldJobs(k, clock)) \in Nat
        /\ Cardinality(H2) <= Cardinality(HeldJobs(k, clock))
    BY <1>2, <2>1, CountShrinks
  <2>7. HeldJobs(jobs[i].kind, clock)' = H2
    BY <2>3 DEF HeldJobs
  <2>8. AtOnce[k] \in Nat
    BY <2>3, StoreAssumption DEF StoreAssumption
  <2> HIDE DEF H2, k
  <2> QED
    BY <2>3, <2>4, <2>5, <2>6, <2>7, <2>8 DEF k
<1> QED
  BY <1>1, <1>2, StepHolds

\* LimitsKept of every state: of a OneAtATime kind no two jobs of a value are held,
\* and of an AtOnce kind no more than its limit, however many claim at once and
\* however old the time that each goes by.
THEOREM Limits == SqlSpec => []LimitsKept
<1>1. SqlInit => Types /\ IInv /\ LimitsKept
  BY InitInv DEF SqlInit, Init, StoreInit, LimitsKept
<1>2. Types /\ IInv /\ LimitsKept /\ [SqlNext]_vars => Types' /\ IInv' /\ LimitsKept'
  BY TypesStep, InvStep, LimitsStep
<1> QED
  BY <1>1, <1>2, PTL DEF SqlSpec


-----------------------------------------------------------------------------
(* No claims wait for each other.                                          *)

\* The steps of a claim that may have a row locked: its job's, its key's, its kind's.
StepsWith(tag) ==
    CASE tag = "job" -> Holding
      [] tag = "key" -> {"keyed", "kind", "kinded", "write"}
      [] tag = "kind" -> {"kinded", "write"}

\* A row is locked only by a claim at work, which took its locks in the one order.
LocksInOrder ==
    \A l \in locks : l[2][1] \in {"job", "key", "kind"} /\ txn[l[1]].pc \in StepsWith(l[2][1])

\* Claim c waits for a row that d has locked.
WaitsFor(c, d) ==
    \/ Doing(c, "key") /\ <<d, KeyRow(KindOf(c), AloneKey(jobs[txn[c].id]))>> \in locks
    \/ Doing(c, "kind") /\ <<d, KindRow(KindOf(c))>> \in locks

Waits(c) == \E d \in Claimers : WaitsFor(c, d)

\* Whoever a claim waits for is at work, and waits for none, or for one that waits
\* for none: the claims that wait are never a circle.
WaitsEnd ==
    \A c, d, e \in Claimers :
        WaitsFor(c, d) => ~Doing(d, "none") /\ (WaitsFor(d, e) => ~Waits(e))

LEMMA StepsOrdered ==
    ASSUME Types, LocksInOrder, NEW c \in Claimers, Begin(c) \/ ClaimStep(c) \/ Fails(c)
    PROVE  LocksInOrder'
<1>1. /\ txn \in [Claimers -> Txn] /\ txn' = [txn EXCEPT ![c] = txn'[c]]
      /\ \A d \in Claimers : d # c => txn'[d] = txn[d]
  BY DEF Types, TxnOK, Begin, ClaimStep, Look, Pick, FindNothing, LockKey, LookAgain, LockKind,
         CountAgain, TryAgain, Goto, Write, Fails
<1>2. SUFFICES ASSUME NEW l \in locks'
      PROVE  l[2][1] \in {"job", "key", "kind"} /\ txn'[l[1]].pc \in StepsWith(l[2][1])
  BY DEF LocksInOrder
<1>3. CASE l \in locks /\ l[1] # c
  BY <1>1, <1>3 DEF LocksInOrder, Types, TxnOK
<1>4. CASE l \in locks /\ l[1] = c
  <2>1. l[2][1] \in {"job", "key", "kind"} /\ txn[c].pc \in StepsWith(l[2][1])
    BY <1>4 DEF LocksInOrder
  <2>2. txn[c].pc \in Holding /\ ~ (Write(c) \/ Fails(c) \/ TryAgain(c))
    BY <1>4, <2>1 DEF StepsWith, Holding, Write, Fails, TryAgain, LetGo
  <2>3. \/ Doing(c, "key") /\ txn'[c].pc = "keyed"
        \/ Doing(c, "keyed") /\ txn'[c].pc \in {"kind", "write"}
        \/ Doing(c, "kind") /\ txn'[c].pc = "kinded"
        \/ Doing(c, "kinded") /\ txn'[c].pc = "write"
    <3>1. LockKey(c) \/ LookAgain(c) \/ LockKind(c) \/ CountAgain(c)
      BY <2>2 DEF Begin, ClaimStep, Look, Pick, FindNothing, Doing, Holding
    <3>2. ASSUME NEW pc, Goto(c, pc)
          PROVE  txn'[c].pc = pc
      BY <1>1, <3>2 DEF Goto, Txn
    <3>3. CASE LockKey(c) \/ LockKind(c)
      BY <3>2, <3>3 DEF LockKey, LockKind, Doing
    <3>4. CASE LookAgain(c)
      <4>1. Doing(c, "keyed") /\ Goto(c, AfterKey(txn[c].id))
        BY <2>2, <3>4 DEF LookAgain
      <4> QED
        BY <3>2, <4>1 DEF AfterKey
    <3>5. CASE CountAgain(c)
      BY <2>2, <3>2, <3>5 DEF CountAgain
    <3> QED
      BY <3>1, <3>3, <3>4, <3>5
  <2> QED
    BY <1>4, <2>1, <2>3 DEF StepsWith, Holding, Doing
<1>5. CASE l \notin locks
  <2>1. \/ \E i : l = <<c, JobRow(i)>> /\ txn'[c].pc \in {"key", "kind", "write"}
        \/ \E k, v : l = <<c, KeyRow(k, v)>> /\ txn'[c].pc = "keyed"
        \/ \E k : l = <<c, KindRow(k)>> /\ txn'[c].pc = "kinded"
    <3>1. (\E i \in 1..last : Pick(c, i)) \/ LockKey(c) \/ LockKind(c)
      BY <1>5 DEF Begin, ClaimStep, Look, FindNothing, LookAgain, CountAgain, TryAgain, Write,
                  Fails, LetGo
    <3>2. ASSUME NEW i \in 1..last, Pick(c, i)
          PROVE  l = <<c, JobRow(i)>> /\ txn'[c].pc \in {"key", "kind", "write"}
      <4>1. l = <<c, JobRow(i)>>
        BY <1>5, <3>2 DEF Pick
      <4>2. txn'[c].pc = AfterRow(i)
        BY <1>1, <3>2 DEF Pick, Txn
      <4> QED
        BY <4>1, <4>2 DEF AfterRow, AfterKey
    <3>3. CASE LockKey(c)
      BY <1>1, <1>5, <3>3 DEF LockKey, Lock, Goto, Txn
    <3>4. CASE LockKind(c)
      BY <1>1, <1>5, <3>4 DEF LockKind, Lock, Goto, Txn
    <3> QED
      BY <3>1, <3>2, <3>3, <3>4
  <2> QED
    BY <2>1 DEF StepsWith, Holding, JobRow, KeyRow, KindRow
<1> QED
  BY <1>3, <1>4, <1>5

LEMMA OrderedStep ==
    ASSUME Types, LocksInOrder, [SqlNext]_vars
    PROVE  LocksInOrder'
<1>1. ASSUME NEW c \in Claimers, Begin(c) \/ ClaimStep(c) \/ Fails(c)
      PROVE  LocksInOrder'
  BY <1>1, StepsOrdered
<1>2. CASE UNCHANGED <<txn, locks>>
  BY <1>2 DEF LocksInOrder
<1> QED
  BY <1>1, <1>2 DEF SqlNext, vars, Reported, Refused, SqlPush

LEMMA OrderedWaits ==
    ASSUME LocksInOrder
    PROVE  WaitsEnd
<1>1. ASSUME NEW c, NEW d, WaitsFor(c, d)
      PROVE  \/ Doing(c, "key") /\ txn[d].pc \in {"keyed", "kind", "kinded", "write"}
             \/ Doing(c, "kind") /\ txn[d].pc \in {"kinded", "write"}
  <2>1. CASE Doing(c, "key") /\ <<d, KeyRow(KindOf(c), AloneKey(jobs[txn[c].id]))>> \in locks
    BY <2>1 DEF LocksInOrder, StepsWith, KeyRow
  <2>2. CASE Doing(c, "kind") /\ <<d, KindRow(KindOf(c))>> \in locks
    BY <2>2 DEF LocksInOrder, StepsWith, KindRow
  <2> QED
    BY <1>1, <2>1, <2>2 DEF WaitsFor
<1> QED
  BY <1>1 DEF WaitsEnd, Waits, Doing

\* jobs_db.go, claim: a claim locks its job's row, then its key's, then its kind's, and
\* ends with none, so for any number of claims, jobs and kinds, those that wait never
\* wait for each other: at the end of what a claim waits for is one that waits for none.
THEOREM NoCircle == SqlSpec => []WaitsEnd
<1>1. SqlInit => LocksInOrder
  BY DEF SqlInit, LocksInOrder
<1>2. Types /\ LocksInOrder /\ [SqlNext]_vars => LocksInOrder'
  BY OrderedStep
<1>3. Types /\ IInv /\ [SqlNext]_vars => Types' /\ IInv'
  BY TypesStep, InvStep
<1>4. LocksInOrder => WaitsEnd
  BY OrderedWaits
<1> QED
  BY <1>1, <1>2, <1>3, <1>4, InitInv, PTL DEF SqlSpec
=============================================================================
