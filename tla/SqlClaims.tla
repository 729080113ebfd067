----------------------------- MODULE SqlClaims -----------------------------
(***************************************************************************)
(* The claims of the starter's stores in Postgres and MySQL: transactions  *)
(* at READ COMMITTED, several at once, that look for a job, lock its row,  *)
(* lock the rows of job_locks for its key and for its kind, look again at  *)
(* each, then hold the job and commit.  Any other statement that changes a *)
(* job's row waits while a claim has it locked.                            *)
(***************************************************************************)
EXTENDS JobClaims

CONSTANTS
    Claimers,  \* the goroutines that claim, of every instance
    Faults     \* whether a claim may fail, or be canceled, at any step

ASSUME SqlAssumption == Faults \in BOOLEAN

VARIABLES
    txn,    \* txn[c]: where c's claim is, the time it's for, what it saw and took
    locks   \* the locks held: pairs of a claimer and the row it has locked

vars == <<claimVars, txn, locks>>

JobRow(i) == <<"job", i>>
KeyRow(k, key) == <<"key", k, key>>
KindRow(k) == <<"kind", k>>

Pc == {"none", "look", "pick", "key", "keyed", "kind", "kinded", "write"}

Idle == [pc |-> "none", now |-> 0, id |-> 0, seen |-> {}]

Locked(row) == \E c \in Claimers : <<c, row>> \in locks

SqlInit ==
    /\ Init
    /\ txn = [c \in Claimers |-> Idle]
    /\ locks = {}

-----------------------------------------------------------------------------
(* One claim.                                                              *)

Doing(c, pc) == txn[c].pc = pc
Goto(c, pc) == txn' = [txn EXCEPT ![c].pc = pc]

Begin(c) ==
    /\ Doing(c, "none")
    /\ txn' = [txn EXCEPT ![c] = [Idle EXCEPT !.pc = "look", !.now = clock]]
    /\ UNCHANGED <<claimVars, locks>>

\* The query's snapshot.
Look(c) ==
    /\ Doing(c, "look")
    /\ txn' = [txn EXCEPT ![c].pc = "pick",
                          ![c].seen = {i \in 1..last : Claimable(i, txn[c].now)}]
    /\ UNCHANGED <<claimVars, locks>>

\* What the claim of job i does once it has the locks it needs so far.
AfterKey(i) == IF AtOnce[jobs[i].kind] # 0 THEN "kind" ELSE "write"
AfterRow(i) == IF AloneKey(jobs[i]) # NoKey THEN "key" ELSE AfterKey(i)

\* FOR UPDATE SKIP LOCKED: a row that has changed since the snapshot is looked at
\* again, for what's in the row itself.
Free(c) == {i \in txn[c].seen : ~Locked(JobRow(i)) /\ Due(i, txn[c].now)}

Pick(c, i) ==
    /\ Doing(c, "pick") /\ i \in Free(c)
    /\ locks' = locks \cup {<<c, JobRow(i)>>}
    /\ txn' = [txn EXCEPT ![c].pc = AfterRow(i), ![c].id = i, ![c].seen = {}]
    /\ UNCHANGED claimVars

FindNothing(c) ==
    /\ Doing(c, "pick") /\ Free(c) = {}
    /\ txn' = [txn EXCEPT ![c] = Idle]
    /\ UNCHANGED <<claimVars, locks>>

\* The rows of job_locks: an upsert makes the row or finds it, and waits for
\* whoever has it locked.
KindOf(c) == jobs[txn[c].id].kind
Lock(c, row) == ~Locked(row) /\ locks' = locks \cup {<<c, row>>}

LockKey(c) ==
    /\ Doing(c, "key")
    /\ Lock(c, KeyRow(KindOf(c), AloneKey(jobs[txn[c].id])))
    /\ Goto(c, "keyed")
    /\ UNCHANGED claimVars

LockKind(c) ==
    /\ Doing(c, "kind")
    /\ Lock(c, KindRow(KindOf(c)))
    /\ Goto(c, "kinded")
    /\ UNCHANGED claimVars

RowsKept(c) == {l \in locks : l[1] # c \/ l[2][1] # "job"}  \* mutant: job_locks' rows stay locked

\* The end of c's transaction lets go of its locks.
LetGo(c) == {l \in locks : l[1] # c}

\* The job is passed over, and the claim tries again.
TryAgain(c) ==
    /\ locks' = LetGo(c)
    /\ txn' = [txn EXCEPT ![c].pc = "look", ![c].id = 0]

NotLookedAt(c) == FALSE  \* mutant: it isn't looked at again under the lock

RunsNow(c) == Running(txn[c].id, txn[c].now)
FullNow(c) == AtLimit(txn[c].id, txn[c].now)

LookAgain(c) ==
    /\ Doing(c, "keyed")
    /\ \/ RunsNow(c) /\ TryAgain(c)
       \/ ~RunsNow(c) /\ Goto(c, AfterKey(txn[c].id)) /\ UNCHANGED locks
    /\ UNCHANGED claimVars

CountAgain(c) ==
    /\ Doing(c, "kinded")
    /\ \/ FullNow(c) /\ TryAgain(c)
       \/ ~FullNow(c) /\ Goto(c, "write") /\ UNCHANGED locks
    /\ UNCHANGED claimVars

\* The UPDATE and the COMMIT, whose answer may be lost.
Write(c) ==
    LET i == txn[c].id IN
       /\ Doing(c, "write")
       /\ Hold(i, txn[c].now + HoldFor)
       /\ \/ given' = given \cup {ClaimOf(i)}
          \/ Faults /\ given' = given
       /\ locks' = LetGo(c)
       /\ txn' = [txn EXCEPT ![c] = Idle]
       /\ UNCHANGED <<last, schedules, heldKinds, clock>>

\* The connection is lost, or the claim's context is done: a rollback.
Fails(c) ==
    /\ Faults /\ ~Doing(c, "none")
    /\ locks' = LetGo(c)
    /\ txn' = [txn EXCEPT ![c] = Idle]
    /\ UNCHANGED claimVars

-----------------------------------------------------------------------------
(* The other statements, one each, which wait for the rows they change.    *)

Reported(c) ==
    /\ ~Locked(JobRow(c.id))
    /\ Report(c) \/ GoBack(c)
    /\ UNCHANGED <<txn, locks>>

Refused(c) == Refuse(c) /\ UNCHANGED <<txn, locks>>

SqlPush(k, v) ==
    /\ k \in LatestKinds => \A i \in 1..last :
          jobs[i].kind = k /\ jobs[i].key = v => ~Locked(JobRow(i))
    /\ Pushed(k, v)
    /\ UNCHANGED <<txn, locks>>

ClaimStep(c) ==
    \/ Look(c)
    \/ \E i \in 1..last : Pick(c, i)
    \/ FindNothing(c)
    \/ LockKey(c)
    \/ LookAgain(c)
    \/ LockKind(c)
    \/ CountAgain(c)
    \/ Write(c)

SqlNext ==
    \/ \E c \in Claimers : Begin(c) \/ ClaimStep(c) \/ Fails(c)
    \/ \E c \in given : Reported(c) \/ Refused(c)
    \/ \E k \in Kinds, v \in Keys : SqlPush(k, v)
    \/ Tick /\ UNCHANGED <<txn, locks>>

SqlSpec == SqlInit /\ [][SqlNext]_vars

\* The database runs each claim's statements, and a lock it waits for comes in
\* its turn, though others take it and let it go meanwhile.
FairSqlSpec ==
    SqlSpec /\ \A c \in Claimers : WF_vars(ClaimStep(c)) /\ SF_vars(LockKey(c) \/ LockKind(c))

-----------------------------------------------------------------------------

SqlTypeOK ==
    /\ StoreTypeOK
    /\ clock \in 0..MaxTime
    /\ given \subseteq Claims
    /\ txn \in [Claimers -> [pc : Pc, now : 0..MaxTime, id : 0..MaxJobs, seen : SUBSET (1..MaxJobs)]]
    /\ \A l \in locks : l[1] \in Claimers

\* store.go, OneAtATimeStore and AtOnceStore, and jobs_db.go's Claim: however many
\* claims look at once, and whatever each saw before the others committed, each
\* takes its job at one moment at which the limits allow it.
ClaimsAreAtomic == Spec

\* What the limits come to: the rows held are within them, at any time.
LimitsKept ==
    \A i \in 1..last :
        jobs[i].heldUntil > clock =>
            /\ ~Running(i, clock)
            /\ AtOnce[jobs[i].kind] # 0
               => Cardinality(HeldJobs(jobs[i].kind, clock)) <= AtOnce[jobs[i].kind]

\* jobs_db.go, Claim: a claim ends, though it tries again each time another took
\* the room it saw, and no claims wait for each other's rows.
ClaimEnds == \A c \in Claimers : txn[c].pc # "none" ~> txn[c].pc = "none"
=============================================================================
