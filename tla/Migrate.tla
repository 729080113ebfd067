------------------------------ MODULE Migrate ------------------------------
(***************************************************************************)
(* Package migrate's Up and Down on the instances of an app, of one or two *)
(* versions, over the starters' migrations table: in a transaction each,   *)
(* under an advisory lock in Postgres and with none in SQLite; and in      *)
(* MySQL, under GET_LOCK, a statement at a time.                           *)
(***************************************************************************)
EXTENDS Integers

CONSTANTS
    Databases,    \* of "postgres", "sqlite" and "mysql", those to run on
    Procs,        \* the processes that run migrations
    Files,        \* Files[p][m]: the hash of m's file in p's version, or 0 of none
    Count,        \* how many migrations there are in all, in their names' order
    Stmts,        \* the statements of a migration's up part, and its down
    LostAnswers,  \* whether MySQL may carry out what its answer is lost of
    MaxTroubles   \* bound: how often what may leave the record or a lock wrong fails

ASSUME MigrateAssumption ==
    /\ Databases \subseteq {"postgres", "sqlite", "mysql"}
    /\ Count \in Nat /\ Stmts \in Nat \ {0} /\ MaxTroubles \in Nat
    /\ Procs # {}
    /\ Files \in [Procs -> [1..Count -> Nat]]
    /\ LostAnswers \in BOOLEAN

VARIABLES
    db,           \* the database
    record,       \* record[m]: m's row of the migrations table
    made,         \* made[m]: the statements of its up part that are in force: those
                  \* of its down part that ran are taken off them
    lockedBy,     \* the processes with the migrations' lock, one at most
    proc,         \* proc[p]: where p is
    troubles,     \* how often something failed
    unlocked,     \* history: the lock was lost under who had it
    again         \* history: the migrations that were undone when they weren't there

migrateVars == <<db, record, made, lockedBy, proc, troubles, unlocked, again>>

-----------------------------------------------------------------------------

Migrations == 1..Count

\* A row: that m ran, or the statement of it under way, of its up or its down.
Records == [is : {"none", "ran", "up", "down"}, at : 0..Stmts, hash : Nat]

NoRecord == [is |-> "none", at |-> 0, hash |-> 0]

RanAs(hash) == [is |-> "ran", at |-> 0, hash |-> hash]

Ran == {m \in Migrations : record[m].is # "none"}

\* A process is idle, or waits; has the lock, runs or undoes migration next, or
\* is at its next statement, which it says before it runs it; ran is what Up read
\* of those that ran.
ProcStates == [at : {"idle", "reads", "runs", "says", "states", "fails"},
               command : {"up", "down"}, next : 0..(Count + 1),
               stmt : 1..(Stmts + 1), ran : SUBSET Migrations]

AtRest == [at |-> "idle", command |-> "up", next |-> 0, stmt |-> 1, ran |-> {}]

Becomes(p, is) == proc' = [proc EXCEPT ![p] = is]

\* p ends, having let go of the lock.
Ends(p) == Becomes(p, AtRest) /\ lockedBy' = lockedBy \ {p}

\* The migrations p's version has files of.
Own(p) == {m \in Migrations : Files[p][m] # 0}

\* m's file has changed since it ran, as p's version has it.
Changed(p, m) == m \in Own(p) /\ record[m].is # "none" /\ record[m].hash # Files[p][m]

\* Something of the database's fails.
Trouble == troubles < MaxTroubles /\ troubles' = troubles + 1

-----------------------------------------------------------------------------
(* Lock and Ran                                                            *)

\* p, as it's to run migrations or to undo one, reads which ran.
Reads(p) ==
    \E command \in {"up", "down"} :
        Becomes(p, [AtRest EXCEPT !.at = "reads", !.command = command])

\* mutant: the lock is taken, whoever has it.
LockAnyhow(p) ==
    /\ proc[p].at = "idle"
    /\ lockedBy' = IF db = "sqlite" THEN lockedBy ELSE lockedBy \cup {p}
    /\ Reads(p)
    /\ UNCHANGED <<db, record, made, troubles, unlocked, again>>

\* p waits for the lock, which one has at a time, and takes it; SQLite has none
\* but a transaction's.
TakeLock(p) ==
    /\ proc[p].at = "idle" /\ lockedBy = {}
    /\ lockedBy' = IF db = "sqlite" THEN {} ELSE {p}
    /\ Reads(p)
    /\ UNCHANGED <<db, record, made, troubles, unlocked, again>>

\* The first of p's migrations after m that isn't of ran, whichever of other
\* versions ran between.
NextOf(p, m, ran) ==
    LET todo == Own(p) \ ran IN
    CHOOSE n \in (m + 1)..(Count + 1) :
        /\ n \in todo \cup {Count + 1}
        /\ \A k \in (m + 1)..(n - 1) : k \notin todo

\* mutant: what ran is passed over, changed or not.
UpGoesOn(p) == Becomes(p, [proc[p] EXCEPT !.at = "runs", !.ran = Ran, !.next = NextOf(p, 0, Ran)])

\* Up has read which ran: none has changed since.
UpBegins(p) ==
    /\ \A m \in Migrations : ~Changed(p, m)
    /\ Becomes(p, [proc[p] EXCEPT !.at = "runs", !.ran = Ran, !.next = NextOf(p, 0, Ran)])

\* Down has read which ran: the last is one of p's files, as it ran.
DownBegins(p) ==
    \E m \in Ran :
        /\ \A k \in Ran : k <= m
        /\ m \in Own(p) /\ ~Changed(p, m)
        /\ Becomes(p, [proc[p] EXCEPT !.at = "runs", !.next = m])

\* MySQL's Ran refuses while one has stopped in the middle.
Halfway == \E m \in Migrations : record[m].is \in {"up", "down"}

Begins(p) == IF proc[p].command = "up" THEN UpBegins(p) ELSE DownBegins(p)

ReadRan(p) ==
    /\ proc[p].at = "reads" /\ ~Halfway
    /\ Begins(p)
    /\ UNCHANGED <<db, record, made, lockedBy, troubles, unlocked, again>>

\* It's refused, with an error, or Ran fails.
Refuse(p) ==
    /\ proc[p].at = "reads"
    /\ Ends(p)
    /\ UNCHANGED <<db, record, made, troubles, unlocked, again>>

-----------------------------------------------------------------------------
(* Run and Undo in a transaction                                           *)

\* What p does next: another migration, or it's done.
Goes(p) ==
    IF proc[p].command = "up"
    THEN /\ Becomes(p, [proc[p] EXCEPT !.at = "runs", !.next = NextOf(p, @, proc[p].ran), !.stmt = 1])
         /\ UNCHANGED lockedBy
    ELSE Ends(p)

\* The transaction commits, and p hears of it, or not, and gives up.
Committed(p) == Goes(p) \/ Ends(p)

\* p has no migration left to run.
Finish(p) ==
    /\ proc[p].at = "runs" /\ proc[p].next > Count
    /\ Ends(p)
    /\ UNCHANGED <<db, record, made, troubles, unlocked, again>>

At(p) == proc[p].at = "runs" /\ proc[p].next <= Count

\* mutant: a migration that has run already runs again.
RunTxAgain(p) ==
    LET m == proc[p].next IN
    /\ At(p) /\ db # "mysql" /\ proc[p].command = "up"
    /\ record' = [record EXCEPT ![m] = RanAs(Files[p][m])]
    /\ made' = [made EXCEPT ![m] = @ + Stmts]
    /\ Committed(p)
    /\ UNCHANGED <<db, troubles, unlocked, again>>

\* Run looks again whether m ran, and does nothing then.
RunTx(p) ==
    LET m == proc[p].next IN
    /\ At(p) /\ db # "mysql" /\ proc[p].command = "up"
    /\ IF record[m].is = "ran" THEN UNCHANGED <<record, made>>
       ELSE /\ record' = [record EXCEPT ![m] = RanAs(Files[p][m])]
            /\ made' = [made EXCEPT ![m] = @ + Stmts]
    /\ Committed(p)
    /\ UNCHANGED <<db, troubles, unlocked, again>>

\* Undo doesn't look again: its down part runs, and p ends, whether it hears of
\* it or not. One that's gone, as another undid it since, is undone once more,
\* which is of the bounded troubles.
UndoTx(p) ==
    LET m == proc[p].next IN
    /\ At(p) /\ db # "mysql" /\ proc[p].command = "down"
    /\ record' = [record EXCEPT ![m] = NoRecord]
    /\ made' = [made EXCEPT ![m] = @ - Stmts]
    /\ Ends(p)
    /\ IF record[m].is = "none" THEN Trouble /\ again' = again \cup {m}
       ELSE UNCHANGED <<troubles, again>>
    /\ UNCHANGED <<db, unlocked>>

-----------------------------------------------------------------------------
(* Run and Undo in MySQL                                                   *)

\* Run looks whether m ran, and its row says that its first statement is under
\* way; the row is m's name's, so one of two at once fails.
RunBegins(p) ==
    LET m == proc[p].next IN
    /\ At(p) /\ db = "mysql" /\ proc[p].command = "up"
    /\ IF record[m].is # "none" THEN (Goes(p) \/ Ends(p)) /\ UNCHANGED record
       ELSE /\ record' = [record EXCEPT ![m] = [is |-> "up", at |-> 1, hash |-> Files[p][m]]]
            /\ Becomes(p, [proc[p] EXCEPT !.at = "states"]) /\ UNCHANGED lockedBy
    /\ UNCHANGED <<db, made, troubles, unlocked, again>>

UndoBegins(p) ==
    /\ At(p) /\ db = "mysql" /\ proc[p].command = "down"
    /\ Becomes(p, [proc[p] EXCEPT !.at = "says"])
    /\ UNCHANGED <<db, record, made, lockedBy, troubles, unlocked, again>>

\* The row says which statement is under way.
Say(p) ==
    LET m == proc[p].next IN
    /\ proc[p].at = "says" /\ proc[p].stmt <= Stmts
    /\ record' = [record EXCEPT ![m].is = IF record[m].is = "none" THEN @ ELSE proc[p].command,
                                ![m].at = IF record[m].is = "none" THEN @ ELSE proc[p].stmt]
    /\ Becomes(p, [proc[p] EXCEPT !.at = "states"])
    /\ UNCHANGED <<db, made, lockedBy, troubles, unlocked, again>>

Made(p) == IF proc[p].command = "up" THEN 1 ELSE -1

\* The statement is carried out.
State(p) ==
    /\ proc[p].at = "states"
    /\ made' = [made EXCEPT ![proc[p].next] = @ + Made(p)]
    /\ Becomes(p, [proc[p] EXCEPT !.at = "says", !.stmt = @ + 1])
    /\ UNCHANGED <<db, record, lockedBy, troubles, unlocked, again>>

\* It fails: with the first nothing was done, so the row is to be as it was;
\* a later one is left under way. As its answer is lost it was done.
StateFails(p) ==
    /\ proc[p].at = "states"
    /\ Trouble
    /\ \/ UNCHANGED made
       \/ LostAnswers /\ made' = [made EXCEPT ![proc[p].next] = @ + Made(p)]
    /\ IF proc[p].stmt = 1 THEN Becomes(p, [proc[p] EXCEPT !.at = "fails"]) /\ UNCHANGED lockedBy
       ELSE Ends(p)
    /\ UNCHANGED <<db, record, unlocked, again>>

\* The row of one that did nothing is as it was before.
PutBack(p) ==
    LET m == proc[p].next IN
    /\ proc[p].at = "fails"
    /\ record' = [record EXCEPT ![m] =
          IF proc[p].command = "up" \/ @.is = "none" THEN NoRecord ELSE RanAs(@.hash)]
    /\ Ends(p)
    /\ UNCHANGED <<db, made, troubles, unlocked, again>>

\* All of m's statements were carried out, and the row says so, or goes.
Recorded(p) ==
    LET m == proc[p].next IN
    /\ proc[p].at = "says" /\ proc[p].stmt > Stmts
    /\ record' = [record EXCEPT ![m] =
          IF proc[p].command = "down" \/ @.is = "none" THEN NoRecord ELSE RanAs(@.hash)]
    /\ Goes(p)
    /\ UNCHANGED <<db, made, troubles, unlocked, again>>

\* What Ran's error asks for: someone finishes it by hand, or undoes what it
\* did, as no one's at it.
MendByHand(m) ==
    /\ record[m].is \in {"up", "down"}
    /\ \A p \in Procs : proc[p].at = "idle"
    /\ \/ record' = [record EXCEPT ![m] = RanAs(@.hash)] /\ made' = [made EXCEPT ![m] = Stmts]
       \/ record' = [record EXCEPT ![m] = NoRecord] /\ made' = [made EXCEPT ![m] = 0]
    /\ UNCHANGED <<db, lockedBy, proc, troubles, unlocked, again>>

-----------------------------------------------------------------------------
(* What goes wrong                                                         *)

\* p is killed, or gives up as a statement of the table's own fails, or a
\* transaction, which is rolled back, as one is whose down part fails where what
\* it takes away is gone; in MySQL, where one may be left half done, that's of
\* the bounded troubles.
Stop(p) ==
    /\ proc[p].at # "idle"
    /\ Ends(p)
    /\ IF db = "mysql" THEN Trouble ELSE UNCHANGED troubles
    /\ UNCHANGED <<db, record, made, unlocked, again>>

\* The connection the lock is held on is lost, and p goes on.
LoseLock(p) ==
    /\ p \in lockedBy
    /\ Trouble
    /\ lockedBy' = {} /\ unlocked' = TRUE
    /\ UNCHANGED <<db, record, made, proc, again>>

MigrateInit ==
    /\ db \in Databases
    /\ record = [m \in Migrations |-> NoRecord]
    /\ made = [m \in Migrations |-> 0]
    /\ lockedBy = {}
    /\ proc = [p \in Procs |-> AtRest]
    /\ troubles = 0 /\ unlocked = FALSE /\ again = {}

MigrateStep(p) ==
    \/ TakeLock(p) \/ ReadRan(p) \/ Refuse(p) \/ Finish(p)
    \/ RunTx(p) \/ UndoTx(p)
    \/ RunBegins(p) \/ UndoBegins(p) \/ Say(p) \/ State(p) \/ StateFails(p)
    \/ PutBack(p) \/ Recorded(p)
    \/ Stop(p) \/ LoseLock(p)

MigrateNext ==
    (\E p \in Procs : MigrateStep(p)) \/ \E m \in Migrations : MendByHand(m)

MigrateSpec == MigrateInit /\ [][MigrateNext]_migrateVars

-----------------------------------------------------------------------------
(* Properties                                                              *)

MigrateTypeOK ==
    /\ db \in Databases
    /\ record \in [Migrations -> Records]
    /\ made \in [Migrations -> Int]
    /\ lockedBy \subseteq Procs
    /\ proc \in [Procs -> ProcStates]
    /\ troubles \in 0..MaxTroubles /\ unlocked \in BOOLEAN /\ again \subseteq Migrations

\* What a row says is what's in force.
SaysTrue(m) ==
    CASE record[m].is = "none" -> made[m] = 0
      [] record[m].is = "ran"  -> made[m] = Stmts
      [] record[m].is = "up"   -> made[m] \in {record[m].at - 1, record[m].at}
      [] OTHER                 -> made[m] \in {Stmts - record[m].at + 1, Stmts - record[m].at}

\* The processes take turns: under a lock that was never lost.
Turns == ~unlocked /\ db # "sqlite"

\* The record, read at any time, by the next process after a crash, or by whoever
\* is to mend it by hand, says which statements are in force: each was run once.
\* Without turns a transaction sees to that alone, but for one undone when it
\* wasn't there, as Undo doesn't look again: under turns none ever is, though
\* what Down read is old as it undoes it.
RecordTrue ==
    /\ Turns => again = {}
    /\ Turns \/ db # "mysql" => \A m \in Migrations \ again : SaysTrue(m)

\* They're run in order, though what's read of the record is old by the time
\* a migration runs, a step of several fails, and other versions' are run and
\* undone between, which may come before it or after: one that has begun is as
\* some version has it, and all that version's before it have run and are there.
InOrder ==
    Turns => \A m \in Ran : \E p \in Procs :
        /\ m \in Own(p) /\ record[m].hash = Files[p][m]
        /\ \A k \in Own(p) : k < m => record[k].is = "ran"

\* "A file changed since it ran stops the next run, before any runs", whichever
\* of a version's files it is: no migration begins but as the version with the
\* lock has it, and none while one of that version's files has changed.
ChangedStops ==
    [][Turns => \A m \in Migrations, p \in lockedBy :
          record[m].is = "none" /\ record'[m].is # "none" =>
              /\ record'[m].hash = Files[p][m] /\ m \in Own(p)
              /\ \A k \in Migrations : ~Changed(p, k)]_migrateVars
=============================================================================
