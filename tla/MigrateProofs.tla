--------------------------- MODULE MigrateProofs ---------------------------
(***************************************************************************)
(* What is proved of Migrate for any databases, processes, versions of the *)
(* app, migrations, statements and failures: the record is true, unless an *)
(* answer or MySQL's lock is lost, or one that's gone is undone once more; *)
(* each migration has run after those before it of the version it's of;    *)
(* and a file that changed since it ran lets none begin: the last two as   *)
(* long as there's a lock and it isn't lost.                               *)
(***************************************************************************)
EXTENDS Migrate, WellFoundedInduction, TLAPS

USE MigrateAssumption

-----------------------------------------------------------------------------
(* The invariant                                                           *)

Works(p) == proc[p].at # "idle"

\* p is at a migration; in the middle of one, which only MySQL's are.
AtOne(p) == proc[p].at \in {"runs", "says", "states", "fails"}
Amid(p) == proc[p].at \in {"says", "states", "fails"}

\* Where a process may be at all.
PlaceOf(p) ==
    /\ proc[p].at \in {"reads", "runs"} => proc[p].stmt = 1
    /\ proc[p].at \in {"states", "fails"} => proc[p].stmt <= Stmts
    /\ AtOne(p) => proc[p].next \in Own(p) \cup {Count + 1}
    /\ Amid(p) => db = "mysql" /\ proc[p].next <= Count

PlaceInv == \A p \in Procs : PlaceOf(p)

\* A transaction leaves none half done.
PlainInv == db # "mysql" => \A m \in Migrations : record[m].is \in {"none", "ran"}

LockedInv == Turns => \A p \in Procs : Works(p) => lockedBy = {p}

\* What's recorded while p, alone, is at a migration: no other is half done;
RowsInv(p) ==
    \A m \in Migrations :
        m # proc[p].next \/ proc[p].at = "runs" => record[m].is \in {"none", "ran"}

\* for up, p's own before it ran, and no file of p's has changed since it did;
UpInv(p) ==
    /\ \A m \in Migrations : ~Changed(p, m)
    /\ \A k \in Migrations :
          (k \in Own(p) /\ k < proc[p].next) \/ k \in proc[p].ran => record[k].is = "ran"

\* for down, it's the last of those that ran;
DownInv(p) ==
    /\ proc[p].next \in Ran
    /\ \A k \in Ran : k <= proc[p].next
    /\ proc[p].at = "runs" => record[proc[p].next].is = "ran"

\* and its own row says which statement is under way, or was the last to be.
StmtInv(p) ==
    LET r == record[proc[p].next] IN
    /\ proc[p].at = "says" /\ proc[p].stmt = 1 => proc[p].command = "down" /\ r.is = "ran"
    /\ proc[p].at = "says" /\ proc[p].stmt > 1 =>
          r.is = proc[p].command /\ r.at = proc[p].stmt - 1
    /\ proc[p].at = "states" => r.is = proc[p].command /\ r.at = proc[p].stmt
    /\ proc[p].at = "fails" => r.is = proc[p].command /\ r.at = 1 /\ proc[p].stmt = 1

WorkOf(p) ==
    AtOne(p) =>
        /\ RowsInv(p) /\ StmtInv(p)
        /\ proc[p].command = "up" => UpInv(p)
        /\ proc[p].command = "down" => DownInv(p)

WorkInv == Turns => \A p \in Procs : WorkOf(p)

MInv == MigrateTypeOK /\ PlaceInv /\ PlainInv /\ LockedInv /\ WorkInv /\ InOrder

\* The statements in force of the migration p is in the middle of.
MadeOf(p) ==
    Amid(p) => made[proc[p].next] = IF proc[p].command = "up" THEN proc[p].stmt - 1
                                                              ELSE Stmts - proc[p].stmt + 1

MadeInv == Turns => \A p \in Procs : MadeOf(p)

RecordInv == MadeInv /\ RecordTrue

-----------------------------------------------------------------------------
(* The types                                                               *)

LEMMA LeastNat ==
    ASSUME NEW S \in SUBSET Nat, S # {}
    PROVE  \E m \in S : \A k \in S : m <= k
<1>. DEFINE R == {ss \in Nat \X Nat : ss[1] < ss[2]}
<1>1. IsWellFoundedOn(R, Nat)
  BY NatLessThanWellFounded DEF OpToRel
<1>2. PICK m \in S : \A k \in S : ~ (<<k, m>> \in R)
  BY <1>1, WFMin
<1>3. \A k \in S : ~ (k < m)
  BY <1>2
<1>. QED
  BY <1>3

\* The migration that's next is p's, and those of p's between ran.
LEMMA NextOfIs ==
    ASSUME NEW p \in Procs, NEW m \in 0..Count, NEW ran \in SUBSET Migrations
    PROVE  /\ NextOf(p, m, ran) \in (m + 1)..(Count + 1)
           /\ NextOf(p, m, ran) \in Own(p) \cup {Count + 1}
           /\ \A k \in Own(p) : m < k /\ k < NextOf(p, m, ran) => k \in ran
<1>. DEFINE todo == Own(p) \ ran
            S == {n \in (m + 1)..(Count + 1) : n \in todo \cup {Count + 1}}
            next == NextOf(p, m, ran)
<1>1. Count + 1 \in S /\ S \in SUBSET Nat
  OBVIOUS
<1>2. PICK n \in S : \A k \in S : n <= k
  BY <1>1, LeastNat
<1>3. \A k \in (m + 1)..(n - 1) : k \notin todo
  BY <1>2
<1>4. /\ next \in (m + 1)..(Count + 1) /\ next \in todo \cup {Count + 1}
      /\ \A k \in (m + 1)..(next - 1) : k \notin todo
  BY <1>2, <1>3 DEF NextOf
<1>5. \A k \in Own(p) : k \in Nat
  BY DEF Own, Migrations
<1>. HIDE DEF next
<1>6. \A k \in Own(p) : m < k /\ k < next => k \in (m + 1)..(next - 1)
  BY <1>4, <1>5
<1>. QED
  BY <1>4, <1>6 DEF next

LEMMA ProcIs ==
    ASSUME MInv, NEW p \in Procs
    PROVE  /\ proc[p] \in ProcStates
           /\ proc[p].next \in 0..(Count + 1) /\ proc[p].stmt \in 1..(Stmts + 1)
           /\ proc[p].command \in {"up", "down"} /\ proc[p].ran \in SUBSET Migrations
           /\ PlaceOf(p)
<1>1. proc[p] \in ProcStates /\ PlaceOf(p)
  BY DEF MInv, MigrateTypeOK, PlaceInv
<1>. QED
  BY <1>1 DEF ProcStates

LEMMA RecordIs ==
    ASSUME MInv, NEW m \in Migrations
    PROVE  /\ record[m] \in Records /\ made[m] \in Int
           /\ record[m].is \in {"none", "ran", "up", "down"}
           /\ record[m].at \in 0..Stmts /\ record[m].hash \in Nat
<1>1. record[m] \in Records /\ made[m] \in Int
  BY DEF MInv, MigrateTypeOK
<1>. QED
  BY <1>1 DEF Records

LEMMA RowsAre ==
    /\ NoRecord \in Records
    /\ \A h \in Nat : RanAs(h) \in Records /\ RanAs(h).is = "ran" /\ RanAs(h).hash = h
    /\ AtRest \in ProcStates
BY DEF NoRecord, RanAs, Records, AtRest, ProcStates

LEMMA MigrateInitInv ==
    ASSUME MigrateInit
    PROVE  MInv /\ RecordInv
<1>1. \A m \in Migrations : record[m] = NoRecord /\ made[m] = 0
  BY DEF MigrateInit
<1>2. Ran = {}
  BY <1>1 DEF Ran, NoRecord
<1>3. \A p \in Procs : proc[p] = AtRest
  BY DEF MigrateInit
<1>4. MigrateTypeOK
  <2>1. record \in [Migrations -> Records] /\ made \in [Migrations -> Int]
    BY RowsAre DEF MigrateInit
  <2>2. proc \in [Procs -> ProcStates]
    BY RowsAre DEF MigrateInit
  <2>3. db \in Databases /\ lockedBy \subseteq Procs /\ unlocked \in BOOLEAN
    BY DEF MigrateInit
  <2>4. troubles \in 0..MaxTroubles /\ again \subseteq Migrations
    BY DEF MigrateInit
  <2>. QED
    BY <2>1, <2>2, <2>3, <2>4 DEF MigrateTypeOK
<1>5. PlaceInv /\ LockedInv /\ WorkInv /\ MadeInv
  BY <1>3 DEF PlaceInv, PlaceOf, LockedInv, WorkInv, WorkOf, MadeInv, MadeOf, AtOne, Amid,
              Works, AtRest
<1>6. PlainInv /\ RecordTrue
  BY <1>1 DEF PlainInv, RecordTrue, SaysTrue, NoRecord, MigrateInit
<1>7. InOrder
  BY <1>2 DEF InOrder
<1>. QED
  BY <1>4, <1>5, <1>6, <1>7 DEF MInv, RecordInv

-----------------------------------------------------------------------------
(* The lock, and those at work                                             *)

LEMMA OneWorks ==
    ASSUME MInv, Turns, NEW p \in Procs, Works(p), NEW q \in Procs, q # p
    PROVE  ~Works(q)
BY DEF MInv, LockedInv

\* A step of who's at work: its own place, what it did of the record, and that
\* the order is kept, are all there is to show.
LEMMA WorkerKeeps ==
    ASSUME MInv, NEW p \in Procs, Works(p), NEW is \in ProcStates,
           proc' = [proc EXCEPT ![p] = is],
           UNCHANGED <<db, unlocked>>,
           lockedBy' = lockedBy \/ (is = AtRest /\ lockedBy' = lockedBy \ {p}),
           record' \in [Migrations -> Records], made' \in [Migrations -> Int],
           troubles' \in 0..MaxTroubles, again' \subseteq Migrations,
           PlaceOf(p)', PlainInv', Turns => WorkOf(p)', InOrder'
    PROVE  MInv'
<1>1. proc' \in [Procs -> ProcStates] /\ proc'[p] = is
      /\ \A q \in Procs \ {p} : proc'[q] = proc[q]
  BY DEF MInv, MigrateTypeOK
<1>2. MigrateTypeOK'
  BY <1>1 DEF MInv, MigrateTypeOK
<1>3. PlaceInv'
  <2>1. \A q \in Procs \ {p} : PlaceOf(q)'
    BY <1>1 DEF MInv, PlaceInv, PlaceOf, AtOne, Amid
  <2>. QED
    BY <2>1 DEF PlaceInv
<1>4. Turns' = Turns
  BY DEF Turns
<1>5. ASSUME Turns
      PROVE  \A q \in Procs \ {p} : ~Works(q) /\ ~Works(q)' /\ ~AtOne(q)'
  BY <1>1, <1>5, OneWorks DEF Works, AtOne
<1>6. LockedInv'
  <2>1. SUFFICES ASSUME Turns, Works(p)'
        PROVE  lockedBy' = {p}
    BY <1>4, <1>5 DEF LockedInv
  <2>2. lockedBy = {p}
    BY <2>1 DEF MInv, LockedInv
  <2>3. is # AtRest
    BY <1>1, <2>1 DEF Works, AtRest
  <2>. QED
    BY <2>2, <2>3
<1>7. WorkInv'
  BY <1>4, <1>5 DEF WorkInv, WorkOf
<1>. QED
  BY <1>2, <1>3, <1>6, <1>7 DEF MInv

\* As it leaves the record alone, the order stays as it is.
LEMMA RecordStays ==
    ASSUME MInv, UNCHANGED <<db, unlocked, record>>
    PROVE  PlainInv' /\ InOrder' /\ Ran' = Ran
<1>1. Ran' = Ran
  BY DEF Ran
<1>. QED
  BY <1>1 DEF MInv, PlainInv, InOrder, Turns

\* p, at rest, keeps nothing.
LEMMA RunEndsKeeps ==
    ASSUME MInv, NEW p \in Procs, Works(p), Ends(p), UNCHANGED <<db, unlocked>>,
           record' \in [Migrations -> Records], made' \in [Migrations -> Int],
           troubles' \in 0..MaxTroubles, again' \subseteq Migrations,
           PlainInv', InOrder'
    PROVE  MInv'
<1>1. proc' = [proc EXCEPT ![p] = AtRest] /\ lockedBy' = lockedBy \ {p} /\ proc'[p] = AtRest
  BY DEF Ends, Becomes, MInv, MigrateTypeOK
<1>2. PlaceOf(p)' /\ WorkOf(p)'
  BY <1>1 DEF PlaceOf, WorkOf, AtOne, Amid, AtRest
<1>. QED
  BY <1>1, <1>2, RowsAre, WorkerKeeps

-----------------------------------------------------------------------------
(* Lock and Ran                                                            *)

LEMMA TakeLockKeeps ==
    ASSUME MInv, NEW p \in Procs, TakeLock(p)
    PROVE  MInv'
<1>1. PICK command \in {"up", "down"} :
          proc' = [proc EXCEPT ![p] = [AtRest EXCEPT !.at = "reads", !.command = command]]
  BY DEF TakeLock, Reads, Becomes
<1>2. UNCHANGED <<db, record, made, troubles, unlocked, again>> /\ lockedBy = {}
      /\ proc[p].at = "idle" /\ lockedBy' = IF db = "sqlite" THEN {} ELSE {p}
  BY DEF TakeLock
<1>. DEFINE is == [AtRest EXCEPT !.at = "reads", !.command = command]
<1>3. is \in ProcStates /\ is.at = "reads" /\ is.stmt = 1
  <2>1. is \in ProcStates
    BY RowsAre DEF ProcStates
  <2>. QED
    BY <2>1 DEF AtRest
<1>4. proc' \in [Procs -> ProcStates] /\ proc'[p] = is
      /\ \A q \in Procs \ {p} : proc'[q] = proc[q]
  BY <1>1, <1>3 DEF MInv, MigrateTypeOK
<1>5. MigrateTypeOK'
  BY <1>2, <1>4 DEF MInv, MigrateTypeOK
<1>6. PlaceInv'
  BY <1>2, <1>3, <1>4 DEF MInv, PlaceInv, PlaceOf, AtOne, Amid
<1>7. LockedInv'
  <2>1. Turns => \A q \in Procs : ~Works(q)
    BY <1>2 DEF MInv, LockedInv
  <2>2. Turns => \A q \in Procs \ {p} : ~Works(q)'
    BY <2>1, <1>4 DEF Works
  <2>3. Turns' => Turns /\ lockedBy' = {p}
    BY <1>2 DEF Turns
  <2>. QED
    BY <2>2, <2>3 DEF LockedInv
<1>8. Ran' = Ran /\ PlainInv' /\ InOrder'
  BY <1>2, RecordStays
<1>9. WorkInv'
  <2>1. \A q \in Procs \ {p} : WorkOf(q) => WorkOf(q)'
    BY <1>2, <1>4, <1>8 DEF WorkOf, RowsInv, StmtInv, UpInv, DownInv, Changed, AtOne
  <2>2. WorkOf(p)'
    BY <1>3, <1>4 DEF WorkOf, AtOne
  <2>. QED
    BY <1>2, <2>1, <2>2 DEF MInv, WorkInv, Turns
<1>. QED
  BY <1>5, <1>6, <1>7, <1>8, <1>9 DEF MInv

LEMMA LoseLockKeeps ==
    ASSUME MInv, NEW p \in Procs, LoseLock(p)
    PROVE  MInv'
<1>1. UNCHANGED <<db, record, made, proc, again>> /\ unlocked' = TRUE /\ lockedBy' = {}
      /\ troubles' \in 0..MaxTroubles
  BY DEF LoseLock, Trouble, MInv, MigrateTypeOK
<1>2. MigrateTypeOK' /\ PlaceInv' /\ PlainInv'
  BY <1>1 DEF MInv, MigrateTypeOK, PlaceInv, PlaceOf, AtOne, Amid, PlainInv
<1>3. LockedInv' /\ WorkInv' /\ InOrder'
  BY <1>1 DEF LockedInv, WorkInv, Turns, InOrder
<1>. QED
  BY <1>2, <1>3 DEF MInv

\* Who starts on it knows what ran, each one whole and as its own files have it.
LEMMA ReadRanKeeps ==
    ASSUME MInv, NEW p \in Procs, ReadRan(p)
    PROVE  MInv'
<1>1. proc[p].at = "reads" /\ ~Halfway /\ UNCHANGED <<db, record, made, lockedBy, troubles, unlocked, again>>
      /\ Begins(p) /\ Works(p)
  BY DEF ReadRan, Works
<1>2. Ran' = Ran /\ PlainInv' /\ InOrder' /\ Ran \in SUBSET Migrations
      /\ \A m \in Migrations : record[m].is \in {"none", "ran"}
  BY <1>1, RecordStays, RecordIs DEF Ran, Halfway
<1>3. proc[p] \in ProcStates /\ proc[p].stmt = 1 /\ proc[p].command \in {"up", "down"}
  BY <1>1, ProcIs DEF PlaceOf
<1>4. \A k \in Ran : record[k].is = "ran"
  BY <1>2 DEF Ran
<1>5. CASE proc[p].command = "up"
  <2>. DEFINE n == NextOf(p, 0, Ran)
              is == [proc[p] EXCEPT !.at = "runs", !.ran = Ran, !.next = n]
  <2>1. proc' = [proc EXCEPT ![p] = is] /\ \A m \in Migrations : ~Changed(p, m)
    BY <1>1, <1>5 DEF Begins, UpBegins, Becomes
  <2>2. n \in 1..(Count + 1) /\ n \in Own(p) \cup {Count + 1}
        /\ \A k \in Own(p) : k < n => k \in Ran
    <3>1. 0 \in 0..Count /\ 0 + 1 = 1 /\ \A k \in Own(p) : 0 < k
      BY DEF MigrateAssumption, Own, Migrations
    <3>2. n \in (0 + 1)..(Count + 1) /\ n \in Own(p) \cup {Count + 1}
          /\ \A k \in Own(p) : 0 < k /\ k < n => k \in Ran
      BY ONLY <3>1, <1>2, NextOfIs, MigrateAssumption, p \in Procs
    <3>. QED
      BY <3>1, <3>2
  <2>3. is \in ProcStates /\ is.at = "runs" /\ is.ran = Ran /\ is.next = n /\ is.stmt = 1
        /\ is.command = "up"
    <3>1. n \in 0..(Count + 1)
      BY <2>2
    <3>2. /\ is \in ProcStates
          /\ is.at = "runs" /\ is.ran = Ran /\ is.next = n
          /\ is.stmt = proc[p].stmt /\ is.command = proc[p].command
      BY <3>1, <1>2, <1>3 DEF ProcStates
    <3>. QED
      BY <3>2, <1>3, <1>5
  <2>4. proc'[p] = is
    BY <2>1 DEF MInv, MigrateTypeOK
  <2>5. PlaceOf(p)'
    BY <2>2, <2>3, <2>4 DEF PlaceOf, AtOne, Amid
  <2>6. UpInv(p)'
    <3>1. \A m \in Migrations : ~Changed(p, m)'
      BY <1>1, <2>1 DEF Changed
    <3>2. \A k \in Migrations : (k \in Own(p) /\ k < n) \/ k \in Ran => record'[k].is = "ran"
      BY <1>1, <1>4, <2>2
    <3>. QED
      BY <3>1, <3>2, <2>3, <2>4 DEF UpInv
  <2>7. WorkOf(p)'
    BY <1>1, <1>2, <2>3, <2>4, <2>6 DEF WorkOf, RowsInv, StmtInv
  <2>8. record' \in [Migrations -> Records] /\ made' \in [Migrations -> Int]
        /\ troubles' \in 0..MaxTroubles /\ again' \subseteq Migrations
    BY <1>1 DEF MInv, MigrateTypeOK
  <2>. QED
    BY <1>1, <1>2, <2>1, <2>3, <2>5, <2>7, <2>8, WorkerKeeps
<1>6. CASE proc[p].command = "down"
  <2>1. PICK m \in Ran :
            /\ \A k \in Ran : k <= m
            /\ m \in Own(p)
            /\ proc' = [proc EXCEPT ![p] = [proc[p] EXCEPT !.at = "runs", !.next = m]]
    BY <1>1, <1>6 DEF Begins, DownBegins, Becomes
  <2>. DEFINE is == [proc[p] EXCEPT !.at = "runs", !.next = m]
  <2>2. m \in 1..Count
    BY <1>2 DEF Migrations
  <2>3. is \in ProcStates /\ is.at = "runs" /\ is.next = m /\ is.stmt = 1 /\ is.command = "down"
    <3>1. m \in 0..(Count + 1)
      BY <2>2
    <3>2. /\ is \in ProcStates
          /\ is.at = "runs" /\ is.next = m
          /\ is.stmt = proc[p].stmt /\ is.command = proc[p].command
      BY <3>1, <1>2, <1>3 DEF ProcStates
    <3>. QED
      BY <3>2, <1>3, <1>6
  <2>4. proc'[p] = is
    BY <2>1 DEF MInv, MigrateTypeOK
  <2>5. PlaceOf(p)'
    BY <2>1, <2>3, <2>4 DEF PlaceOf, AtOne, Amid, Own
  <2>6. DownInv(p)'
    <3>1. record'[m].is = "ran" /\ m \in Ran'
      BY <1>1, <1>2, <1>4
    <3>. QED
      BY <3>1, <1>2, <2>1, <2>3, <2>4 DEF DownInv
  <2>7. WorkOf(p)'
    BY <1>1, <1>2, <2>3, <2>4, <2>6 DEF WorkOf, RowsInv, StmtInv
  <2>8. record' \in [Migrations -> Records] /\ made' \in [Migrations -> Int]
        /\ troubles' \in 0..MaxTroubles /\ again' \subseteq Migrations
    BY <1>1 DEF MInv, MigrateTypeOK
  <2>. QED
    BY <1>1, <1>2, <2>1, <2>3, <2>5, <2>7, <2>8, WorkerKeeps
<1>. QED
  BY <1>3, <1>5, <1>6

-----------------------------------------------------------------------------
(* The order, as a row changes                                             *)

\* m's row goes, or isn't whole any more, only as it wasn't or is the last; and
\* it comes as some version has it, whose earlier ones have run.
LEMMA RowChanges ==
    ASSUME MInv, NEW m \in Migrations, NEW r \in Records,
           record' = [record EXCEPT ![m] = r], UNCHANGED <<db, unlocked>>,
           Turns => record[m].is # "ran" \/ r.is = "ran" \/ \A k \in Ran : k <= m,
           Turns => \/ r.is = "none"
                    \/ m \in Ran /\ r.hash = record[m].hash
                    \/ \E p \in Procs : /\ m \in Own(p) /\ r.hash = Files[p][m]
                                        /\ \A k \in Own(p) : k < m => record[k].is = "ran"
    PROVE  InOrder' /\ record' \in [Migrations -> Records]
<1>1. record' \in [Migrations -> Records] /\ record'[m] = r
      /\ \A k \in Migrations \ {m} : record'[k] = record[k]
  BY DEF MInv, MigrateTypeOK
<1>2. \A p \in Procs : Own(p) \subseteq Migrations
  BY DEF Own
<1>3. \A k \in Migrations : k \in Int
  BY DEF Migrations
<1>4. SUFFICES ASSUME Turns, NEW n \in Ran'
      PROVE  \E p \in Procs : /\ n \in Own(p) /\ record'[n].hash = Files[p][n]
                              /\ \A k \in Own(p) : k < n => record'[k].is = "ran"
  BY <1>1 DEF InOrder, Turns
<1>5. n \in Migrations /\ record'[n].is # "none"
  BY <1>4 DEF Ran
<1>6. \A k \in Ran : \E p \in Procs : /\ k \in Own(p) /\ record[k].hash = Files[p][k]
                                      /\ \A l \in Own(p) : l < k => record[l].is = "ran"
  BY <1>4 DEF MInv, InOrder
<1>7. CASE n # m
  <2>1. n \in Ran /\ record'[n] = record[n]
    BY <1>1, <1>5, <1>7 DEF Ran
  <2>2. PICK p \in Procs : /\ n \in Own(p) /\ record[n].hash = Files[p][n]
                           /\ \A k \in Own(p) : k < n => record[k].is = "ran"
    BY <1>6, <2>1
  <2>3. m < n => record[m].is # "ran" \/ r.is = "ran"
    BY <1>3, <1>4, <2>1 DEF Ran
  <2>4. \A k \in Own(p) : k < n => record'[k].is = "ran"
    BY <1>1, <1>2, <2>2, <2>3
  <2>. QED
    BY <2>1, <2>2, <2>4
<1>8. CASE n = m
  <2>1. r.is # "none"
    BY <1>1, <1>5, <1>8
  <2>2. PICK p \in Procs : /\ m \in Own(p) /\ r.hash = Files[p][m]
                           /\ \A k \in Own(p) : k < m => record[k].is = "ran"
    BY <1>4, <1>6, <2>1
  <2>3. \A k \in Own(p) : k < m => record'[k].is = "ran"
    BY <1>1, <1>2, <1>3, <2>2
  <2>. QED
    BY <1>1, <1>8, <2>2, <2>3
<1>. QED
  BY <1>7, <1>8

\* p's next comes to those that ran, and p has none that changed as before.
LEMMA Adds ==
    ASSUME MInv, NEW p \in Procs, NEW m \in Own(p), NEW r \in Records,
           r.is \in {"ran", "up"}, r.hash = Files[p][m],
           record' = [record EXCEPT ![m] = r], UNCHANGED <<db, unlocked>>,
           Turns => record[m].is = "none" /\ UpInv(p) /\ proc[p].next = m
    PROVE  /\ InOrder' /\ record' \in [Migrations -> Records]
           /\ Turns => \A k \in Migrations : ~Changed(p, k)'
<1>1. m \in Migrations /\ Own(p) \subseteq Migrations
  BY DEF Own
<1>2. Turns => \A k \in Own(p) : k < m => record[k].is = "ran"
  BY <1>1 DEF UpInv
<1>3. InOrder' /\ record' \in [Migrations -> Records]
  BY <1>1, <1>2, RowChanges
<1>4. record'[m] = r /\ \A k \in Migrations \ {m} : record'[k] = record[k]
  BY <1>1 DEF MInv, MigrateTypeOK
<1>5. Turns => \A k \in Migrations : ~Changed(p, k)'
  BY <1>4 DEF UpInv, Changed
<1>. QED
  BY <1>3, <1>5

-----------------------------------------------------------------------------
(* A process ends, or goes on to the next                                  *)

LEMMA TypesStay ==
    ASSUME MInv
    PROVE  /\ UNCHANGED record => record' \in [Migrations -> Records]
           /\ UNCHANGED made => made' \in [Migrations -> Int]
           /\ (UNCHANGED troubles \/ Trouble) => troubles' \in 0..MaxTroubles
           /\ UNCHANGED again => again' \subseteq Migrations
BY DEF MInv, MigrateTypeOK, Trouble

\* Whoever is refused, is done, fails or is killed has left the record alone.
LEMMA QuitKeeps ==
    ASSUME MInv, NEW p \in Procs, Works(p), Ends(p), UNCHANGED <<db, record, made, unlocked, again>>,
           UNCHANGED troubles \/ Trouble
    PROVE  MInv'
BY RecordStays, TypesStay, RunEndsKeeps

LEMMA GoesKeeps ==
    ASSUME MInv, NEW p \in Procs, proc[p].at \in {"runs", "says"},
           proc[p].next \in Migrations, Goes(p), UNCHANGED <<db, unlocked>>,
           record' \in [Migrations -> Records], made' \in [Migrations -> Int],
           troubles' \in 0..MaxTroubles, again' \subseteq Migrations,
           PlainInv', InOrder',
           Turns /\ proc[p].command = "up" =>
               /\ \A m \in Migrations : record'[m].is \in {"none", "ran"}
               /\ \A k \in Migrations : ~Changed(p, k)'
               /\ \A k \in Migrations :
                     (k \in Own(p) /\ k <= proc[p].next) \/ k \in proc[p].ran => record'[k].is = "ran"
    PROVE  MInv'
<1>1. Works(p) /\ proc[p] \in ProcStates /\ proc[p].command \in {"up", "down"}
      /\ proc[p].ran \in SUBSET Migrations /\ proc[p].next \in 1..Count
  BY ProcIs DEF Works, Migrations
<1>2. CASE proc[p].command = "down"
  BY <1>1, <1>2, RunEndsKeeps DEF Goes
<1>3. CASE proc[p].command = "up"
  <2>. DEFINE n == NextOf(p, proc[p].next, proc[p].ran)
              is == [proc[p] EXCEPT !.at = "runs", !.next = n, !.stmt = 1]
  <2>1. proc' = [proc EXCEPT ![p] = is] /\ UNCHANGED lockedBy
    BY <1>3 DEF Goes, Becomes
  <2>2. n \in (proc[p].next + 1)..(Count + 1) /\ n \in Own(p) \cup {Count + 1}
        /\ \A k \in Own(p) : proc[p].next < k /\ k < n => k \in proc[p].ran
    <3>1. proc[p].next \in 0..Count
      BY <1>1
    <3>. QED
      BY <1>1, <3>1, NextOfIs
  <2>3. n \in 1..(Count + 1)
    BY <1>1, <2>2
  <2>4. is \in ProcStates /\ is.at = "runs" /\ is.ran = proc[p].ran /\ is.next = n /\ is.stmt = 1
        /\ is.command = "up"
    <3>. HIDE DEF n
    <3>1. is \in ProcStates
      <4>1. n \in 0..(Count + 1) /\ 1 \in 1..(Stmts + 1)
        BY <2>3
      <4>. QED
        BY <1>1, <4>1 DEF ProcStates
    <3>. QED
      BY <1>1, <1>3, <3>1 DEF ProcStates
  <2>5. proc'[p] = is
    BY <2>1 DEF MInv, MigrateTypeOK
  <2>6. PlaceOf(p)'
    BY <2>2, <2>3, <2>4, <2>5 DEF PlaceOf, AtOne, Amid
  <2>7. ASSUME Turns
        PROVE  WorkOf(p)'
    <3>1. \A k \in Migrations :
              (k \in Own(p) /\ k < n) \/ k \in proc[p].ran => record'[k].is = "ran"
      <4>1. \A k \in Migrations : k <= proc[p].next \/ proc[p].next < k
        BY <1>1 DEF Migrations
      <4>. QED
        BY <1>3, <2>2, <2>7, <4>1
    <3>2. UpInv(p)'
      BY <1>3, <2>4, <2>5, <2>7, <3>1 DEF UpInv
    <3>3. RowsInv(p)' /\ StmtInv(p)'
      BY <1>3, <2>4, <2>5, <2>7 DEF RowsInv, StmtInv
    <3>. QED
      BY <2>4, <2>5, <3>2, <3>3 DEF WorkOf
  <2>. QED
    BY <1>1, <2>1, <2>4, <2>6, <2>7, WorkerKeeps
<1>. QED
  BY <1>1, <1>2, <1>3

-----------------------------------------------------------------------------
(* Run and Undo in a transaction                                           *)

\* What At says of where p is.
LEMMA AtIs ==
    ASSUME MInv, NEW p \in Procs, At(p)
    PROVE  /\ proc[p].next \in Migrations /\ proc[p].next \in Own(p)
           /\ Works(p) /\ AtOne(p) /\ ~Amid(p)
           /\ Files[p][proc[p].next] \in Nat
           /\ Turns => WorkOf(p)
<1>1. proc[p].at = "runs" /\ proc[p].next <= Count
  BY DEF At
<1>2. proc[p].next \in Own(p)
  BY <1>1, ProcIs DEF PlaceOf, AtOne
<1>3. proc[p].next \in Migrations /\ Files[p][proc[p].next] \in Nat
  BY <1>2 DEF Own, Migrations
<1>4. Turns => WorkOf(p)
  BY DEF MInv, WorkInv
<1>. QED
  BY <1>1, <1>2, <1>3, <1>4 DEF Works, AtOne, Amid

LEMMA RunTxKeeps ==
    ASSUME MInv, NEW p \in Procs, RunTx(p)
    PROVE  MInv'
<1>. DEFINE m == proc[p].next
            r == RanAs(Files[p][m])
<1>1. At(p) /\ db # "mysql" /\ proc[p].command = "up"
      /\ UNCHANGED <<db, troubles, unlocked, again>> /\ Committed(p) /\ proc[p].at = "runs"
      /\ IF record[m].is = "ran" THEN UNCHANGED <<record, made>>
         ELSE /\ record' = [record EXCEPT ![m] = r]
              /\ made' = [made EXCEPT ![m] = @ + Stmts]
  BY DEF RunTx, At
<1>2. m \in Migrations /\ m \in Own(p) /\ Works(p) /\ Files[p][m] \in Nat
      /\ (Turns => UpInv(p) /\ RowsInv(p))
  BY <1>1, AtIs DEF WorkOf
<1>3. r \in Records /\ r.is = "ran" /\ r.hash = Files[p][m]
  BY <1>2, RowsAre
<1>4. record[m].is \in {"none", "ran"}
  BY <1>1, <1>2 DEF MInv, PlainInv
<1>5. /\ PlainInv' /\ InOrder'
      /\ record' \in [Migrations -> Records] /\ made' \in [Migrations -> Int]
      /\ record'[m].is = "ran"
      /\ \A k \in Migrations \ {m} : record'[k] = record[k]
      /\ Turns => \A k \in Migrations : ~Changed(p, k)'
  <2>1. CASE record[m].is = "ran"
    <3>1. UNCHANGED <<record, made>>
      BY <1>1, <2>1
    <3>. QED
      BY <1>1, <1>2, <2>1, <3>1, RecordStays, TypesStay DEF UpInv, Changed
  <2>2. CASE record[m].is = "none"
    <3>1. record' = [record EXCEPT ![m] = r] /\ made' = [made EXCEPT ![m] = @ + Stmts]
      BY <1>1, <2>2
    <3>2. /\ InOrder' /\ record' \in [Migrations -> Records]
          /\ Turns => \A k \in Migrations : ~Changed(p, k)'
      <4>. HIDE DEF r, m
      <4>1. m \in Own(p) /\ UNCHANGED <<db, unlocked>>
            /\ (Turns => record[m].is = "none" /\ UpInv(p) /\ proc[p].next = m)
        BY <1>1, <1>2, <2>2 DEF m
      <4>. QED
        BY <1>2, <1>3, <3>1, <4>1, Adds
    <3>3. made' \in [Migrations -> Int]
      BY <1>2, <3>1 DEF MInv, MigrateTypeOK
    <3>4. record'[m] = r /\ \A k \in Migrations \ {m} : record'[k] = record[k]
      BY <1>2, <3>1 DEF MInv, MigrateTypeOK
    <3>5. PlainInv'
      BY <1>1, <1>3, <3>4 DEF MInv, PlainInv
    <3>. QED
      BY <1>3, <3>2, <3>3, <3>4, <3>5
  <2>. QED
    BY <1>4, <2>1, <2>2
<1>6. troubles' \in 0..MaxTroubles /\ again' \subseteq Migrations
  BY <1>1, TypesStay
<1>7. CASE Goes(p)
  <2>1. ASSUME Turns
        PROVE  /\ \A k \in Migrations : record'[k].is \in {"none", "ran"}
               /\ \A k \in Migrations :
                     (k \in Own(p) /\ k <= m) \/ k \in proc[p].ran => record'[k].is = "ran"
    <3>1. \A k \in Migrations : record[k].is \in {"none", "ran"}
      BY <1>1 DEF MInv, PlainInv
    <3>2. \A k \in Migrations :
              (k \in Own(p) /\ k < m) \/ k \in proc[p].ran => record[k].is = "ran"
      BY <1>2, <2>1 DEF UpInv
    <3>3. \A k \in Migrations : k <= m => k < m \/ k = m
      BY <1>2 DEF Migrations
    <3>. QED
      BY <1>5, <3>1, <3>2, <3>3
  <2>. QED
    BY <1>1, <1>2, <1>5, <1>6, <1>7, <2>1, GoesKeeps
<1>8. CASE Ends(p)
  BY <1>1, <1>2, <1>5, <1>6, <1>8, RunEndsKeeps
<1>. QED
  BY <1>1, <1>7, <1>8 DEF Committed

LEMMA UndoTxKeeps ==
    ASSUME MInv, NEW p \in Procs, UndoTx(p)
    PROVE  MInv'
<1>. DEFINE m == proc[p].next
<1>1. At(p) /\ db # "mysql" /\ UNCHANGED <<db, unlocked>> /\ proc[p].command = "down"
      /\ Ends(p) /\ record' = [record EXCEPT ![m] = NoRecord]
      /\ made' = [made EXCEPT ![m] = @ - Stmts]
      /\ IF record[m].is = "none" THEN Trouble /\ again' = again \cup {m}
         ELSE UNCHANGED <<troubles, again>>
  BY DEF UndoTx
<1>2. m \in Migrations /\ Works(p) /\ (Turns => DownInv(p))
  BY <1>1, AtIs DEF WorkOf
<1>3. InOrder' /\ record' \in [Migrations -> Records]
  BY <1>1, <1>2, RowsAre, RowChanges DEF DownInv, NoRecord
<1>4. made' \in [Migrations -> Int]
  BY <1>1, <1>2 DEF MInv, MigrateTypeOK, MigrateAssumption
<1>5. PlainInv'
  <2>1. record'[m] = NoRecord /\ \A k \in Migrations \ {m} : record'[k] = record[k]
    BY <1>1, <1>2 DEF MInv, MigrateTypeOK
  <2>. QED
    BY <1>1, <2>1 DEF MInv, PlainInv, NoRecord
<1>6. troubles' \in 0..MaxTroubles /\ again' \subseteq Migrations
  BY <1>1, <1>2, TypesStay DEF MInv, MigrateTypeOK
<1>. QED
  BY <1>1, <1>2, <1>3, <1>4, <1>5, <1>6, RunEndsKeeps

-----------------------------------------------------------------------------
(* Run and Undo in MySQL                                                   *)

\* What's so of a process in the middle of a migration.
LEMMA AmidIs ==
    ASSUME MInv, NEW p \in Procs, Amid(p)
    PROVE  /\ proc[p].next \in Migrations /\ proc[p].next \in Own(p)
           /\ Works(p) /\ AtOne(p) /\ db = "mysql"
           /\ Turns => WorkOf(p)
<1>1. proc[p].next \in Own(p) /\ db = "mysql" /\ AtOne(p)
  BY ProcIs DEF PlaceOf, AtOne, Amid
<1>2. Turns => WorkOf(p)
  BY DEF MInv, WorkInv
<1>. QED
  BY <1>1, <1>2 DEF Works, AtOne, Own

\* In the middle of one, it's there; and it isn't whole, or is the last.
LEMMA AmidRow ==
    ASSUME MInv, NEW p \in Procs, Amid(p), Turns
    PROVE  /\ proc[p].next \in Ran
           /\ record[proc[p].next].is # "ran" \/ \A k \in Ran : k <= proc[p].next
<1>1. proc[p].next \in Migrations /\ WorkOf(p) /\ AtOne(p)
      /\ proc[p].command \in {"up", "down"} /\ proc[p].stmt \in 1..(Stmts + 1)
  BY AmidIs, ProcIs
<1>2. CASE proc[p].command = "down"
  BY <1>1, <1>2 DEF WorkOf, DownInv
<1>3. CASE proc[p].command = "up"
  <2>1. record[proc[p].next].is = "up"
    BY <1>1, <1>3 DEF WorkOf, StmtInv, Amid
  <2>. QED
    BY <1>1, <2>1 DEF Ran
<1>. QED
  BY <1>1, <1>2, <1>3

LEMMA RunBeginsKeeps ==
    ASSUME MInv, NEW p \in Procs, RunBegins(p)
    PROVE  MInv'
<1>. DEFINE m == proc[p].next
            r == [is |-> "up", at |-> 1, hash |-> Files[p][m]]
<1>1. At(p) /\ db = "mysql" /\ proc[p].command = "up" /\ proc[p].at = "runs"
      /\ UNCHANGED <<db, made, troubles, unlocked, again>>
      /\ IF record[m].is # "none" THEN (Goes(p) \/ Ends(p)) /\ UNCHANGED record
         ELSE /\ record' = [record EXCEPT ![m] = r]
              /\ Becomes(p, [proc[p] EXCEPT !.at = "states"]) /\ UNCHANGED lockedBy
  BY DEF RunBegins, At
<1>2. m \in Migrations /\ m \in Own(p) /\ Works(p) /\ Files[p][m] \in Nat
      /\ (Turns => UpInv(p) /\ RowsInv(p))
  BY <1>1, AtIs DEF WorkOf
<1>3. proc[p] \in ProcStates /\ proc[p].stmt = 1
  BY <1>1, ProcIs DEF PlaceOf
<1>4. CASE record[m].is # "none"
  <2>1. UNCHANGED record /\ (Goes(p) \/ Ends(p))
    BY <1>1, <1>4
  <2>2. CASE Ends(p)
    BY <1>1, <1>2, <2>1, <2>2, QuitKeeps
  <2>3. CASE Goes(p)
    <3>1. PlainInv' /\ InOrder' /\ Ran' = Ran
      BY <1>1, <2>1, RecordStays
    <3>2. ASSUME Turns
          PROVE  /\ \A k \in Migrations : record'[k].is \in {"none", "ran"}
                 /\ \A k \in Migrations : ~Changed(p, k)'
                 /\ \A k \in Migrations :
                       (k \in Own(p) /\ k <= m) \/ k \in proc[p].ran => record'[k].is = "ran"
      <4>1. \A k \in Migrations : record'[k].is \in {"none", "ran"}
        BY <1>1, <1>2, <2>1, <3>2 DEF RowsInv
      <4>2. \A k \in Migrations : k <= m => k < m \/ k = m
        BY <1>2 DEF Migrations
      <4>. QED
        BY <1>2, <1>4, <2>1, <3>1, <3>2, <4>1, <4>2 DEF UpInv, RowsInv, Changed
    <3>. QED
      <4>1. record' \in [Migrations -> Records] /\ made' \in [Migrations -> Int]
            /\ troubles' \in 0..MaxTroubles /\ again' \subseteq Migrations
        BY <1>1, <2>1, TypesStay
      <4>2. proc[p].next \in Migrations
        BY <1>2
      <4>. QED
        BY <1>1, <2>3, <3>1, <3>2, <4>1, <4>2, GoesKeeps
  <2>. QED
    BY <2>1, <2>2, <2>3
<1>5. CASE record[m].is = "none"
  <2>. DEFINE is == [proc[p] EXCEPT !.at = "states"]
  <2>1. record' = [record EXCEPT ![m] = r] /\ proc' = [proc EXCEPT ![p] = is]
        /\ UNCHANGED lockedBy
    BY <1>1, <1>5 DEF Becomes
  <2>2. r \in Records /\ r.is = "up" /\ r.at = 1 /\ r.hash = Files[p][m]
    BY <1>2 DEF Records
  <2>3. /\ InOrder' /\ record' \in [Migrations -> Records]
        /\ Turns => \A k \in Migrations : ~Changed(p, k)'
    <3>. HIDE DEF r, m
    <3>1. m \in Own(p) /\ UNCHANGED <<db, unlocked>>
          /\ (Turns => record[m].is = "none" /\ UpInv(p) /\ proc[p].next = m)
      BY <1>1, <1>2, <1>5 DEF m
    <3>. QED
      BY <1>2, <2>1, <2>2, <3>1, Adds
  <2>4. is \in ProcStates /\ is.at = "states" /\ is.next = m /\ is.command = "up" /\ is.stmt = 1
        /\ is.ran = proc[p].ran
    BY <1>1, <1>3 DEF ProcStates
  <2>5. proc'[p] = is
    BY <2>1 DEF MInv, MigrateTypeOK
  <2>6. record'[m] = r /\ \A k \in Migrations \ {m} : record'[k] = record[k]
    BY <1>2, <2>1 DEF MInv, MigrateTypeOK
  <2>7. PlaceOf(p)' /\ PlainInv'
    BY <1>1, <1>2, <2>4, <2>5 DEF PlaceOf, AtOne, Amid, Own, Migrations, PlainInv
  <2>8. ASSUME Turns
        PROVE  WorkOf(p)'
    <3>1. RowsInv(p)' /\ StmtInv(p)'
      BY <1>1, <1>2, <2>2, <2>4, <2>5, <2>6, <2>8 DEF RowsInv, StmtInv
    <3>2. \A k \in Migrations :
              (k \in Own(p) /\ k < m) \/ k \in proc[p].ran => record'[k].is = "ran"
      BY <1>2, <1>5, <2>6, <2>8 DEF UpInv
    <3>3. UpInv(p)'
      BY <2>3, <2>4, <2>5, <2>8, <3>2 DEF UpInv
    <3>. QED
      BY <2>4, <2>5, <3>1, <3>3 DEF WorkOf
  <2>. QED
    BY <1>1, <1>2, <2>1, <2>3, <2>4, <2>7, <2>8, TypesStay, WorkerKeeps
<1>. QED
  BY <1>4, <1>5

LEMMA UndoBeginsKeeps ==
    ASSUME MInv, NEW p \in Procs, UndoBegins(p)
    PROVE  MInv'
<1>. DEFINE is == [proc[p] EXCEPT !.at = "says"]
<1>1. At(p) /\ db = "mysql" /\ proc[p].command = "down" /\ proc[p].at = "runs"
      /\ proc' = [proc EXCEPT ![p] = is]
      /\ UNCHANGED <<db, record, made, lockedBy, troubles, unlocked, again>>
  BY DEF UndoBegins, At, Becomes
<1>2. proc[p].next \in Own(p) /\ proc[p].next \in Migrations /\ Works(p)
      /\ (Turns => DownInv(p) /\ RowsInv(p))
  BY <1>1, AtIs DEF WorkOf
<1>3. proc[p] \in ProcStates /\ proc[p].stmt = 1
  BY <1>1, ProcIs DEF PlaceOf
<1>4. is \in ProcStates /\ is.at = "says" /\ is.next = proc[p].next /\ is.command = "down"
      /\ is.stmt = 1
  BY <1>1, <1>3 DEF ProcStates
<1>5. proc'[p] = is
  BY <1>1 DEF MInv, MigrateTypeOK
<1>6. PlainInv' /\ InOrder' /\ Ran' = Ran
  BY <1>1, RecordStays
<1>7. PlaceOf(p)'
  BY <1>1, <1>2, <1>4, <1>5 DEF PlaceOf, AtOne, Amid, Own, Migrations
<1>8. Turns => WorkOf(p)'
  BY <1>1, <1>2, <1>4, <1>5, <1>6 DEF WorkOf, RowsInv, StmtInv, DownInv
<1>. QED
  BY <1>1, <1>2, <1>4, <1>6, <1>7, <1>8, TypesStay, WorkerKeeps

LEMMA SayKeeps ==
    ASSUME MInv, NEW p \in Procs, Say(p)
    PROVE  MInv'
<1>. DEFINE m == proc[p].next
            r == IF record[m].is = "none" THEN record[m]
                 ELSE [record[m] EXCEPT !.is = proc[p].command, !.at = proc[p].stmt]
            is == [proc[p] EXCEPT !.at = "states"]
<1>1. Amid(p) /\ proc[p].at = "says" /\ proc[p].stmt <= Stmts
      /\ proc' = [proc EXCEPT ![p] = is] /\ UNCHANGED <<db, made, lockedBy, troubles, unlocked, again>>
  BY DEF Say, Becomes, Amid
<1>2. m \in Migrations /\ m \in Own(p) /\ Works(p) /\ AtOne(p) /\ db = "mysql"
      /\ (Turns => WorkOf(p))
  BY <1>1, AmidIs
<1>3. proc[p] \in ProcStates /\ proc[p].stmt \in 1..Stmts /\ proc[p].command \in {"up", "down"}
  BY <1>1, ProcIs
<1>4. record[m] \in Records
  BY <1>2, RecordIs
<1>5. /\ r \in Records /\ r.hash = record[m].hash
      /\ record[m].is # "none" => r.is = proc[p].command /\ r.at = proc[p].stmt
  <2>1. proc[p].command \in {"none", "ran", "up", "down"} /\ proc[p].stmt \in 0..Stmts
    BY <1>3
  <2>2. [record[m] EXCEPT !.is = proc[p].command, !.at = proc[p].stmt] \in Records
    BY <1>4, <2>1 DEF Records
  <2>. QED
    BY <1>4, <2>2 DEF Records
<1>6. record' = [record EXCEPT ![m] = r]
  <2>1. record' = [record EXCEPT ![m].is = IF record[m].is = "none" THEN @ ELSE proc[p].command,
                                 ![m].at = IF record[m].is = "none" THEN @ ELSE proc[p].stmt]
    BY DEF Say
  <2>2. record \in [Migrations -> Records]
    BY DEF MInv, MigrateTypeOK
  <2>. QED
    BY <1>2, <2>1, <2>2 DEF Records
<1>7. record'[m] = r /\ \A k \in Migrations \ {m} : record'[k] = record[k]
  BY <1>2, <1>6 DEF MInv, MigrateTypeOK
<1>8. ASSUME Turns
      PROVE  /\ record[m].is # "none" /\ m \in Ran
             /\ record[m].is # "ran" \/ \A k \in Ran : k <= m
  BY <1>1, <1>8, AmidRow DEF Ran
<1>9. InOrder' /\ record' \in [Migrations -> Records]
  <2>. HIDE DEF r, m
  <2>. QED
    BY <1>1, <1>2, <1>5, <1>6, <1>8, RowChanges
<1>10. is \in ProcStates /\ is.at = "states" /\ is.next = m /\ is.command = proc[p].command
       /\ is.stmt = proc[p].stmt /\ is.ran = proc[p].ran
  BY <1>3 DEF ProcStates
<1>11. proc'[p] = is
  BY <1>1 DEF MInv, MigrateTypeOK
<1>12. PlaceOf(p)' /\ PlainInv'
  BY <1>1, <1>2, <1>3, <1>10, <1>11 DEF PlaceOf, AtOne, Amid, Own, Migrations, PlainInv
<1>13. ASSUME Turns
       PROVE  WorkOf(p)'
  <2>. HIDE DEF r, m, is
  <2>1. RowsInv(p) /\ StmtInv(p) /\ m = proc[p].next
    BY <1>2, <1>13 DEF WorkOf, m
  <2>2. RowsInv(p)' /\ StmtInv(p)'
    BY <1>1, <1>5, <1>7, <1>8, <1>10, <1>11, <1>13, <2>1 DEF RowsInv, StmtInv
  <2>3. Ran' = Ran
    BY <1>2, <1>3, <1>5, <1>7, <1>8, <1>13 DEF Ran
  <2>4. ASSUME proc[p].command = "up"
        PROVE  UpInv(p)'
    <3>1. UpInv(p) /\ record[m].is # "ran"
      BY <1>1, <1>2, <1>3, <1>13, <2>4 DEF WorkOf, StmtInv, m
    <3>2. \A k \in Migrations :
              (k \in Own(p) /\ k < m) \/ k \in proc[p].ran => record'[k].is = "ran"
      BY <1>7, <2>1, <3>1 DEF UpInv
    <3>3. \A k \in Migrations : ~Changed(p, k)'
      BY <1>5, <1>7, <2>3, <3>1 DEF UpInv, Changed, Ran
    <3>. QED
      BY <1>10, <1>11, <3>2, <3>3 DEF UpInv
  <2>5. ASSUME proc[p].command = "down"
        PROVE  DownInv(p)'
    BY <1>2, <1>10, <1>11, <1>13, <2>1, <2>3, <2>5 DEF WorkOf, DownInv
  <2>. QED
    BY <1>10, <1>11, <2>2, <2>4, <2>5 DEF WorkOf
<1>. QED
  BY <1>1, <1>2, <1>9, <1>10, <1>12, <1>13, TypesStay, WorkerKeeps

LEMMA StateKeeps ==
    ASSUME MInv, NEW p \in Procs, State(p)
    PROVE  MInv'
<1>. DEFINE m == proc[p].next
            is == [proc[p] EXCEPT !.at = "says", !.stmt = @ + 1]
<1>1. Amid(p) /\ proc[p].at = "states" /\ proc' = [proc EXCEPT ![p] = is]
      /\ made' = [made EXCEPT ![m] = @ + Made(p)]
      /\ UNCHANGED <<db, record, lockedBy, troubles, unlocked, again>>
  BY DEF State, Becomes, Amid
<1>2. m \in Migrations /\ m \in Own(p) /\ Works(p) /\ AtOne(p) /\ db = "mysql"
      /\ (Turns => WorkOf(p))
  BY <1>1, AmidIs
<1>3. proc[p] \in ProcStates /\ proc[p].stmt \in 1..Stmts
  BY <1>1, ProcIs DEF PlaceOf
<1>4. is \in ProcStates /\ is.at = "says" /\ is.next = m /\ is.command = proc[p].command
      /\ is.stmt = proc[p].stmt + 1 /\ is.ran = proc[p].ran
  <2>1. proc[p].stmt + 1 \in 1..(Stmts + 1)
    BY <1>3
  <2>2. is \in ProcStates
    BY <1>3, <2>1 DEF ProcStates
  <2>. QED
    BY <1>3, <2>2 DEF ProcStates
<1>5. proc'[p] = is
  BY <1>1 DEF MInv, MigrateTypeOK
<1>6. PlainInv' /\ InOrder' /\ Ran' = Ran
  BY <1>1, RecordStays
<1>7. made' \in [Migrations -> Int]
  BY <1>1, <1>2 DEF MInv, MigrateTypeOK, Made
<1>8. PlaceOf(p)'
  BY <1>1, <1>2, <1>3, <1>4, <1>5 DEF PlaceOf, AtOne, Amid, Own, Migrations
<1>9. ASSUME Turns
      PROVE  WorkOf(p)'
  <2>1. RowsInv(p)'
    BY <1>1, <1>2, <1>4, <1>5, <1>9 DEF WorkOf, RowsInv
  <2>2. StmtInv(p)'
    BY <1>1, <1>2, <1>3, <1>4, <1>5, <1>9 DEF WorkOf, StmtInv
  <2>3. proc[p].command = "up" => UpInv(p)'
    BY <1>1, <1>2, <1>4, <1>5, <1>6, <1>9 DEF WorkOf, UpInv, Changed
  <2>4. proc[p].command = "down" => DownInv(p)'
    BY <1>1, <1>2, <1>4, <1>5, <1>6, <1>9 DEF WorkOf, DownInv
  <2>. QED
    BY <1>4, <1>5, <2>1, <2>2, <2>3, <2>4 DEF WorkOf
<1>. QED
  BY <1>1, <1>2, <1>4, <1>6, <1>7, <1>8, <1>9, TypesStay, WorkerKeeps

LEMMA StateFailsKeeps ==
    ASSUME MInv, NEW p \in Procs, StateFails(p)
    PROVE  MInv'
<1>. DEFINE m == proc[p].next
            is == [proc[p] EXCEPT !.at = "fails"]
<1>1. Amid(p) /\ proc[p].at = "states" /\ Trouble /\ UNCHANGED <<db, record, unlocked, again>>
      /\ (UNCHANGED made \/ made' = [made EXCEPT ![m] = @ + Made(p)])
      /\ IF proc[p].stmt = 1 THEN proc' = [proc EXCEPT ![p] = is] /\ UNCHANGED lockedBy
         ELSE Ends(p)
  BY DEF StateFails, Becomes, Amid
<1>2. m \in Migrations /\ m \in Own(p) /\ Works(p) /\ AtOne(p) /\ db = "mysql"
      /\ (Turns => WorkOf(p))
  BY <1>1, AmidIs
<1>3. proc[p] \in ProcStates /\ proc[p].stmt \in 1..Stmts
  BY <1>1, ProcIs DEF PlaceOf
<1>4. PlainInv' /\ InOrder' /\ Ran' = Ran
  BY <1>1, RecordStays
<1>5. record' \in [Migrations -> Records] /\ troubles' \in 0..MaxTroubles
      /\ again' \subseteq Migrations
  BY <1>1, TypesStay
<1>6. made' \in [Migrations -> Int]
  BY <1>1, <1>2 DEF MInv, MigrateTypeOK, Made
<1>7. CASE proc[p].stmt # 1
  BY <1>1, <1>2, <1>4, <1>5, <1>6, <1>7, RunEndsKeeps
<1>8. CASE proc[p].stmt = 1
  <2>1. is \in ProcStates /\ is.at = "fails" /\ is.next = m /\ is.command = proc[p].command
        /\ is.stmt = 1 /\ is.ran = proc[p].ran
    BY <1>3, <1>8 DEF ProcStates
  <2>2. proc' = [proc EXCEPT ![p] = is] /\ UNCHANGED lockedBy /\ proc'[p] = is
    BY <1>1, <1>8 DEF MInv, MigrateTypeOK
  <2>3. PlaceOf(p)'
    BY <1>1, <1>2, <1>3, <2>1, <2>2 DEF PlaceOf, AtOne, Amid, Own, Migrations
  <2>4. ASSUME Turns
        PROVE  WorkOf(p)'
    <3>1. RowsInv(p)'
      BY <1>1, <1>2, <2>1, <2>2, <2>4 DEF WorkOf, RowsInv
    <3>2. StmtInv(p)'
      BY <1>1, <1>2, <1>8, <2>1, <2>2, <2>4 DEF WorkOf, StmtInv
    <3>3. proc[p].command = "up" => UpInv(p)'
      BY <1>1, <1>2, <1>4, <2>1, <2>2, <2>4 DEF WorkOf, UpInv, Changed
    <3>4. proc[p].command = "down" => DownInv(p)'
      BY <1>1, <1>2, <1>4, <2>1, <2>2, <2>4 DEF WorkOf, DownInv
    <3>. QED
      BY <2>1, <2>2, <3>1, <3>2, <3>3, <3>4 DEF WorkOf
  <2>. QED
    BY <1>1, <1>2, <1>4, <1>5, <1>6, <2>1, <2>2, <2>3, <2>4, WorkerKeeps
<1>. QED
  BY <1>7, <1>8

LEMMA PutBackKeeps ==
    ASSUME MInv, NEW p \in Procs, PutBack(p)
    PROVE  MInv'
<1>. DEFINE m == proc[p].next
            r == IF proc[p].command = "up" \/ record[m].is = "none" THEN NoRecord
                                                                   ELSE RanAs(record[m].hash)
<1>1. Amid(p) /\ record' = [record EXCEPT ![m] = r] /\ Ends(p)
      /\ UNCHANGED <<db, made, troubles, unlocked, again>>
  BY DEF PutBack, Amid
<1>2. m \in Migrations /\ Works(p) /\ db = "mysql"
  BY <1>1, AmidIs
<1>3. /\ r \in Records
      /\ r.is = "none" \/ r.hash = record[m].hash
  BY <1>2, RecordIs, RowsAre DEF NoRecord
<1>4. InOrder' /\ record' \in [Migrations -> Records]
  <2>1. Turns => m \in Ran /\ (record[m].is # "ran" \/ \A k \in Ran : k <= m)
    BY <1>1, AmidRow
  <2>. HIDE DEF r, m
  <2>. QED
    BY <1>1, <1>2, <1>3, <2>1, RowChanges
<1>5. PlainInv'
  BY <1>1, <1>2 DEF PlainInv
<1>. QED
  BY <1>1, <1>2, <1>4, <1>5, TypesStay, RunEndsKeeps

LEMMA RecordedKeeps ==
    ASSUME MInv, NEW p \in Procs, Recorded(p)
    PROVE  MInv'
<1>. DEFINE m == proc[p].next
            r == IF proc[p].command = "down" \/ record[m].is = "none" THEN NoRecord
                                                                     ELSE RanAs(record[m].hash)
<1>1. Amid(p) /\ record' = [record EXCEPT ![m] = r] /\ Goes(p) /\ proc[p].at = "says"
      /\ proc[p].stmt > Stmts /\ UNCHANGED <<db, made, troubles, unlocked, again>>
  BY DEF Recorded, Amid
<1>2. m \in Migrations /\ m \in Own(p) /\ Works(p) /\ AtOne(p) /\ db = "mysql"
      /\ (Turns => WorkOf(p))
  BY <1>1, AmidIs
<1>3. /\ r \in Records
      /\ r.is = "none" \/ r.hash = record[m].hash
  BY <1>2, RecordIs, RowsAre DEF NoRecord
<1>4. Turns => m \in Ran /\ (record[m].is # "ran" \/ \A k \in Ran : k <= m)
  BY <1>1, AmidRow
<1>5. InOrder' /\ record' \in [Migrations -> Records]
  <2>. HIDE DEF r, m
  <2>. QED
    BY <1>1, <1>2, <1>3, <1>4, RowChanges
<1>6. PlainInv'
  BY <1>1, <1>2 DEF PlainInv
<1>7. record'[m] = r /\ \A k \in Migrations \ {m} : record'[k] = record[k]
  BY <1>1, <1>2 DEF MInv, MigrateTypeOK
<1>8. ASSUME Turns, proc[p].command = "up"
      PROVE  /\ \A k \in Migrations : record'[k].is \in {"none", "ran"}
             /\ \A k \in Migrations : ~Changed(p, k)'
             /\ \A k \in Migrations :
                   (k \in Own(p) /\ k <= m) \/ k \in proc[p].ran => record'[k].is = "ran"
  <2>1. m \in Ran /\ RowsInv(p) /\ UpInv(p)
    BY <1>2, <1>4, <1>8 DEF WorkOf
  <2>2. r = RanAs(record[m].hash) /\ r.is = "ran" /\ r.hash = record[m].hash
    BY <1>2, <1>8, <2>1, RecordIs, RowsAre DEF Ran
  <2>. HIDE DEF r
  <2>3. \A k \in Migrations : record'[k].is \in {"none", "ran"}
    BY <1>1, <1>7, <2>1, <2>2 DEF RowsInv
  <2>4. \A k \in Migrations : k <= m => k < m \/ k = m
    BY <1>2 DEF Migrations
  <2>5. \A k \in Migrations :
            (k \in Own(p) /\ k <= m) \/ k \in proc[p].ran => record'[k].is = "ran"
    BY <1>7, <2>1, <2>2, <2>4 DEF UpInv
  <2>6. \A k \in Migrations : ~Changed(p, k)'
    BY <1>7, <2>1, <2>2 DEF UpInv, Changed, Ran
  <2>. QED
    BY <2>3, <2>5, <2>6
<1>9. made' \in [Migrations -> Int] /\ troubles' \in 0..MaxTroubles /\ again' \subseteq Migrations
  BY <1>1, TypesStay
<1>. QED
  <2>. HIDE DEF r
  <2>. QED
    BY <1>1, <1>2, <1>5, <1>6, <1>8, <1>9, GoesKeeps

\* Whoever mends one, as no one's at work, leaves it whole or gone.
LEMMA MendByHandKeeps ==
    ASSUME MInv, NEW m \in Migrations, MendByHand(m)
    PROVE  MInv'
<1>1. record[m].is \in {"up", "down"} /\ (\A p \in Procs : proc[p].at = "idle")
      /\ UNCHANGED <<db, lockedBy, proc, troubles, unlocked, again>>
  BY DEF MendByHand
<1>2. PICK r \in {RanAs(record[m].hash), NoRecord} : record' = [record EXCEPT ![m] = r]
  BY DEF MendByHand
<1>3. r \in Records /\ (r.is = "none" \/ r.hash = record[m].hash)
  BY RecordIs, RowsAre DEF NoRecord
<1>4. InOrder' /\ record' \in [Migrations -> Records]
  <2>1. m \in Ran /\ record[m].is # "ran"
    BY <1>1 DEF Ran
  <2>. QED
    BY <1>1, <1>2, <1>3, <2>1, RowChanges
<1>5. made' \in [Migrations -> Int]
  BY DEF MInv, MigrateTypeOK, MendByHand
<1>6. MigrateTypeOK'
  BY <1>1, <1>4, <1>5 DEF MInv, MigrateTypeOK
<1>7. db = "mysql"
  BY <1>1 DEF MInv, PlainInv
<1>8. PlainInv' /\ PlaceInv' /\ LockedInv' /\ WorkInv'
  BY <1>1, <1>7 DEF MInv, PlainInv, PlaceInv, PlaceOf, LockedInv, WorkInv, WorkOf, Works, AtOne,
                    Amid, Turns
<1>. QED
  BY <1>4, <1>6, <1>8 DEF MInv

LEMMA MigrateStepKeeps == MInv /\ [MigrateNext]_migrateVars => MInv'
<1>. SUFFICES ASSUME MInv, [MigrateNext]_migrateVars
     PROVE  MInv'
  OBVIOUS
<1>1. ASSUME NEW p \in Procs, MigrateStep(p)
      PROVE  MInv'
  <2>1. Refuse(p) \/ Finish(p) \/ Stop(p) => MInv'
    BY QuitKeeps DEF Refuse, Finish, Stop, Works
  <2>. QED
    BY <1>1, <2>1, TakeLockKeeps, ReadRanKeeps, RunTxKeeps, UndoTxKeeps,
       RunBeginsKeeps, UndoBeginsKeeps, SayKeeps, StateKeeps, StateFailsKeeps, PutBackKeeps,
       RecordedKeeps, LoseLockKeeps DEF MigrateStep
<1>2. CASE UNCHANGED migrateVars
  BY <1>2 DEF migrateVars, MInv, MigrateTypeOK, PlaceInv, PlaceOf, PlainInv, LockedInv, WorkInv,
              WorkOf, RowsInv, StmtInv, UpInv, DownInv, Works, AtOne, Amid, Turns, InOrder,
              Changed, Ran
<1>. QED
  BY <1>1, <1>2, MendByHandKeeps DEF MigrateNext

-----------------------------------------------------------------------------
(* The record, as no answer is lost                                        *)

\* A step of who's at work puts no other in the middle of a migration.
LEMMA OnlyItsMade ==
    ASSUME MInv, NEW p \in Procs, Works(p), NEW is, proc' = [proc EXCEPT ![p] = is],
           UNCHANGED <<db, unlocked>>, Turns => MadeOf(p)'
    PROVE  MadeInv'
<1>1. \A q \in Procs \ {p} : proc'[q] = proc[q]
  BY DEF MInv, MigrateTypeOK
<1>2. Turns => \A q \in Procs \ {p} : ~Amid(q)'
  BY <1>1, OneWorks DEF Works, Amid
<1>. QED
  BY <1>2 DEF MadeInv, MadeOf, Turns

\* What's at one migration only makes no other's row untrue.
LEMMA OnlyItsRow ==
    ASSUME MInv, RecordTrue, NEW m \in Migrations, UNCHANGED <<db, unlocked, again>>,
           \A k \in Migrations \ {m} : record'[k] = record[k] /\ made'[k] = made[k],
           Turns \/ db # "mysql" => m \in again \/ SaysTrue(m)'
    PROVE  RecordTrue'
<1>1. \A k \in Migrations \ {m} : SaysTrue(k)' = SaysTrue(k)
  BY DEF SaysTrue
<1>. QED
  BY <1>1 DEF RecordTrue, Turns

\* Most steps do nothing to the rows or the tables.
LEMMA NothingMade ==
    ASSUME MInv, RecordInv, UNCHANGED <<db, record, made, again>>, unlocked' = unlocked \/ unlocked',
           \A q \in Procs : Amid(q)' => proc'[q] = proc[q]
    PROVE  RecordInv'
<1>1. unlocked => unlocked'
  OBVIOUS
<1>2. RecordTrue'
  BY <1>1 DEF RecordInv, RecordTrue, SaysTrue, Turns
<1>3. MadeInv'
  BY <1>1 DEF RecordInv, MadeInv, MadeOf, Amid, Turns
<1>. QED
  BY <1>2, <1>3 DEF RecordInv

LEMMA QuietRecord ==
    ASSUME MInv, RecordInv, NEW p \in Procs,
           \/ TakeLock(p) \/ ReadRan(p) \/ Refuse(p) \/ Finish(p)
           \/ Stop(p) \/ LoseLock(p)
    PROVE  RecordInv'
<1>1. UNCHANGED <<db, record, made, again>> /\ (unlocked' = unlocked \/ unlocked')
  BY DEF TakeLock, ReadRan, Refuse, Finish, Stop, LoseLock
<1>2. proc \in [Procs -> ProcStates] /\ proc[p] \in ProcStates
  BY DEF MInv, MigrateTypeOK
<1>3. \A q \in Procs : Amid(q)' => proc'[q] = proc[q]
  <2>1. ASSUME NEW is, Becomes(p, is), is.at \notin {"says", "states", "fails"}
        PROVE  \A q \in Procs : Amid(q)' => proc'[q] = proc[q]
    BY <1>2, <2>1 DEF Becomes, Amid
  <2>2. CASE TakeLock(p)
    <3>1. \A command : [AtRest EXCEPT !.at = "reads", !.command = command].at = "reads"
      BY DEF AtRest
    <3>. QED
      BY <2>1, <2>2, <3>1 DEF TakeLock, Reads
  <2>3. CASE ReadRan(p)
    <3>1. \A n, ran : [proc[p] EXCEPT !.at = "runs", !.ran = ran, !.next = n].at = "runs"
      BY <1>2 DEF ProcStates
    <3>2. \A n : [proc[p] EXCEPT !.at = "runs", !.next = n].at = "runs"
      BY <1>2 DEF ProcStates
    <3>. QED
      BY <2>1, <2>3, <3>1, <3>2 DEF ReadRan, Begins, UpBegins, DownBegins
  <2>4. CASE Refuse(p) \/ Finish(p) \/ Stop(p)
    <3>1. AtRest.at = "idle" /\ Becomes(p, AtRest)
      BY <2>4 DEF Refuse, Finish, Stop, Ends, AtRest
    <3>. QED
      BY <2>1, <3>1
  <2>5. CASE LoseLock(p)
    BY <2>5 DEF LoseLock
  <2>. QED
    BY <2>2, <2>3, <2>4, <2>5
<1>. QED
  BY <1>1, <1>3, NothingMade

\* In a transaction the row and the tables change at once.
LEMMA TxRecord ==
    ASSUME MInv, MInv', RecordInv, NEW p \in Procs, RunTx(p) \/ UndoTx(p)
    PROVE  RecordInv'
<1>1. At(p) /\ db # "mysql" /\ UNCHANGED <<db, unlocked>>
  BY DEF RunTx, UndoTx
<1>2. PICK m \in Migrations : m = proc[p].next
  BY <1>1, AtIs
<1>3. MadeInv'
  BY <1>1 DEF MInv, PlaceInv, PlaceOf, MadeInv, MadeOf
<1>4. record \in [Migrations -> Records] /\ made \in [Migrations -> Int]
      /\ record[m].is \in {"none", "ran"} /\ (m \in again \/ SaysTrue(m))
  BY <1>1, <1>2 DEF MInv, MigrateTypeOK, PlainInv, RecordInv, RecordTrue
<1>5. CASE RunTx(p) /\ record[m].is = "ran"
  BY <1>1, <1>2, <1>3, <1>5 DEF RunTx, RecordInv, RecordTrue, SaysTrue, Turns
<1>6. CASE RunTx(p) /\ record[m].is = "none"
  <2>1. record' = [record EXCEPT ![m] = RanAs(Files[p][m])]
        /\ made' = [made EXCEPT ![m] = @ + Stmts] /\ UNCHANGED again
    BY <1>2, <1>6 DEF RunTx
  <2>2. record'[m].is = "ran" /\ (m \in again \/ made'[m] = Stmts)
    BY <1>2, <1>4, <1>6, <2>1 DEF RanAs, SaysTrue
  <2>3. \A k \in Migrations \ {m} : record'[k] = record[k] /\ made'[k] = made[k]
    BY <1>4, <2>1
  <2>4. m \in again \/ SaysTrue(m)'
    BY <2>2 DEF SaysTrue
  <2>. QED
    BY <1>1, <1>2, <1>3, <2>1, <2>3, <2>4, OnlyItsRow DEF RecordInv
<1>7. CASE UndoTx(p)
  <2>1. record' = [record EXCEPT ![m] = NoRecord] /\ made' = [made EXCEPT ![m] = @ - Stmts]
        /\ again' = IF record[m].is = "none" THEN again \cup {m} ELSE again
    BY <1>2, <1>7 DEF UndoTx
  <2>2. record'[m].is = "none" /\ made'[m] = made[m] - Stmts
    BY <1>2, <1>4, <2>1 DEF NoRecord
  <2>3. \A k \in Migrations \ {m} : record'[k] = record[k] /\ made'[k] = made[k]
    BY <1>4, <2>1
  <2>4. CASE record[m].is = "ran"
    <3>1. m \in again \/ SaysTrue(m)'
      BY <1>4, <2>2, <2>4 DEF SaysTrue
    <3>2. UNCHANGED again
      BY <2>1, <2>4
    <3>. QED
      BY <1>1, <1>2, <1>3, <2>3, <3>1, <3>2, OnlyItsRow DEF RecordInv
  <2>5. CASE record[m].is = "none"
    <3>1. ~Turns
      <4>1. proc[p].command = "down" /\ proc[p].at = "runs"
        BY <1>1, <1>7 DEF UndoTx, At
      <4>. QED
        BY <1>1, <1>2, <2>5, <4>1, AtIs DEF WorkOf, DownInv
    <3>2. \A k \in Migrations \ {m} : SaysTrue(k)' = SaysTrue(k)
      BY <2>3 DEF SaysTrue
    <3>3. RecordTrue'
      BY <1>1, <2>1, <2>5, <3>1, <3>2 DEF RecordInv, RecordTrue, Turns
    <3>. QED
      BY <1>3, <3>3 DEF RecordInv
  <2>. QED
    BY <1>4, <2>4, <2>5
<1>8. RunTx(p) => record[m].is = "ran" \/ record[m].is = "none"
  BY <1>4
<1>. QED
  BY <1>5, <1>6, <1>7, <1>8

\* What's so in MySQL of the row and the tables of who's amid a migration.
LEMMA AmidMade ==
    ASSUME MInv, RecordInv, NEW p \in Procs, Amid(p), Turns
    PROVE  /\ made[proc[p].next] = IF proc[p].command = "up" THEN proc[p].stmt - 1
                                                              ELSE Stmts - proc[p].stmt + 1
           /\ StmtInv(p)
           /\ \A m \in Migrations : SaysTrue(m)
BY AmidIs DEF RecordInv, RecordTrue, MadeInv, MadeOf, Turns, WorkOf

LEMMA BeginsRecord ==
    ASSUME MInv, RecordInv, NEW p \in Procs, RunBegins(p) \/ UndoBegins(p)
    PROVE  RecordInv'
<1>1. At(p) /\ db = "mysql" /\ UNCHANGED <<db, made, unlocked, again>> /\ proc[p].at = "runs"
  BY DEF RunBegins, UndoBegins, At
<1>2. PICK m \in Migrations : m = proc[p].next
  BY <1>1, AtIs
<1>3. Works(p) /\ (Turns => WorkOf(p)) /\ AtOne(p)
  BY <1>1, AtIs
<1>4. proc \in [Procs -> ProcStates] /\ proc[p] \in ProcStates /\ proc[p].stmt = 1
      /\ record \in [Migrations -> Records]
  BY <1>1, ProcIs DEF PlaceOf, MInv, MigrateTypeOK
<1>5. Turns => SaysTrue(m)
  BY DEF RecordInv, RecordTrue, Turns
<1>6. CASE RunBegins(p) /\ record[m].is # "none"
  <2>1. UNCHANGED record /\ (Goes(p) \/ Ends(p)) /\ proc[p].command = "up"
    BY <1>2, <1>6 DEF RunBegins
  <2>2. PICK is : Becomes(p, is) /\ is.at \notin {"says", "states", "fails"}
    <3>1. CASE Ends(p)
      BY <3>1 DEF Ends, AtRest
    <3>2. CASE Goes(p)
      <4>1. \A n : [proc[p] EXCEPT !.at = "runs", !.next = n, !.stmt = 1].at = "runs"
        BY <1>4 DEF ProcStates
      <4>. QED
        BY <2>1, <3>2, <4>1 DEF Goes
    <3>. QED
      BY <2>1, <3>1, <3>2
  <2>3. \A q \in Procs : Amid(q)' => proc'[q] = proc[q]
    BY <1>4, <2>2 DEF Becomes, Amid
  <2>. QED
    BY <1>1, <2>1, <2>3, NothingMade
<1>7. CASE RunBegins(p) /\ record[m].is = "none"
  <2>. DEFINE is == [proc[p] EXCEPT !.at = "states"]
  <2>1. record' = [record EXCEPT ![m] = [is |-> "up", at |-> 1, hash |-> Files[p][m]]]
        /\ proc' = [proc EXCEPT ![p] = is] /\ proc[p].command = "up"
    BY <1>2, <1>7 DEF RunBegins, Becomes
  <2>2. record'[m].is = "up" /\ record'[m].at = 1
        /\ \A k \in Migrations \ {m} : record'[k] = record[k]
    BY <1>4, <2>1
  <2>3. is.command = "up" /\ is.stmt = 1 /\ is.next = m /\ proc'[p] = is
    BY <1>2, <1>4, <2>1 DEF ProcStates
  <2>4. Turns => made[m] = 0
    BY <1>5, <1>7 DEF SaysTrue
  <2>5. Turns => SaysTrue(m)' /\ MadeOf(p)'
    BY <1>1, <2>2, <2>3, <2>4 DEF SaysTrue, MadeOf
  <2>6. MadeInv'
    <3>. HIDE DEF is
    <3>. QED
      BY <1>1, <1>3, <2>1, <2>5, OnlyItsMade
  <2>7. RecordTrue'
    BY <1>1, <2>2, <2>5, OnlyItsRow DEF RecordInv, Turns
  <2>. QED
    BY <2>6, <2>7 DEF RecordInv
<1>8. CASE UndoBegins(p)
  <2>. DEFINE is == [proc[p] EXCEPT !.at = "says"]
  <2>1. proc' = [proc EXCEPT ![p] = is] /\ proc[p].command = "down" /\ UNCHANGED record
    BY <1>8 DEF UndoBegins, Becomes
  <2>2. is.command = "down" /\ is.stmt = 1 /\ is.next = m /\ proc'[p] = is
    BY <1>2, <1>4, <2>1 DEF ProcStates
  <2>3. Turns => made[m] = Stmts
    BY <1>1, <1>2, <1>3, <1>5, <2>1 DEF SaysTrue, WorkOf, DownInv
  <2>4. Turns => MadeOf(p)'
    BY <1>1, <2>2, <2>3 DEF MadeOf
  <2>5. MadeInv'
    <3>. HIDE DEF is
    <3>. QED
      BY <1>1, <1>3, <2>1, <2>4, OnlyItsMade
  <2>6. RecordTrue'
    BY <1>1, <2>1 DEF RecordInv, RecordTrue, SaysTrue, Turns
  <2>. QED
    BY <2>5, <2>6 DEF RecordInv
<1>. QED
  BY <1>6, <1>7, <1>8

LEMMA SayRecord ==
    ASSUME MInv, RecordInv, NEW p \in Procs, Say(p)
    PROVE  RecordInv'
<1>. DEFINE is == [proc[p] EXCEPT !.at = "states"]
<1>1. Amid(p) /\ proc' = [proc EXCEPT ![p] = is] /\ UNCHANGED <<db, made, unlocked, again>>
      /\ proc[p].at = "says"
  BY DEF Say, Becomes, Amid
<1>2. PICK m \in Migrations : m = proc[p].next
  BY <1>1, AmidIs
<1>3. Works(p) /\ db = "mysql" /\ proc[p].stmt \in Nat /\ proc[p].stmt >= 1
      /\ proc[p].command \in {"up", "down"}
      /\ proc \in [Procs -> ProcStates] /\ record \in [Migrations -> Records]
  BY <1>1, AmidIs, ProcIs DEF MInv, MigrateTypeOK
<1>4. is.command = proc[p].command /\ is.stmt = proc[p].stmt /\ is.next = m /\ proc'[p] = is
  BY <1>1, <1>2, <1>3 DEF ProcStates
<1>5. \A k \in Migrations \ {m} : record'[k] = record[k]
  BY <1>2, <1>3 DEF Say
<1>6. ASSUME Turns
      PROVE  MadeOf(p)' /\ SaysTrue(m)'
  <2>1. made[m] = IF proc[p].command = "up" THEN proc[p].stmt - 1 ELSE Stmts - proc[p].stmt + 1
    BY <1>1, <1>2, <1>6, AmidMade
  <2>2. record[m].is # "none"
    <3>1. StmtInv(p)
      BY <1>1, <1>6, AmidMade
    <3>2. proc[p].stmt = 1 \/ proc[p].stmt > 1
      BY <1>3
    <3>. QED
      BY <1>1, <1>2, <1>3, <3>1, <3>2 DEF StmtInv
  <2>3. record'[m].is = proc[p].command /\ record'[m].at = proc[p].stmt
    BY <1>2, <1>3, <2>2 DEF Say, Records
  <2>. QED
    BY <1>1, <1>3, <1>4, <2>1, <2>3 DEF MadeOf, SaysTrue
<1>7. MadeInv'
  <2>. HIDE DEF is
  <2>. QED
    BY <1>1, <1>3, <1>6, OnlyItsMade
<1>8. RecordTrue'
  BY <1>1, <1>3, <1>5, <1>6, OnlyItsRow DEF RecordInv, Turns
<1>. QED
  BY <1>7, <1>8 DEF RecordInv

LEMMA StateRecord ==
    ASSUME MInv, RecordInv, NEW p \in Procs, State(p)
    PROVE  RecordInv'
<1>. DEFINE is == [proc[p] EXCEPT !.at = "says", !.stmt = @ + 1]
<1>1. Amid(p) /\ proc' = [proc EXCEPT ![p] = is] /\ UNCHANGED <<db, record, unlocked, again>>
      /\ proc[p].at = "states"
  BY DEF State, Becomes, Amid
<1>2. PICK m \in Migrations : m = proc[p].next
  BY <1>1, AmidIs
<1>3. Works(p) /\ db = "mysql" /\ proc[p].stmt \in Nat /\ proc[p].command \in {"up", "down"}
      /\ proc \in [Procs -> ProcStates] /\ made \in [Migrations -> Int]
  BY <1>1, AmidIs, ProcIs DEF MInv, MigrateTypeOK
<1>4. is.command = proc[p].command /\ is.stmt = proc[p].stmt + 1 /\ is.next = m /\ proc'[p] = is
  BY <1>1, <1>2, <1>3 DEF ProcStates
<1>5. made' = [made EXCEPT ![m] = @ + Made(p)]
  BY <1>2 DEF State
<1>6. \A k \in Migrations \ {m} : made'[k] = made[k] /\ record'[k] = record[k]
  BY <1>1, <1>3, <1>5
<1>7. ASSUME Turns
      PROVE  MadeOf(p)' /\ SaysTrue(m)'
  <2>1. made[m] = IF proc[p].command = "up" THEN proc[p].stmt - 1 ELSE Stmts - proc[p].stmt + 1
    BY <1>1, <1>2, <1>7, AmidMade
  <2>2. record'[m].is = proc[p].command /\ record'[m].at = proc[p].stmt
    BY <1>1, <1>2, <1>7, AmidMade DEF StmtInv
  <2>3. made'[m] = IF proc[p].command = "up" THEN proc[p].stmt ELSE Stmts - proc[p].stmt
    BY <1>3, <1>5, <2>1 DEF Made
  <2>. QED
    BY <1>3, <1>4, <2>2, <2>3 DEF MadeOf, SaysTrue
<1>8. MadeInv'
  <2>. HIDE DEF is
  <2>. QED
    BY <1>1, <1>3, <1>7, OnlyItsMade
<1>9. RecordTrue'
  BY <1>1, <1>3, <1>6, <1>7, OnlyItsRow DEF RecordInv, Turns
<1>. QED
  BY <1>8, <1>9 DEF RecordInv

\* Here no lost answer hides that the statement was carried out.
LEMMA StateFailsRecord ==
    ASSUME MInv, RecordInv, ~LostAnswers, NEW p \in Procs, StateFails(p)
    PROVE  RecordInv'
<1>1. Amid(p) /\ UNCHANGED <<db, record, made, unlocked, again>> /\ proc[p].at = "states"
  BY DEF StateFails, Amid
<1>2. Works(p) /\ proc \in [Procs -> ProcStates]
  BY <1>1, AmidIs DEF MInv, MigrateTypeOK
<1>3. CASE proc[p].stmt = 1
  <2>. DEFINE is == [proc[p] EXCEPT !.at = "fails"]
  <2>1. proc' = [proc EXCEPT ![p] = is]
    BY <1>3 DEF StateFails, Becomes
  <2>2. is.command = proc[p].command /\ is.stmt = proc[p].stmt /\ is.next = proc[p].next
        /\ proc'[p] = is
    BY <1>2, <2>1 DEF ProcStates
  <2>3. Turns => MadeOf(p)'
    BY <1>1, <2>2, AmidMade DEF MadeOf
  <2>4. MadeInv'
    <3>. HIDE DEF is
    <3>. QED
      BY <1>1, <1>2, <2>1, <2>3, OnlyItsMade
  <2>5. RecordTrue'
    BY <1>1 DEF RecordInv, RecordTrue, SaysTrue, Turns
  <2>. QED
    BY <2>4, <2>5 DEF RecordInv
<1>4. CASE proc[p].stmt # 1
  <2>1. proc' = [proc EXCEPT ![p] = AtRest]
    BY <1>4 DEF StateFails, Ends, Becomes
  <2>2. \A q \in Procs : Amid(q)' => proc'[q] = proc[q]
    BY <1>2, <2>1 DEF Amid, AtRest
  <2>. QED
    BY <1>1, <2>2, NothingMade
<1>. QED
  BY <1>3, <1>4

LEMMA PutBackRecord ==
    ASSUME MInv, RecordInv, NEW p \in Procs, PutBack(p)
    PROVE  RecordInv'
<1>1. Amid(p) /\ UNCHANGED <<db, made, unlocked, again>> /\ proc[p].at = "fails"
      /\ proc' = [proc EXCEPT ![p] = AtRest]
  BY DEF PutBack, Amid, Ends, Becomes
<1>2. PICK m \in Migrations : m = proc[p].next
  BY <1>1, AmidIs
<1>3. Works(p) /\ db = "mysql" /\ proc[p].command \in {"up", "down"}
      /\ record \in [Migrations -> Records] /\ proc'[p] = AtRest
  BY <1>1, AmidIs, ProcIs DEF MInv, MigrateTypeOK
<1>4. record' = [record EXCEPT ![m] =
          IF proc[p].command = "up" \/ @.is = "none" THEN NoRecord ELSE RanAs(@.hash)]
  BY <1>2 DEF PutBack
<1>5. \A k \in Migrations \ {m} : record'[k] = record[k] /\ made'[k] = made[k]
  BY <1>1, <1>3, <1>4
<1>6. ASSUME Turns
      PROVE  SaysTrue(m)'
  <2>1. /\ made[m] = IF proc[p].command = "up" THEN 0 ELSE Stmts
        /\ record[m].is = proc[p].command
    BY <1>1, <1>2, <1>6, AmidMade DEF StmtInv
  <2>2. record'[m].is = IF proc[p].command = "up" THEN "none" ELSE "ran"
    BY <1>3, <1>4, <2>1 DEF NoRecord, RanAs
  <2>. QED
    BY <1>1, <1>3, <2>1, <2>2 DEF SaysTrue
<1>7. MadeInv'
  <2>1. MadeOf(p)'
    BY <1>3 DEF MadeOf, Amid, AtRest
  <2>. QED
    BY <1>1, <1>3, <2>1, OnlyItsMade
<1>8. RecordTrue'
  BY <1>1, <1>3, <1>5, <1>6, OnlyItsRow DEF RecordInv, Turns
<1>. QED
  BY <1>7, <1>8 DEF RecordInv

LEMMA RecordedRecord ==
    ASSUME MInv, RecordInv, NEW p \in Procs, Recorded(p)
    PROVE  RecordInv'
<1>1. Amid(p) /\ UNCHANGED <<db, made, unlocked, again>> /\ proc[p].at = "says" /\ Goes(p)
      /\ proc[p].stmt > Stmts
  BY DEF Recorded, Amid
<1>2. PICK m \in Migrations : m = proc[p].next
  BY <1>1, AmidIs
<1>3. Works(p) /\ db = "mysql" /\ proc[p].command \in {"up", "down"}
      /\ record \in [Migrations -> Records] /\ proc \in [Procs -> ProcStates]
      /\ proc[p] \in ProcStates /\ proc[p].stmt = Stmts + 1
  BY <1>1, AmidIs, ProcIs DEF MInv, MigrateTypeOK
<1>4. record' = [record EXCEPT ![m] =
          IF proc[p].command = "down" \/ @.is = "none" THEN NoRecord ELSE RanAs(@.hash)]
  BY <1>2 DEF Recorded
<1>5. \A k \in Migrations \ {m} : record'[k] = record[k] /\ made'[k] = made[k]
  BY <1>1, <1>3, <1>4
<1>6. ASSUME Turns
      PROVE  SaysTrue(m)'
  <2>1. /\ made[m] = IF proc[p].command = "up" THEN Stmts ELSE 0
        /\ record[m].is = proc[p].command
    <3>1. StmtInv(p) /\ made[m] = IF proc[p].command = "up" THEN proc[p].stmt - 1
                                                           ELSE Stmts - proc[p].stmt + 1
      BY <1>1, <1>2, <1>6, AmidMade
    <3>2. proc[p].stmt > 1
      BY <1>3
    <3>. QED
      BY <1>1, <1>2, <1>3, <3>1, <3>2 DEF StmtInv
  <2>2. record'[m].is = IF proc[p].command = "up" THEN "ran" ELSE "none"
    BY <1>3, <1>4, <2>1 DEF NoRecord, RanAs
  <2>. QED
    BY <1>1, <1>3, <2>1, <2>2 DEF SaysTrue
<1>7. MadeInv'
  <2>1. PICK is : proc' = [proc EXCEPT ![p] = is] /\ is.at \notin {"says", "states", "fails"}
    <3>1. \A n : [proc[p] EXCEPT !.at = "runs", !.next = n, !.stmt = 1].at = "runs"
      BY <1>3 DEF ProcStates
    <3>. QED
      BY <1>1, <3>1 DEF Goes, Ends, Becomes, AtRest
  <2>2. MadeOf(p)'
    BY <1>3, <2>1 DEF MadeOf, Amid
  <2>. QED
    BY <1>1, <1>3, <2>1, <2>2, OnlyItsMade
<1>8. RecordTrue'
  BY <1>1, <1>3, <1>5, <1>6, OnlyItsRow DEF RecordInv, Turns
<1>. QED
  BY <1>7, <1>8 DEF RecordInv

LEMMA MendRecord ==
    ASSUME MInv, RecordInv, NEW m \in Migrations, MendByHand(m)
    PROVE  RecordInv'
<1>1. UNCHANGED <<db, proc, unlocked, again>> /\ \A p \in Procs : proc[p].at = "idle"
  BY DEF MendByHand
<1>2. record \in [Migrations -> Records] /\ made \in [Migrations -> Int]
  BY DEF MInv, MigrateTypeOK
<1>3. \A k \in Migrations \ {m} : record'[k] = record[k] /\ made'[k] = made[k]
  BY <1>2 DEF MendByHand
<1>4. SaysTrue(m)'
  BY <1>2 DEF MendByHand, SaysTrue, RanAs, NoRecord
<1>5. RecordTrue'
  BY <1>1, <1>3, <1>4, OnlyItsRow DEF RecordInv
<1>6. MadeInv'
  BY <1>1 DEF MadeInv, MadeOf, Amid
<1>. QED
  BY <1>5, <1>6 DEF RecordInv

LEMMA RecordStepKeeps ==
    ~LostAnswers => (MInv /\ MInv' /\ RecordInv /\ [MigrateNext]_migrateVars => RecordInv')
<1>. SUFFICES ASSUME ~LostAnswers, MInv, MInv', RecordInv, [MigrateNext]_migrateVars
     PROVE  RecordInv'
  OBVIOUS
<1>1. ASSUME NEW p \in Procs, MigrateStep(p)
      PROVE  RecordInv'
  BY <1>1, QuietRecord, TxRecord, BeginsRecord, SayRecord, StateRecord, StateFailsRecord,
     PutBackRecord, RecordedRecord DEF MigrateStep
<1>2. CASE UNCHANGED migrateVars
  BY <1>2 DEF migrateVars, RecordInv, MadeInv, MadeOf, Amid, RecordTrue, SaysTrue, Turns
<1>. QED
  BY <1>1, <1>2, MendRecord DEF MigrateNext

-----------------------------------------------------------------------------
(* The theorems                                                            *)

\* The state of Up and Down has its types (migrate.go, Up, Down and Run).
THEOREM MigrateTypeCorrect == MigrateSpec => []MigrateTypeOK
<1>1. MInv => MigrateTypeOK
  BY DEF MInv
<1>. QED
  BY <1>1, MigrateInitInv, MigrateStepKeeps, PTL DEF MigrateSpec

\* However late a process is with what it read of the record, and whatever
\* fails, a migration that's there is as some version has it, and all that
\* version's before it are there whole, whichever of other versions came before
\* them or after: Up goes on from what it read under the lock, over any files,
\* those of a branch merged late among them (migrate.go, Up; docs/migrations.md).
THEOREM RunInOrder == MigrateSpec => []InOrder
<1>1. MInv => InOrder
  BY DEF MInv
<1>. QED
  BY <1>1, MigrateInitInv, MigrateStepKeeps, PTL DEF MigrateSpec

\* A row that comes is of who's at work, under the lock, at its next.
LEMMA BegunBy ==
    ASSUME MInv, Turns, NEW m \in Migrations, NEW q \in Procs, MigrateStep(q),
           record[m].is = "none", record'[m].is # "none"
    PROVE  /\ Works(q) /\ UpInv(q)
           /\ m \in Own(q) /\ record'[m].hash = Files[q][m]
<1>1. record \in [Migrations -> Records]
  BY DEF MInv, MigrateTypeOK
<1>2. RunTx(q) \/ RunBegins(q)
  <2>1. ~UNCHANGED record
    OBVIOUS
  <2>2. ~(UndoTx(q) \/ PutBack(q) \/ Recorded(q))
    BY <1>1 DEF UndoTx, PutBack, Recorded, NoRecord
  <2>3. ~Say(q)
    <3>1. SUFFICES ASSUME Say(q)
          PROVE  FALSE
      OBVIOUS
    <3>2. m = proc[q].next
      BY <1>1, <3>1 DEF Say
    <3>3. record'[m].is = record[m].is
      BY <1>1, <3>1, <3>2 DEF Say, Records
    <3>. QED
      BY <3>3
  <2>. QED
    BY <2>1, <2>2, <2>3 DEF MigrateStep, TakeLock, ReadRan, Refuse, Finish, UndoBegins, State,
                      StateFails, Stop, LoseLock
<1>3. At(q) /\ proc[q].command = "up"
  BY <1>2 DEF RunTx, RunBegins
<1>4. Works(q) /\ UpInv(q) /\ proc[q].next \in Own(q)
  BY <1>3, AtIs DEF WorkOf
<1>5. m = proc[q].next /\ record'[m].hash = Files[q][m]
  <2>1. PICK r : record' = [record EXCEPT ![proc[q].next] = r] /\ r.hash = Files[q][proc[q].next]
    BY <1>2 DEF RunTx, RunBegins, RanAs
  <2>. QED
    BY <1>1, <2>1
<1>. QED
  BY <1>4, <1>5

\* None begins but as the version at work has it, and none while a file of that
\* version's has changed since it ran, whichever it is and whoever ran it: Up
\* refuses before it runs any, and till it has run the last no other comes
\* between (migrate.go, Up: "A file changed since it ran stops the next run").
THEOREM ChangedStopsRun == MigrateSpec => ChangedStops
<1>. DEFINE Stops == Turns => \A m \in Migrations, p \in lockedBy :
                         record[m].is = "none" /\ record'[m].is # "none" =>
                             /\ record'[m].hash = Files[p][m] /\ m \in Own(p)
                             /\ \A k \in Migrations : ~Changed(p, k)
<1>1. MInv /\ [MigrateNext]_migrateVars => [Stops]_migrateVars
  <2>. SUFFICES ASSUME MInv, MigrateNext, Turns, NEW m \in Migrations, NEW p \in lockedBy,
                       record[m].is = "none", record'[m].is # "none"
       PROVE  /\ record'[m].hash = Files[p][m] /\ m \in Own(p)
              /\ \A k \in Migrations : ~Changed(p, k)
    OBVIOUS
  <2>1. ASSUME NEW q \in Procs, MigrateStep(q)
        PROVE  /\ record'[m].hash = Files[p][m] /\ m \in Own(p)
               /\ \A k \in Migrations : ~Changed(p, k)
    <3>1. Works(q) /\ UpInv(q) /\ m \in Own(q) /\ record'[m].hash = Files[q][m]
      BY <2>1, BegunBy
    <3>2. p = q
      BY <3>1 DEF MInv, LockedInv
    <3>. QED
      BY <3>1, <3>2 DEF UpInv
  <2>2. ASSUME NEW n \in Migrations, MendByHand(n)
        PROVE  FALSE
    BY <2>2 DEF MendByHand, MInv, MigrateTypeOK
  <2>. QED
    BY <2>1, <2>2 DEF MigrateNext
<1>2. ChangedStops <=> [][Stops]_migrateVars
  BY DEF ChangedStops
<1>. QED
  BY <1>1, <1>2, MigrateInitInv, MigrateStepKeeps, PTL DEF MigrateSpec

\* As no answer is lost of a statement MySQL carried out, a migration's row says
\* which of its statements are in force, at any time: over a transaction
\* whether a lock is held or not, and in MySQL as long as its lock is. What's
\* excepted is one that was undone when it wasn't there, as Undo doesn't look
\* again; under a lock that's never lost none ever is (the starters'
\* migrations_db.go, Undo and Run; migrate.go, Down).
THEOREM RecordIsTrue == ~LostAnswers => (MigrateSpec => []RecordTrue)
<1>. SUFFICES ASSUME ~LostAnswers
     PROVE  MigrateSpec => []RecordTrue
  OBVIOUS
<1>1. MInv /\ RecordInv => RecordTrue
  BY DEF RecordInv
<1>2. MInv /\ RecordInv /\ [MigrateNext]_migrateVars => (MInv /\ RecordInv)'
  BY MigrateStepKeeps, RecordStepKeeps
<1>. QED
  BY <1>1, <1>2, MigrateInitInv, PTL DEF MigrateSpec
=============================================================================
