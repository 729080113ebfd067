----------------------------- MODULE CacheStore -----------------------------
(***************************************************************************)
(* What package cache keeps its values and its locks in: memoryStore, or   *)
(* the starters' cache table.  Each operation is one step of the store,    *)
(* under its mutex or as one statement, with a time its caller read.       *)
(***************************************************************************)
EXTENDS Clock

CONSTANTS
    NoRow,       \* what a key with no row has
    Ttl          \* how long a value, or a lock, is kept

ASSUME CacheAssumption == Ttl \in Nat \ {0}

\* A row is a value, or a lock's owner, and when it expires.
Row(v, now) == [value |-> v, expires |-> now + Ttl]

\* row has a value that hasn't expired by now, as Get and Add look at it.
Live(row, now) == row # NoRow /\ now < row.expires

\* mutant: whatever the row's value is, it's deleted.
WithoutAny(row, v) == NoRow

\* What DeleteIf leaves of row.
Without(row, v) == IF row # NoRow /\ row.value = v THEN NoRow ELSE row

\* The hourly job, or a sweep as another key is set, drops a row that has
\* expired by a time read before.
Pruned(row, now) == IF Live(row, now) THEN row ELSE NoRow
=============================================================================
