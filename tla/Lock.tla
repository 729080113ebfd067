-------------------------------- MODULE Lock --------------------------------
(***************************************************************************)
(* cache.Lock of one name: each contender, on any instance, has a Lock of  *)
(* its own, with an owner of its own.  The lock is a row of the cache's    *)
(* store, with the owner of who took it last, until its time is up.        *)
(***************************************************************************)
EXTENDS CacheStore

CONSTANTS
    Contenders,   \* those who take the lock, each an owner
    LockFaults    \* whether the store may fail, and a holder be killed

ASSUME LockAssumption ==
    /\ LockFaults \in BOOLEAN
    /\ NoRow \notin [value : Contenders, expires : Nat]

VARIABLES
    lockRow,      \* the store's, of the lock
    lock          \* lock[l]: where contender l is

lockVars == <<clock, lockRow, lock>>

-----------------------------------------------------------------------------
(* Try, Wait and Release                                                   *)

\* now is what Try read of the clock.
LockStates == [at : {"idle", "try", "waiting", "held"}, now : 0..MaxTime]

NotHeld == [at |-> "idle", now |-> 0]

Be(l, at, now) == lock' = [lock EXCEPT ![l] = [at |-> at, now |-> now]]

\* Try reads the clock, once for both times it gives the store; Wait calls it
\* again for one who waits.
Try(l) ==
    /\ lock[l].at \in {"idle", "waiting"}
    /\ Be(l, "try", clock)
    /\ UNCHANGED <<clock, lockRow>>

\* The store's Add: no one has the lock at the time Try read, so it's l's.
\* With its answer lost, no one knows.
AddTakes(l) ==
    /\ lock[l].at = "try" /\ ~Live(lockRow, lock[l].now)
    /\ lockRow' = Row(l, lock[l].now)
    /\ \/ Be(l, "held", lock[l].now)
       \/ LockFaults /\ lock' = [lock EXCEPT ![l] = NotHeld]
    /\ UNCHANGED clock

\* Someone has it: Try returns false, and Wait waits to ask again.
AddRefuses(l) ==
    /\ lock[l].at = "try" /\ Live(lockRow, lock[l].now)
    /\ Be(l, "waiting", 0) \/ Be(l, "idle", 0)
    /\ UNCHANGED <<clock, lockRow>>

\* The store fails with nothing done, or a waiter's context is done.
GivesUp(l) ==
    /\ (LockFaults /\ lock[l].at = "try") \/ lock[l].at = "waiting"
    /\ Be(l, "idle", 0)
    /\ UNCHANGED <<clock, lockRow>>

\* mutant: the lock is let go of, whoever has it.
ReleaseAny(l) ==
    /\ lock[l].at = "held"
    /\ lockRow' = NoRow
    /\ Be(l, "idle", 0)
    /\ UNCHANGED clock

\* l lets go, whether its time is up or not, and only of what's l's.
Release(l) ==
    /\ lock[l].at = "held"
    /\ lockRow' = Without(lockRow, l)
    /\ Be(l, "idle", 0)
    /\ UNCHANGED clock

\* l is killed as it has the lock, or the store fails as it lets go: the lock
\* stays until its time is up. One started again has another owner; that it's
\* l here too makes no difference, as l never takes a row for one it has.
HolderDies(l) ==
    /\ LockFaults /\ lock[l].at = "held"
    /\ Be(l, "idle", 0)
    /\ UNCHANGED <<clock, lockRow>>

PruneLock ==
    /\ lockRow # NoRow /\ Pruned(lockRow, clock) # lockRow
    /\ lockRow' = Pruned(lockRow, clock)
    /\ UNCHANGED <<clock, lock>>

LockTick == Tick /\ UNCHANGED <<lockRow, lock>>

Contend(l) ==
    Try(l) \/ AddTakes(l) \/ AddRefuses(l) \/ GivesUp(l) \/ Release(l) \/ HolderDies(l)

LockInit ==
    /\ clock = 0
    /\ lockRow = NoRow
    /\ lock = [l \in Contenders |-> NotHeld]

LockNext == PruneLock \/ LockTick \/ \E l \in Contenders : Contend(l)

LockSpec == LockInit /\ [][LockNext]_lockVars

-----------------------------------------------------------------------------
(* Properties                                                              *)

\* Types, of every variable.
LockTypeOK ==
    /\ clock \in 0..MaxTime
    /\ lockRow = NoRow \/ lockRow \in [value : Contenders, expires : Nat]
    /\ lock \in [Contenders -> LockStates]

\* l has the lock, and its time isn't up.
Holds(l) == lock[l].at = "held" /\ clock < lock[l].now + Ttl

\* "one holder has it at a time", of those whose time isn't up: though Try
\* goes by a time it read before, holders outlast their time and let go late,
\* the store fails before and after its effect, and holders die (Lock, Try,
\* Release).
OneHolder == \A l, m \in Contenders : Holds(l) /\ Holds(m) => l = m

\* The row of one whose time isn't up is its own: who released late, or was
\* told to wait, hasn't taken it away.
HoldersRow == \A l \in Contenders : Holds(l) => lockRow = Row(l, lock[l].now)

LockInv == LockTypeOK /\ OneHolder /\ HoldersRow

\* A lock is let go of, or its time is up, before another has it.
LockIsMutex == INSTANCE Mutex WITH holders <- {l \in Contenders : Holds(l)}

ImplementsMutex == LockIsMutex!Spec
=============================================================================
