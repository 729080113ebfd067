---------------------------- MODULE SharedProofs ----------------------------
(***************************************************************************)
(* What is proved of Lock, Throttle and Presence, which instances share,   *)
(* for any number of those who share them and any times: the holders of a  *)
(* lock whose time isn't up hold it one at a time, so that it's the Mutex  *)
(* it's taken for; no try over the most is let in, nor more within a       *)
(* window than two windows'; and a page that's open is on its channel, as  *)
(* those who read who's there are shown. With Hub, Listening and Migrate,  *)
(* proved elsewhere, they're composed at the end, as the run has them.     *)
(***************************************************************************)
EXTENDS MCShared, BroadcastProofs, MigrateProofs, FiniteSetTheorems, TLAPS

USE LockAssumption, CacheAssumption, ClockAssumption

\* What Try read of the clock isn't after it; with LockInv this is inductive.
LockIInv == LockInv /\ \A l \in Contenders : lock[l].now <= clock

LEMMA LockTypes ==
    ASSUME LockTypeOK, NEW l \in Contenders
    PROVE  /\ lock[l] \in LockStates
           /\ lock[l].at \in {"idle", "try", "waiting", "held"}
           /\ lock[l].now \in Nat /\ lock[l].now <= MaxTime
           /\ clock \in Nat
BY DEF LockTypeOK, LockStates

LEMMA RowType ==
    ASSUME NEW l \in Contenders, NEW now \in Nat
    PROVE  /\ Row(l, now) \in [value : Contenders, expires : Nat]
           /\ Row(l, now) # NoRow
           /\ Row(l, now).value = l /\ Row(l, now).expires = now + Ttl
<1>1. now + Ttl \in Nat
  OBVIOUS
<1>. QED
  BY <1>1 DEF Row

\* The row is its holder's while its time isn't up, by any clock that's behind.
LEMMA HeldLives ==
    ASSUME LockInv, NEW l \in Contenders, Holds(l), NEW now \in Nat, now <= clock
    PROVE  Live(lockRow, now)
<1>1. lockRow = Row(l, lock[l].now)
  BY DEF LockInv, HoldersRow
<1>2. lockRow # NoRow /\ lockRow.expires = lock[l].now + Ttl
  BY <1>1, LockTypes, RowType DEF LockInv
<1>. QED
  BY <1>2, LockTypes DEF LockInv, Holds, Live

LEMMA LockInitInv == LockInit => LockIInv
BY DEF LockInit, LockIInv, LockInv, LockTypeOK, OneHolder, HoldersRow, Holds, NotHeld, LockStates

\* A step of one contender that leaves it, and no row of another's, no holder.
LEMMA NotHeldKeeps ==
    ASSUME LockIInv, NEW l \in Contenders, NEW is \in LockStates, is.at # "held", is.now <= clock,
           lock' = [lock EXCEPT ![l] = is], clock' = clock,
           lockRow' = lockRow \/ (lockRow' = NoRow /\ \A m \in Contenders \ {l} : ~ Holds(m))
    PROVE  LockIInv' /\ \A m \in Contenders : Holds(m)' => Holds(m)
<1>1. \A m \in Contenders : Holds(m)' => m # l /\ Holds(m) /\ lock'[m] = lock[m]
  BY DEF LockIInv, LockInv, LockTypeOK, Holds
<1>2. LockTypeOK'
  BY DEF LockIInv, LockInv, LockTypeOK
<1>3. OneHolder'
  BY <1>1 DEF OneHolder, LockIInv, LockInv
<1>4. HoldersRow'
  <2> SUFFICES ASSUME NEW m \in Contenders, Holds(m)' PROVE lockRow' = Row(m, lock'[m].now)
    BY DEF HoldersRow, Row
  <2>1. m # l /\ Holds(m) /\ lock'[m] = lock[m]
    BY <1>1
  <2>2. lockRow' = lockRow
    BY <2>1
  <2>. QED
    BY <2>1, <2>2 DEF LockIInv, LockInv, HoldersRow
<1>5. \A m \in Contenders : lock'[m].now <= clock'
  BY DEF LockIInv, LockInv, LockTypeOK
<1>. QED
  BY <1>1, <1>2, <1>3, <1>4, <1>5 DEF LockIInv, LockInv

\* No one holds the lock where the store lets l take it, and then no one but l.
LEMMA TakesKeeps ==
    ASSUME LockIInv, NEW l \in Contenders, AddTakes(l)
    PROVE  /\ LockIInv'
           /\ \A m \in Contenders : ~ Holds(m)
           /\ \A m \in Contenders : Holds(m)' => m = l
<1>. DEFINE now == lock[l].now
<1>1. now \in Nat /\ now <= clock /\ now <= MaxTime
  BY LockTypes DEF LockIInv, LockInv
<1>2. \A m \in Contenders : ~ Holds(m)
  BY <1>1, HeldLives DEF AddTakes, LockIInv
<1>3. \/ lock' = [lock EXCEPT ![l] = [at |-> "held", now |-> now]]
      \/ lock' = [lock EXCEPT ![l] = NotHeld]
  BY DEF AddTakes, Be
<1>4. clock' = clock /\ lockRow' = Row(l, now)
  BY DEF AddTakes
<1>5. LockTypeOK'
  <2>1. [at |-> "held", now |-> now] \in LockStates /\ NotHeld \in LockStates
    BY <1>1 DEF LockStates, NotHeld
  <2>2. lock' \in [Contenders -> LockStates]
    BY <1>3, <2>1 DEF LockIInv, LockInv, LockTypeOK
  <2>3. lockRow' \in [value : Contenders, expires : Nat]
    BY <1>1, <1>4, RowType
  <2>. QED
    BY <1>4, <2>2, <2>3 DEF LockIInv, LockInv, LockTypeOK
<1>6. \A m \in Contenders \ {l} : lock'[m] = lock[m]
  BY <1>3 DEF LockIInv, LockInv, LockTypeOK
<1>7. \A m \in Contenders : Holds(m)' => m = l
  BY <1>2, <1>4, <1>6 DEF Holds
<1>8. OneHolder'
  BY <1>7 DEF OneHolder
<1>9. lock'[l].at = "held" => lock'[l].now = now
  BY <1>3 DEF LockIInv, LockInv, LockTypeOK, NotHeld
<1>10. HoldersRow'
  BY <1>4, <1>7, <1>9 DEF HoldersRow, Holds, Row
<1>11. \A m \in Contenders : lock'[m].now <= clock'
  BY <1>1, <1>3, <1>4, <1>6 DEF LockIInv, LockInv, LockTypeOK, NotHeld
<1>. QED
  BY <1>2, <1>5, <1>7, <1>8, <1>10, <1>11 DEF LockIInv, LockInv

\* l lets go of no one's but its own.
LEMMA ReleaseKeeps ==
    ASSUME LockIInv, NEW l \in Contenders, Release(l)
    PROVE  LockIInv' /\ \A m \in Contenders : Holds(m)' => Holds(m)
<1>1. lock' = [lock EXCEPT ![l] = [at |-> "idle", now |-> 0]] /\ clock' = clock
  BY DEF Release, Be
<1>2. [at |-> "idle", now |-> 0] \in LockStates
  BY DEF LockStates
<1>3. lockRow' = lockRow \/ (lockRow' = NoRow /\ lockRow.value = l)
  BY DEF Release, Without
<1>4. ASSUME NEW m \in Contenders \ {l}, Holds(m) PROVE lockRow.value # l
  <2>1. lockRow = Row(m, lock[m].now)
    BY <1>4 DEF LockIInv, LockInv, HoldersRow
  <2>. QED
    BY <2>1, <1>4, LockTypes, RowType DEF LockIInv, LockInv
<1>5. 0 <= clock
  BY LockTypes DEF LockIInv, LockInv
<1>. QED
  BY <1>1, <1>2, <1>3, <1>4, <1>5, NotHeldKeeps

\* The other steps of a contender leave the row.
LEMMA QuietKeeps ==
    ASSUME LockIInv, NEW l \in Contenders,
           Try(l) \/ AddRefuses(l) \/ GivesUp(l) \/ HolderDies(l)
    PROVE  LockIInv' /\ \A m \in Contenders : Holds(m)' => Holds(m)
<1>1. lockRow' = lockRow /\ clock' = clock
  BY DEF Try, AddRefuses, GivesUp, HolderDies
<1>2. clock \in 0..MaxTime
  BY DEF LockIInv, LockInv, LockTypeOK
<1>3. PICK is \in LockStates :
          is.at # "held" /\ is.now <= clock /\ lock' = [lock EXCEPT ![l] = is]
  <2>1. CASE Try(l)
    <3>1. [at |-> "try", now |-> clock] \in LockStates
      BY <1>2 DEF LockStates
    <3>2. lock' = [lock EXCEPT ![l] = [at |-> "try", now |-> clock]]
      BY <2>1 DEF Try, Be
    <3>3. [at |-> "try", now |-> clock].at # "held" /\ [at |-> "try", now |-> clock].now <= clock
      BY <1>2
    <3>. QED
      BY <3>1, <3>2, <3>3
  <2>2. CASE AddRefuses(l) \/ GivesUp(l) \/ HolderDies(l)
    <3>1. /\ [at |-> "idle", now |-> 0] \in LockStates
          /\ [at |-> "waiting", now |-> 0] \in LockStates
      BY DEF LockStates
    <3>. QED
      BY <2>2, <3>1, <1>2 DEF AddRefuses, GivesUp, HolderDies, Be
  <2>. QED
    BY <2>1, <2>2
<1>. QED
  BY <1>1, <1>3, NotHeldKeeps

\* Time goes by, and what's pruned has expired.
LEMMA TimeKeeps ==
    ASSUME LockIInv, LockTick \/ PruneLock \/ UNCHANGED lockVars
    PROVE  LockIInv' /\ \A m \in Contenders : Holds(m)' => Holds(m)
<1>1. lock' = lock /\ clock \in Nat
  BY DEF LockTick, PruneLock, lockVars, LockIInv, LockInv, LockTypeOK
<1>2. clock' \in 0..MaxTime /\ clock <= clock'
  BY <1>1 DEF LockTick, Tick, PruneLock, lockVars, LockIInv, LockInv, LockTypeOK
<1>3. \A m \in Contenders : Holds(m)' => Holds(m)
  BY <1>1, <1>2, LockTypes DEF Holds, LockIInv, LockInv
<1>4. lockRow' = lockRow \/ (lockRow' = NoRow /\ \A m \in Contenders : ~ Holds(m))
  <2>1. CASE PruneLock
    BY <2>1, <1>1, HeldLives DEF PruneLock, Pruned, LockIInv
  <2>2. CASE LockTick \/ UNCHANGED lockVars
    BY <2>2 DEF LockTick, lockVars
  <2>. QED
    BY <2>1, <2>2
<1>5. LockTypeOK'
  BY <1>1, <1>2, <1>4 DEF LockIInv, LockInv, LockTypeOK
<1>6. OneHolder'
  BY <1>3 DEF OneHolder, LockIInv, LockInv
<1>7. HoldersRow'
  BY <1>1, <1>3, <1>4 DEF HoldersRow, Row, LockIInv, LockInv
<1>8. \A m \in Contenders : lock'[m].now <= clock'
  BY <1>1, <1>2, LockTypes DEF LockIInv, LockInv
<1>. QED
  BY <1>3, <1>5, <1>6, <1>7, <1>8 DEF LockIInv, LockInv

LEMMA LockStepKeeps == LockIInv /\ [LockNext]_lockVars => LockIInv'
<1> SUFFICES ASSUME LockIInv, [LockNext]_lockVars PROVE LockIInv'
  OBVIOUS
<1>1. ASSUME NEW l \in Contenders, Contend(l) PROVE LockIInv'
  BY <1>1, TakesKeeps, ReleaseKeeps, QuietKeeps DEF Contend
<1>2. CASE LockTick \/ PruneLock \/ UNCHANGED lockVars
  BY <1>2, TimeKeeps
<1>. QED
  BY <1>1, <1>2 DEF LockNext

-----------------------------------------------------------------------------

\* Lock's types hold, of every contender at every step.
THEOREM LockTypeCorrect == LockSpec => []LockTypeOK
<1>1. LockIInv => LockTypeOK
  BY DEF LockIInv, LockInv
<1>. QED
  BY <1>1, LockInitInv, LockStepKeeps, PTL DEF LockSpec

\* "One holder has it at a time" (lock.go), of those whose time isn't up,
\* whatever fails, and whoever is late.
THEOREM LockExcludes == LockSpec => []OneHolder
<1>1. LockIInv => OneHolder
  BY DEF LockIInv, LockInv
<1>. QED
  BY <1>1, LockInitInv, LockStepKeeps, PTL DEF LockSpec

\* The lock's row is its holder's until its time is up (lock.go, Release): no
\* late Release, and no prune, takes it away.
THEOREM LockHoldersRow == LockSpec => []HoldersRow
<1>1. LockIInv => HoldersRow
  BY DEF LockIInv, LockInv
<1>. QED
  BY <1>1, LockInitInv, LockStepKeeps, PTL DEF LockSpec

-----------------------------------------------------------------------------
(* Lock is a Mutex: the mapping takes those who hold it for its holders.   *)

Holders == {l \in Contenders : Holds(l)}

\* Those who hold it, where no one takes it, are those who did, or no one.
LEMMA FewerHold ==
    ASSUME LockIInv, \A m \in Contenders : Holds(m)' => Holds(m)
    PROVE  Holders' = Holders \/ (Holders # {} /\ Holders' = {})
<1>1. Holders' \subseteq Holders
  BY DEF Holders
<1>2. \A l, m \in Holders : l = m
  BY DEF Holders, LockIInv, LockInv, OneHolder
<1>. QED
  BY <1>1, <1>2

LEMMA StepIsMutex ==
    LockIInv /\ [LockNext]_lockVars => [LockIsMutex!Next]_Holders
<1> SUFFICES ASSUME LockIInv, [LockNext]_lockVars PROVE [LockIsMutex!Next]_Holders
  OBVIOUS
<1>1. ASSUME NEW l \in Contenders, AddTakes(l) PROVE [LockIsMutex!Next]_Holders
  <2>1. Holders = {} /\ Holders' \subseteq {l}
    BY <1>1, TakesKeeps DEF Holders
  <2>. QED
    BY <2>1 DEF LockIsMutex!Next, LockIsMutex!Take, Holders
<1>2. ASSUME \A m \in Contenders : Holds(m)' => Holds(m) PROVE [LockIsMutex!Next]_Holders
  BY <1>2, FewerHold DEF LockIsMutex!Next, LockIsMutex!LetGo, Holders
<1>3. ASSUME NEW l \in Contenders, Contend(l), ~ AddTakes(l) PROVE [LockIsMutex!Next]_Holders
  BY <1>2, <1>3, ReleaseKeeps, QuietKeeps DEF Contend
<1>4. CASE LockTick \/ PruneLock \/ UNCHANGED lockVars
  BY <1>2, <1>4, TimeKeeps
<1>. QED
  BY <1>1, <1>3, <1>4 DEF LockNext

\* A Lock implements the lock docs/cache.md promises: one holder, and no other
\* until it has let go or its time is up.
THEOREM LockImplementsMutex == LockSpec => ImplementsMutex
<1>1. LockInit => LockIsMutex!Init
  BY DEF LockInit, LockIsMutex!Init, Holds, NotHeld
<1>2. LockIInv /\ [LockNext]_lockVars => [LockIsMutex!Next]_{l \in Contenders : Holds(l)}
  BY StepIsMutex DEF Holders
<1>. QED
  BY <1>1, <1>2, LockInitInv, LockStepKeeps, PTL DEF LockSpec, ImplementsMutex, LockIsMutex!Spec

-----------------------------------------------------------------------------
(* Throttle                                                                *)

USE ThrottleAssumption

\* The whole milliseconds of a time are no more than it, and less by less than
\* one; those of a later time are no fewer.
LEMMA MilliOf ==
    ASSUME NEW t \in Nat
    PROVE  /\ Milli(t) \in Nat /\ Milli(t) <= t /\ t < Milli(t) + Grain
           /\ \A u \in Nat : t <= u => Milli(t) <= Milli(u)
           /\ Milli(Milli(t)) = Milli(t)
<1>1. ASSUME NEW a \in Nat
      PROVE  /\ a \div Grain \in Nat /\ a % Grain \in 0..(Grain - 1)
             /\ a = Grain * (a \div Grain) + (a % Grain)
  <2>1. a \div Grain \in Nat /\ a % Grain \in 0..(Grain - 1)
    OBVIOUS
  <2>2. a = Grain * (a \div Grain) + (a % Grain)
    BY <2>1
  <2>. QED
    BY <2>1, <2>2
<1>2. ASSUME NEW a \in Nat
      PROVE  Milli(a) \in Nat /\ Milli(a) <= a /\ a < Milli(a) + Grain
  BY <1>1 DEF Milli
<1>3. ASSUME NEW q \in Nat PROVE (q * Grain) \div Grain = q
  OBVIOUS
<1>4. Milli(Milli(t)) = Milli(t)
  BY <1>1, <1>3 DEF Milli
<1>5. ASSUME NEW u \in Nat, t <= u PROVE Milli(t) <= Milli(u)
  <2>. DEFINE a == t \div Grain
              b == u \div Grain
  <2>1. a \in Nat /\ b \in Nat /\ a * Grain <= t /\ u < b * Grain + Grain
    BY <1>1, <1>2 DEF Milli
  <2>2. a <= b
    <3> SUFFICES ASSUME b + 1 <= a PROVE FALSE
      BY <2>1
    <3>. HIDE DEF a, b
    <3>1. (b + 1) * Grain <= a * Grain
      BY <2>1
    <3>2. (b + 1) * Grain = b * Grain + Grain
      BY <2>1
    <3>. QED
      BY <1>5, <2>1, <3>1, <3>2
  <2>. HIDE DEF a, b
  <2>3. a * Grain <= b * Grain
    BY <2>1, <2>2
  <2>. QED
    BY <2>3 DEF Milli, a, b
<1>. QED
  BY <1>2, <1>4, <1>5

\* A window ends in whole milliseconds, so one that's not over by the
\* milliseconds of a time ends after the time itself.
EndsInv == tries # NoTries => Milli(tries.ends) = tries.ends

TInv == ThrottleTypeOK /\ NoneOverMax /\ EndsInv

LEMMA CountedType ==
    ASSUME TInv, NEW now \in Nat
    PROVE  /\ Counted(now) \in [n : Nat \ {0}, ends : Nat]
           /\ Milli(Counted(now).ends) = Counted(now).ends
           /\ Counted(now).n > Max => Counted(now).ends > now
<1>1. CASE Over(now)
  <2>1. Counted(now) = [n |-> 1, ends |-> Milli(now + Window)]
    BY <1>1 DEF Counted
  <2>2. now + Window \in Nat
    OBVIOUS
  <2>3. Milli(now + Window) \in Nat /\ Milli(Milli(now + Window)) = Milli(now + Window)
    BY <2>2, MilliOf
  <2>. QED
    BY <2>1, <2>3
<1>2. CASE ~Over(now)
  <2>1. tries # NoTries /\ tries \in [n : Nat \ {0}, ends : Nat] /\ Milli(tries.ends) = tries.ends
    BY <1>2 DEF Over, TInv, ThrottleTypeOK, EndsInv
  <2>2. Counted(now) = [n |-> tries.n + 1, ends |-> tries.ends]
    BY <1>2, <2>1 DEF Counted
  <2>3. tries.ends \in Nat /\ tries.n \in Nat /\ Milli(now) \in Nat
    BY <2>1, MilliOf
  <2>4. Milli(now) < tries.ends
    BY <1>2, <2>1, <2>3 DEF Over
  <2>5. now < tries.ends
    <3> SUFFICES ASSUME tries.ends <= now PROVE FALSE
      BY <2>3
    <3>1. Milli(tries.ends) <= Milli(now)
      BY <2>3, MilliOf
    <3>. QED
      BY <2>1, <2>3, <2>4, <3>1
  <2>. QED
    BY <2>1, <2>2, <2>3, <2>5
<1>. QED
  BY <1>1, <1>2

LEMMA OutType == Out \in LoginStates /\ Out.at = "idle"
BY DEF Out, LoginStates

LEMMA ThrottleInitInv ==
    ASSUME ThrottleInit
    PROVE  TInv
<1>1. ThrottleTypeOK
  BY OutType DEF ThrottleInit, ThrottleTypeOK
<1>. QED
  BY <1>1, OutType DEF ThrottleInit, TInv, NoneOverMax, EndsInv

\* A login's step, of r's own, where the row is left, or goes, or counts r's.
LEMMA HitKeeps ==
    ASSUME TInv, NEW r \in Logins, Hit(r)
    PROVE  TInv'
<1>. DEFINE now == login[r].now
            row == Counted(now)
            wait == IF row.n <= Max THEN 0 ELSE row.ends - now
            is == [at |-> IF wait > 0 THEN "refused" ELSE "in", now |-> now, n |-> row.n]
<1>1. /\ login \in [Logins -> LoginStates] /\ now \in Nat
      /\ hits \in 0..MaxHits /\ hits < MaxHits /\ hits' = hits + 1 /\ clock' = clock
      /\ clock \in 0..MaxTime /\ lets \subseteq (0..MaxHits) \X (0..MaxTime)
  BY DEF TInv, ThrottleTypeOK, Hit, LoginStates
<1>2. /\ tries' = row
      /\ \/ /\ login' = [login EXCEPT ![r] = is]
            /\ lets' \subseteq lets \cup {<<hits, clock>>}
         \/ login' = [login EXCEPT ![r] = Out] /\ lets' = lets
  BY DEF Hit
<1>3. /\ row \in [n : Nat \ {0}, ends : Nat] /\ Milli(row.ends) = row.ends
      /\ row.n > Max => row.ends > now
  BY <1>1, CountedType
<1>. HIDE DEF row, now
<1>4. is \in LoginStates /\ (is.at = "in" => is.n <= Max)
  <2>1. row.n \in Nat /\ row.ends \in Nat
    BY <1>3
  <2>2. row.n > Max => wait > 0
    BY <1>1, <1>3, <2>1
  <2>. QED
    BY <1>1, <2>1, <2>2 DEF LoginStates
<1>. HIDE DEF is
<1>5. PICK s \in LoginStates : login' = [login EXCEPT ![r] = s] /\ (s.at = "in" => s.n <= Max)
  BY <1>2, <1>4, OutType
<1>6. lets' \subseteq (0..MaxHits) \X (0..MaxTime)
  BY <1>1, <1>2
<1>7. hits' \in 0..MaxHits
  BY <1>1
<1>8. ThrottleTypeOK'
  BY <1>1, <1>2, <1>3, <1>5, <1>6, <1>7 DEF ThrottleTypeOK
<1>9. NoneOverMax'
  BY <1>1, <1>5 DEF TInv, NoneOverMax
<1>10. EndsInv'
  BY <1>2, <1>3 DEF EndsInv
<1>. QED
  BY <1>8, <1>9, <1>10 DEF TInv

LEMMA ThrottleStepKeeps ==
    ASSUME TInv, [ThrottleNext]_throttleVars
    PROVE  TInv'
<1>1. ASSUME NEW r \in Logins, LogIn(r) \/ HitFails(r) \/ Answer(r) \/ Clear(r)
      PROVE  TInv'
  <2>1. [at |-> "try", now |-> clock, n |-> 0] \in LoginStates
    BY DEF LoginStates, TInv, ThrottleTypeOK
  <2>2. PICK s \in LoginStates : login' = [login EXCEPT ![r] = s] /\ s.at # "in"
    BY <1>1, <2>1, OutType DEF LogIn, HitFails, Answer, Clear
  <2>3. UNCHANGED <<clock, hits>> /\ tries' \in {tries, NoTries} /\ lets' \in {lets, {}}
    BY <1>1 DEF LogIn, HitFails, Answer, Clear
  <2>4. ThrottleTypeOK'
    BY <2>2, <2>3 DEF TInv, ThrottleTypeOK
  <2>5. NoneOverMax'
    BY <2>2 DEF TInv, ThrottleTypeOK, NoneOverMax
  <2>. QED
    BY <2>3, <2>4, <2>5 DEF TInv, EndsInv
<1>2. CASE PruneTries
  <2>1. tries' = NoTries /\ UNCHANGED <<clock, login, hits, lets>>
    BY <1>2 DEF PruneTries
  <2>. QED
    BY <2>1 DEF TInv, ThrottleTypeOK, NoneOverMax, EndsInv
<1>3. CASE ThrottleTick
  <2>1. clock' \in 0..MaxTime /\ UNCHANGED <<tries, login, hits, lets>>
    BY <1>3 DEF ThrottleTick, Tick, TInv, ThrottleTypeOK
  <2>. QED
    BY <2>1 DEF TInv, ThrottleTypeOK, NoneOverMax, EndsInv
<1>4. CASE UNCHANGED throttleVars
  BY <1>4 DEF throttleVars, TInv, ThrottleTypeOK, NoneOverMax, EndsInv
<1>. QED
  BY <1>1, <1>2, <1>3, <1>4, HitKeeps DEF ThrottleNext

\* Throttle's types hold.
THEOREM ThrottleTypeCorrect == ThrottleSpec => []ThrottleTypeOK
<1>1. TInv => ThrottleTypeOK
  BY DEF TInv
<1>. QED
  BY <1>1, ThrottleInitInv, ThrottleStepKeeps, PTL DEF ThrottleSpec

\* No try is let in that isn't one of the first Max of its window, whatever the
\* clock is finer than the milliseconds the window's end is in (Try).
THEOREM NoTryOverMax == ThrottleSpec => []NoneOverMax
<1>1. TInv => NoneOverMax
  BY DEF TInv
<1>. QED
  BY <1>1, ThrottleInitInv, ThrottleStepKeeps, PTL DEF ThrottleSpec

-----------------------------------------------------------------------------
(* The tries let in, and their windows                                     *)

\* How far apart, at most, are tries of which no window lies between.
Within == Window - Lag - Grain

\* Those let in of the window there is, and of those before it, those that are
\* not too long before b.
Current == {e \in lets : tries # NoTries /\ e[1] >= hits - tries.n}
Near(b) == {e \in lets \ Current : e[2] + Within >= b}

\* The window there is began at b: those before it were let in before, and as
\* it began, no more than Max of them were near.
Since(b) ==
    /\ b + Within < tries.ends
    /\ \A e \in Current : e[2] >= b
    /\ \A e \in lets \ Current : e[2] <= b
    /\ Cardinality(Near(b)) <= Max

SinceInv ==
    /\ tries = NoTries => Cardinality(Near(clock)) <= Max
    /\ tries # NoTries => \E b \in 0..clock : Since(b)

\* Who was let in was a try of its own, and one of the first Max of its window.
LetsInv ==
    /\ \A e \in lets : e[1] < hits /\ e[2] <= clock
    /\ \A e, f \in lets : e[1] = f[1] => e = f
    /\ \A e \in Current : e[1] < hits - tries.n + Max

LagInv ==
    \A r \in Logins :
        login[r].at = "try" => login[r].now <= clock /\ clock <= login[r].now + Lag

WindowsInv == TInv /\ LetsInv /\ LagInv /\ SinceInv /\ AtMostTwoWindows

\* Those of Max numbers that follow one another are Max at most.
LEMMA MaxOfMax ==
    ASSUME NEW S, NEW a \in Int, \A e \in S : e[1] \in a..(a + Max - 1),
           \A e, f \in S : e[1] = f[1] => e = f
    PROVE  IsFiniteSet(S) /\ Cardinality(S) <= Max
<1>. DEFINE T == a..(a + Max - 1)
            f == [e \in S |-> e[1]]
<1>1. IsFiniteSet(T) /\ Cardinality(T) = Max
  BY FS_Interval
<1>2. f \in Injection(S, T)
  BY DEF Injection, IsInjective
<1>. HIDE DEF T, f
<1>. QED
  BY <1>1, <1>2, FS_Injection

\* A part of what's Max at most is too.
LEMMA PartOfMax ==
    ASSUME NEW S, NEW m \in Nat, IsFiniteSet(S), Cardinality(S) <= m, NEW T \in SUBSET S
    PROVE  IsFiniteSet(T) /\ Cardinality(T) <= m
BY FS_Subset, FS_CardinalityType

LEMMA TwiceMax ==
    ASSUME NEW S, NEW T, IsFiniteSet(S), IsFiniteSet(T), Cardinality(S) <= Max,
           Cardinality(T) <= Max, NEW U \in SUBSET (S \cup T)
    PROVE  Cardinality(U) <= 2 * Max
<1>1. IsFiniteSet(S \cup T)
      /\ Cardinality(S \cup T) = Cardinality(S) + Cardinality(T) - Cardinality(S \cap T)
  BY FS_Union
<1>2. IsFiniteSet(S \cap T)
  BY FS_Intersection
<1>3. Cardinality(S \cap T) \in Nat /\ Cardinality(S) \in Nat /\ Cardinality(T) \in Nat
  BY <1>2, FS_CardinalityType
<1>4. Cardinality(S \cup T) <= 2 * Max
  BY <1>1, <1>3
<1>. QED
  BY <1>1, <1>4, PartOfMax

LEMMA LetsTypes ==
    ASSUME ThrottleTypeOK
    PROVE  /\ clock \in Nat /\ hits \in Nat
           /\ tries # NoTries => tries.n \in Nat /\ tries.n >= 1 /\ tries.ends \in Nat
           /\ \A e \in lets : e[1] \in Nat /\ e[2] \in Nat
           /\ \A S \in SUBSET lets : IsFiniteSet(S)
           /\ Within \in Int
<1>1. clock \in Nat /\ hits \in Nat /\ \A e \in lets : e[1] \in Nat /\ e[2] \in Nat
  BY DEF ThrottleTypeOK
<1>2. tries # NoTries => tries.n \in Nat /\ tries.n >= 1 /\ tries.ends \in Nat
  BY DEF ThrottleTypeOK
<1>3. IsFiniteSet(lets)
  <2>1. IsFiniteSet(0..MaxHits) /\ IsFiniteSet(0..MaxTime)
    BY FS_Interval
  <2>2. IsFiniteSet((0..MaxHits) \X (0..MaxTime))
    BY <2>1, FS_Product
  <2>. QED
    BY <2>2, FS_Subset DEF ThrottleTypeOK
<1>4. \A S \in SUBSET lets : IsFiniteSet(S)
  BY <1>3, FS_Subset
<1>. QED
  BY <1>1, <1>2, <1>4 DEF Within

LEMMA CurrentFew ==
    ASSUME ThrottleTypeOK, LetsInv
    PROVE  IsFiniteSet(Current) /\ Cardinality(Current) <= Max
<1>1. CASE tries = NoTries
  <2>1. Current = {}
    BY <1>1 DEF Current
  <2>. QED
    BY <2>1, FS_EmptySet
<1>2. CASE tries # NoTries
  <2>. DEFINE a == hits - tries.n
  <2>1. a \in Int
    BY <1>2, LetsTypes
  <2>2. \A e \in Current : e[1] \in a..(a + Max - 1)
    BY <1>2, LetsTypes DEF Current, LetsInv
  <2>3. \A e, f \in Current : e[1] = f[1] => e = f
    BY DEF Current, LetsInv
  <2>. HIDE DEF a
  <2>. QED
    BY <2>1, <2>2, <2>3, MaxOfMax
<1>. QED
  BY <1>1, <1>2

\* As the window is over by a time that isn't after the clock, no more than Max
\* of those let in are near the clock.
LEMMA OverFew ==
    ASSUME WindowsInv, NEW now \in Nat, now <= clock, Over(now)
    PROVE  Cardinality({e \in lets : e[2] + Within >= clock}) <= Max
<1>. DEFINE N == {e \in lets : e[2] + Within >= clock}
<1>1. CASE tries = NoTries
  <2>1. N = Near(clock)
    BY <1>1 DEF Near, Current
  <2>. QED
    BY <1>1, <2>1 DEF WindowsInv, SinceInv
<1>2. CASE tries # NoTries
  <2>1. PICK b \in 0..clock : Since(b)
    BY <1>2 DEF WindowsInv, SinceInv
  <2>2. tries.ends <= now
    BY <1>2, MilliOf, LetsTypes DEF Over, WindowsInv, TInv
  <2>3. N \subseteq Current
    <3>1. SUFFICES ASSUME NEW e \in lets, e[2] + Within >= clock, e \notin Current
          PROVE  FALSE
      OBVIOUS
    <3>2. e[2] <= b /\ b + Within < tries.ends
      BY <2>1, <3>1 DEF Since
    <3>. QED
      BY <1>2, <2>2, <3>1, <3>2, LetsTypes DEF WindowsInv, TInv
  <2>. QED
    BY <2>3, CurrentFew, PartOfMax DEF WindowsInv, TInv
<1>. QED
  BY <1>1, <1>2

\* What a Hit leaves: the try let in, as it is, is the last of its window, which
\* it began, or which goes on.
LEMMA HitLets ==
    ASSUME WindowsInv, NEW r \in Logins, Hit(r)
    PROVE  LetsInv' /\ SinceInv'
<1>. DEFINE now == login[r].now
            row == Counted(now)
            new == <<hits, clock>>
            wait == IF row.n <= Max THEN 0 ELSE row.ends - now
<1>1. /\ now \in Nat /\ now <= clock /\ clock <= now + Lag
      /\ clock \in Nat /\ hits \in Nat /\ hits' = hits + 1 /\ clock' = clock /\ Within \in Int
  BY LetsTypes DEF WindowsInv, TInv, ThrottleTypeOK, LoginStates, Hit, LagInv
<1>2. /\ row \in [n : Nat \ {0}, ends : Nat]
      /\ row.n > Max => row.ends > now
  BY <1>1, CountedType DEF WindowsInv
<1>3. /\ tries' = row
      /\ \/ lets' = lets
         \/ lets' = {e \in lets : clock - e[2] < Window} \cup {new} /\ ~(wait > 0)
  BY DEF Hit
<1>4. lets' \subseteq lets \cup {new} /\ (new \in lets' => new \in lets \/ row.n <= Max)
  <2>. HIDE DEF row, now
  <2>1. ~(wait > 0) => row.n <= Max
    BY <1>1, <1>2
  <2>. QED
    BY <1>3, <2>1
<1>5. new[1] = hits /\ new[2] = clock
  OBVIOUS
<1>6. \A e \in lets : e[1] < hits /\ e[2] <= clock /\ e[1] \in Nat /\ e[2] \in Nat
  BY LetsTypes DEF WindowsInv, TInv, LetsInv
<1>7. new \notin lets
  BY <1>1, <1>5, <1>6
<1>8. tries' # NoTries
  BY <1>2, <1>3
<1>. HIDE DEF row, now, new
<1>9. /\ \A e \in lets' : e[1] < hits' /\ e[2] <= clock'
      /\ \A e, f \in lets' : e[1] = f[1] => e = f
  <2>1. \A e \in lets' : e[1] < hits' /\ e[2] <= clock'
    BY <1>1, <1>4, <1>5, <1>6
  <2>2. \A e, f \in lets' : e[1] = f[1] => e = f
    BY <1>1, <1>4, <1>5, <1>6 DEF WindowsInv, LetsInv
  <2>. QED
    BY <2>1, <2>2
<1>10. CASE Over(now)
  <2>1. row.n = 1 /\ row.ends = Milli(now + Window)
    BY <1>10 DEF Counted, row
  <2>2. clock + Within < tries'.ends
    <3>1. now + Window \in Nat
      BY <1>1
    <3>2. now + Window < Milli(now + Window) + Grain /\ Milli(now + Window) \in Nat
      BY <3>1, MilliOf
    <3>. QED
      BY <1>1, <1>3, <2>1, <3>2 DEF Within
  <2>3. Current' = {e \in lets' : e[1] >= hits}
    BY <1>1, <1>3, <1>8, <2>1 DEF Current
  <2>4. Current' \subseteq {new} /\ lets' \ Current' \subseteq lets
    BY <1>1, <1>4, <1>5, <1>6, <2>3
  <2>5. \A e \in Current' : e[1] < hits' - tries'.n + Max
    BY <1>1, <1>3, <1>5, <2>1, <2>4
  <2>6. Cardinality({e \in lets : e[2] + Within >= clock}) <= Max
    BY <1>1, <1>10, OverFew
  <2>7. Cardinality({e \in lets' \ Current' : e[2] + Within >= clock}) <= Max
    <3>. DEFINE N == {e \in lets : e[2] + Within >= clock}
                M == {e \in lets' \ Current' : e[2] + Within >= clock}
    <3>1. IsFiniteSet(N) /\ M \in SUBSET N
      BY <2>4, LetsTypes DEF WindowsInv, TInv
    <3>. HIDE DEF N, M
    <3>2. Cardinality(N) <= Max
      BY <2>6 DEF N
    <3>3. Cardinality(M) <= Max
      BY <3>1, <3>2, PartOfMax
    <3>. QED
      BY <3>3 DEF M
  <2>8. \A e \in Current' : e[2] >= clock
    BY <1>1, <1>5, <2>4
  <2>9. \A e \in lets' \ Current' : e[2] <= clock
    BY <1>6, <2>4
  <2>10. clock \in 0..clock' /\ Within' = Within
    BY <1>1 DEF Within
  <2>11. \E b \in 0..clock' : Since(b)'
    BY <2>2, <2>7, <2>8, <2>9, <2>10 DEF Since, Near
  <2>. QED
    BY <1>8, <1>9, <2>5, <2>11 DEF LetsInv, SinceInv
<1>11. CASE ~Over(now)
  <2>1. tries # NoTries /\ row = [tries EXCEPT !.n = @ + 1]
    BY <1>11 DEF Over, Counted, row
  <2>2. tries \in [n : Nat \ {0}, ends : Nat]
    BY <2>1 DEF WindowsInv, TInv, ThrottleTypeOK
  <2>3. tries'.n = tries.n + 1 /\ tries'.ends = tries.ends /\ tries.n \in Nat
        /\ hits' - tries'.n = hits - tries.n
    BY <1>1, <1>3, <2>1, <2>2
  <2>4. Current' = {e \in lets' : e[1] >= hits - tries.n}
    BY <1>8, <2>3 DEF Current
  <2>5. Current' \subseteq Current \cup {new} /\ lets' \ Current' \subseteq lets \ Current
    <3>1. Current = {e \in lets : e[1] >= hits - tries.n}
      BY <2>1 DEF Current
    <3>2. new \in lets' => new \in Current'
      BY <1>1, <1>5, <2>3, <2>4
    <3>. QED
      BY <1>4, <2>4, <3>1, <3>2
  <2>6. \A e \in Current' : e[1] < hits' - tries'.n + Max
    <3>1. \A e \in Current : e[1] < hits - tries.n + Max
      BY DEF WindowsInv, LetsInv
    <3>2. new \in Current' => hits < hits - tries.n + Max
      <4>1. new \in Current' => row.n <= Max
        BY <1>4, <1>7 DEF Current
      <4>. QED
        BY <1>1, <1>3, <2>3, <4>1
    <3>. QED
      BY <1>5, <2>3, <2>5, <3>1, <3>2
  <2>7. PICK b \in 0..clock : Since(b)
    BY <2>1 DEF WindowsInv, SinceInv
  <2>8. Cardinality({e \in lets' \ Current' : e[2] + Within >= b}) <= Max
    <3>. DEFINE M == {e \in lets' \ Current' : e[2] + Within >= b}
    <3>1. IsFiniteSet(Near(b)) /\ M \in SUBSET Near(b)
      BY <2>5, LetsTypes DEF Near, WindowsInv, TInv
    <3>. HIDE DEF M
    <3>2. Cardinality(Near(b)) <= Max
      BY <2>7 DEF Since
    <3>3. Cardinality(M) <= Max
      BY <3>1, <3>2, PartOfMax
    <3>. QED
      BY <3>3 DEF M
  <2>9. \A e \in Current' : e[2] >= b
    BY <1>1, <1>5, <2>5, <2>7 DEF Since
  <2>10. \A e \in lets' \ Current' : e[2] <= b
    BY <2>5, <2>7 DEF Since
  <2>11. b + Within < tries'.ends /\ b \in 0..clock' /\ Within' = Within
    BY <1>1, <2>3, <2>7 DEF Since, Within
  <2>12. Since(b)'
    BY <2>8, <2>9, <2>10, <2>11 DEF Since, Near
  <2>. QED
    BY <1>8, <1>9, <2>6, <2>11, <2>12 DEF LetsInv, SinceInv
<1>. QED
  BY <1>10, <1>11

\* Whoever is near one let in just now is of its window, or near its beginning.
LEMMA HitWindows ==
    ASSUME WindowsInv, NEW r \in Logins, Hit(r), LetsInv', SinceInv', ThrottleTypeOK'
    PROVE  AtMostTwoWindows'
<1>1. clock' = clock /\ lets' \subseteq lets \cup {<<hits, clock>>} /\ clock \in Nat /\ Within \in Int
      /\ Within' = Within
  BY LetsTypes DEF Hit, WindowsInv, TInv, Within
<1>2. tries' # NoTries
  BY CountedType DEF Hit, WindowsInv, TInv, ThrottleTypeOK, LoginStates
<1>3. SUFFICES ASSUME NEW t \in 0..clock
      PROVE  Cardinality({e \in lets' : e[2] - t \in 0..Within}) <= 2 * Max
  BY <1>1 DEF AtMostTwoWindows, Within
<1>. DEFINE U == {e \in lets' : e[2] - t \in 0..Within}
            V == {e \in lets : e[2] - t \in 0..Within}
<1>4. Cardinality(V) <= 2 * Max /\ IsFiniteSet(V)
  BY <1>1, LetsTypes DEF WindowsInv, TInv, AtMostTwoWindows, Within
<1>5. \A e \in lets' : e[1] \in Nat /\ e[2] \in Nat
  BY DEF ThrottleTypeOK
<1>6. CASE U \subseteq V
  <2>. HIDE DEF U, V
  <2>1. Cardinality(U) <= 2 * Max
    BY <1>4, <1>6, PartOfMax
  <2>. QED
    BY <2>1 DEF U
<1>7. CASE ~(U \subseteq V)
  <2>1. clock - t <= Within
    BY <1>1, <1>3, <1>7
  <2>2. PICK b \in 0..clock : Since(b)'
    BY <1>1, <1>2 DEF SinceInv
  <2>3. U \subseteq Current' \cup Near(b)'
    BY <1>1, <1>3, <1>5, <2>1, <2>2 DEF Near
  <2>4. IsFiniteSet(lets')
    <3>1. IsFiniteSet(lets) /\ IsFiniteSet(lets \cup {<<hits, clock>>})
      BY LetsTypes, FS_AddElement DEF WindowsInv, TInv
    <3>. QED
      BY <1>1, <3>1, FS_Subset
  <2>5. IsFiniteSet(Current') /\ IsFiniteSet(Near(b)')
    BY <2>4, FS_Subset DEF Current, Near
  <2>6. Cardinality(Current') <= Max
    <3>. DEFINE a == hits' - tries'.n
    <3>1. a \in Int /\ \A e \in Current' : e[1] \in a..(a + Max - 1)
      BY <1>2, <1>5 DEF Current, LetsInv, ThrottleTypeOK
    <3>2. \A e, f \in Current' : e[1] = f[1] => e = f
      BY DEF Current, LetsInv
    <3>. HIDE DEF a
    <3>. QED
      BY <3>1, <3>2, MaxOfMax
  <2>7. Cardinality(Near(b)') <= Max
    BY <2>2 DEF Since
  <2>8. Cardinality(U) <= 2 * Max
    <3>. HIDE DEF U
    <3>. QED
      BY <2>3, <2>5, <2>6, <2>7, TwiceMax
  <2>. QED
    BY <2>8
<1>. QED
  BY <1>6, <1>7

LEMMA WindowsInitInv ==
    ASSUME ThrottleInit
    PROVE  WindowsInv
<1>1. TInv
  BY ThrottleInitInv
<1>2. lets = {} /\ tries = NoTries /\ clock = 0
  BY DEF ThrottleInit
<1>3. Near(clock) = {} /\ Current = {}
  BY <1>2 DEF Near, Current
<1>4. SinceInv
  BY <1>2, <1>3, FS_EmptySet DEF SinceInv
<1>5. LetsInv /\ LagInv
  BY <1>2, <1>3 DEF ThrottleInit, LetsInv, LagInv, Out
<1>6. AtMostTwoWindows
  <2>1. \A t : {e \in lets : e[2] - t \in 0..(Window - Lag - Grain)} = {}
    BY <1>2
  <2>. QED
    BY <2>1, FS_EmptySet DEF AtMostTwoWindows
<1>. QED
  BY <1>1, <1>4, <1>5, <1>6 DEF WindowsInv

\* Other steps of a login let none in, and one that succeeds forgets all.
LEMMA LoginKeeps ==
    ASSUME WindowsInv, TInv', NEW r \in Logins, LogIn(r) \/ HitFails(r) \/ Answer(r) \/ Clear(r)
    PROVE  WindowsInv'
<1>1. clock \in Nat
  BY LetsTypes DEF WindowsInv, TInv
<1>2. PICK s : login' = [login EXCEPT ![r] = s] /\ (s.at = "try" => s.now = clock)
  BY DEF LogIn, HitFails, Answer, Clear, Out
<1>3. UNCHANGED <<clock, hits>>
  BY DEF LogIn, HitFails, Answer, Clear
<1>4. LagInv'
  BY <1>1, <1>2, <1>3 DEF LagInv, WindowsInv, TInv, ThrottleTypeOK
<1>5. CASE UNCHANGED <<tries, lets>>
  BY <1>3, <1>4, <1>5 DEF WindowsInv, LetsInv, SinceInv, Since, Near, Current, Within,
                          AtMostTwoWindows
<1>6. CASE tries' = NoTries /\ lets' = {}
  <2>1. Near(clock)' = {} /\ Current' = {}
    BY <1>6 DEF Near, Current
  <2>2. SinceInv' /\ LetsInv'
    BY <1>6, <2>1, FS_EmptySet DEF SinceInv, LetsInv
  <2>3. AtMostTwoWindows'
    <3>1. \A t : {e \in lets' : e[2] - t \in 0..(Window - Lag - Grain)} = {}
      BY <1>6
    <3>. QED
      BY <3>1, FS_EmptySet DEF AtMostTwoWindows
  <2>. QED
    BY <1>4, <2>2, <2>3 DEF WindowsInv
<1>. QED
  BY <1>5, <1>6 DEF LogIn, HitFails, Answer, Clear

LEMMA PruneTriesKeeps ==
    ASSUME WindowsInv, TInv', PruneTries
    PROVE  WindowsInv'
<1>1. tries' = NoTries /\ UNCHANGED <<clock, login, hits, lets>> /\ Over(clock) /\ clock \in Nat
  BY LetsTypes DEF PruneTries, WindowsInv, TInv
<1>2. Current' = {} /\ Within' = Within
  BY <1>1 DEF Current, Within
<1>3. Near(clock)' = {e \in lets : e[2] + Within >= clock}
  BY <1>1, <1>2 DEF Near
<1>4. SinceInv'
  BY <1>1, <1>3, OverFew DEF SinceInv
<1>5. LetsInv' /\ LagInv' /\ AtMostTwoWindows'
  BY <1>1, <1>2 DEF WindowsInv, LetsInv, LagInv, AtMostTwoWindows
<1>. QED
  BY <1>4, <1>5 DEF WindowsInv

LEMMA ThrottleTickKeeps ==
    ASSUME WindowsInv, TInv', ThrottleTick
    PROVE  WindowsInv'
<1>1. clock' = clock + 1 /\ UNCHANGED <<tries, login, hits, lets>> /\ clock \in Nat
      /\ Within \in Int /\ Within' = Within
  BY LetsTypes DEF ThrottleTick, Tick, WindowsInv, TInv, Within
<1>2. Current' = Current /\ \A b : Near(b)' = Near(b)
  BY <1>1 DEF Current, Near
<1>3. \A e \in lets : e[1] \in Nat /\ e[2] \in Nat /\ e[2] <= clock
  BY LetsTypes DEF WindowsInv, TInv, LetsInv
<1>4. LetsInv'
  BY <1>1, <1>2, <1>3 DEF WindowsInv, LetsInv
<1>5. LagInv'
  BY <1>1 DEF WindowsInv, TInv, ThrottleTypeOK, LoginStates, LagInv, ThrottleTick
<1>6. SinceInv'
  <2>1. CASE tries = NoTries
    <3>1. IsFiniteSet(Near(clock)) /\ Near(clock)' \in SUBSET Near(clock)
      BY <1>1, <1>2, <1>3, LetsTypes DEF Near, WindowsInv, TInv
    <3>. QED
      BY <1>1, <2>1, <3>1, PartOfMax DEF WindowsInv, SinceInv
  <2>2. CASE tries # NoTries
    <3>1. PICK b \in 0..clock : Since(b)
      BY <2>2 DEF WindowsInv, SinceInv
    <3>2. Since(b)'
      BY <1>1, <1>2, <3>1 DEF Since
    <3>. QED
      BY <1>1, <2>2, <3>2 DEF SinceInv
  <2>. QED
    BY <2>1, <2>2
<1>7. AtMostTwoWindows'
  <2>1. SUFFICES ASSUME NEW t \in 0..clock'
        PROVE  Cardinality({e \in lets : e[2] - t \in 0..(Window - Lag - Grain)}) <= 2 * Max
    BY <1>1 DEF AtMostTwoWindows
  <2>2. CASE t \in 0..clock
    BY <2>2 DEF WindowsInv, AtMostTwoWindows
  <2>3. CASE t \notin 0..clock
    <3>1. {e \in lets : e[2] - t \in 0..(Window - Lag - Grain)} = {}
      BY <1>1, <1>3, <2>1, <2>3
    <3>2. Cardinality({}) = 0 /\ 0 <= 2 * Max
      BY FS_EmptySet
    <3>. QED
      BY <3>1, <3>2
  <2>. QED
    BY <2>2, <2>3
<1>. QED
  BY <1>4, <1>5, <1>6, <1>7 DEF WindowsInv

LEMMA WindowsStepKeeps == WindowsInv /\ [ThrottleNext]_throttleVars => WindowsInv'
<1>. SUFFICES ASSUME WindowsInv, [ThrottleNext]_throttleVars
     PROVE  WindowsInv'
  OBVIOUS
<1>1. TInv'
  BY ThrottleStepKeeps DEF WindowsInv
<1>2. ASSUME NEW r \in Logins, Hit(r)
      PROVE  WindowsInv'
  <2>1. LetsInv' /\ SinceInv' /\ AtMostTwoWindows'
    BY <1>1, <1>2, HitLets, HitWindows DEF TInv
  <2>2. LagInv'
    <3>1. \A a, now, n :
              [at |-> IF a THEN "refused" ELSE "in", now |-> now, n |-> n].at # "try"
      OBVIOUS
    <3>2. Out.at # "try"
      BY DEF Out
    <3>3. PICK s : login' = [login EXCEPT ![r] = s] /\ s.at # "try"
      BY <1>2, <3>1, <3>2 DEF Hit
    <3>. QED
      BY <1>2, <3>3 DEF Hit, LagInv, WindowsInv, TInv, ThrottleTypeOK
  <2>. QED
    BY <1>1, <2>1, <2>2 DEF WindowsInv
<1>3. CASE UNCHANGED throttleVars
  BY <1>1, <1>3 DEF throttleVars, WindowsInv, LetsInv, LagInv, SinceInv, Since, Near, Current,
                    Within, AtMostTwoWindows
<1>. QED
  BY <1>1, <1>2, <1>3, LoginKeeps, PruneTriesKeeps, ThrottleTickKeeps DEF ThrottleNext

\* However many tries race by clocks they read before, and however the windows
\* that are over are pruned between, no more are let in, as near one another as
\* a window less that lag and a millisecond, than two windows' (Try).
THEOREM TwoWindowsAtMost == ThrottleSpec => []AtMostTwoWindows
<1>1. WindowsInv => AtMostTwoWindows
  BY DEF WindowsInv
<1>. QED
  BY <1>1, WindowsInitInv, WindowsStepKeeps, PTL DEF ThrottleSpec

-----------------------------------------------------------------------------
(* Presence                                                                *)

USE PresenceAssumption

\* By how many ticks the lease of h's pages may be short of a whole one: it's
\* been a tick since h kept them, and another as it failed to.
Behind(h) == (IF h \in kept THEN 0 ELSE 1) + (IF h \in failing THEN 1 ELSE 0)

\* The lease of a page that's open is as long as its hub says, and a row that
\* was just written has a whole one.
LeaseInv ==
    \A c \in Conns :
        /\ conn[c].at = "written" => until[c] >= clock + Lease
        /\ conn[c].at = "in" /\ MemberOf[c] \notin lapsed =>
              until[c] >= clock + Lease - Behind(HubOf[c])

PInv == PresenceTypeOK /\ LeaseInv

LEMMA BehindType == ASSUME NEW h PROVE Behind(h) \in 0..2
BY DEF Behind

LEMMA LeaseLasts ==
    ASSUME PInv
    PROVE  OpenIsHere
<1> SUFFICES ASSUME NEW c \in Conns, conn[c].at = "in", MemberOf[c] \notin lapsed
             PROVE  until[c] > clock
  BY DEF OpenIsHere
<1>1. until[c] \in Nat /\ clock \in Nat
  BY DEF PInv, PresenceTypeOK
<1>2. until[c] >= clock + Lease - Behind(HubOf[c])
  BY DEF PInv, LeaseInv
<1>3. Behind(HubOf[c]) \in 0..2
  BY BehindType
<1>. QED
  BY <1>1, <1>2, <1>3

LEMMA PresenceInitInv ==
    ASSUME PresenceInit
    PROVE  PInv
<1>1. conn \in [Conns -> ConnStates] /\ \A c \in Conns : conn[c].at = "out"
  BY DEF PresenceInit, ConnStates
<1>2. until \in [Conns -> 0..(MaxTime + Lease)] /\ clock \in 0..MaxTime /\ faults \in 0..MaxFaults
  BY DEF PresenceInit
<1>3. PresenceTypeOK
  BY <1>1, <1>2 DEF PresenceInit, PresenceTypeOK
<1>. QED
  BY <1>1, <1>3 DEF PInv, LeaseInv

\* A step of c alone: it writes a whole lease, or is not in, or was just written.
LEMMA ConnKeeps ==
    ASSUME PInv, NEW c \in Conns, NEW is \in ConnStates, NEW to \in 0..(MaxTime + Lease),
           conn' = [conn EXCEPT ![c] = is], until' = [until EXCEPT ![c] = to],
           UNCHANGED <<clock, store, kept, failing>>,
           faults' \in 0..MaxFaults, news' \in BOOLEAN, shown' = shown,
           lapsed \subseteq lapsed', lapsed' \subseteq lapsed \cup {MemberOf[c]},
           crossed' \subseteq crossed \cup {MemberOf[c]},
           untold' \subseteq untold \cup {MemberOf[c]},
           is.at \in {"written", "in"} => to >= clock + Lease
    PROVE  PInv'
<1>1. conn \in [Conns -> ConnStates] /\ until \in [Conns -> 0..(MaxTime + Lease)] /\ clock \in Nat
  BY DEF PInv, PresenceTypeOK
<1>2. conn'[c] = is /\ until'[c] = to
      /\ \A d \in Conns \ {c} : conn'[d] = conn[d] /\ until'[d] = until[d]
  BY <1>1
<1>3. MemberOf[c] \in Members
  BY DEF Members
<1>4. PresenceTypeOK'
  <2>1. conn' \in [Conns -> ConnStates] /\ until' \in [Conns -> 0..(MaxTime + Lease)]
    BY <1>1
  <2>. QED
    BY <1>3, <2>1 DEF PInv, PresenceTypeOK, Members
<1>5. LeaseInv'
  <2> SUFFICES ASSUME NEW d \in Conns
               PROVE  /\ conn'[d].at = "written" => until'[d] >= clock + Lease
                      /\ conn'[d].at = "in" /\ MemberOf[d] \notin lapsed' =>
                            until'[d] >= clock + Lease - Behind(HubOf[d])
    BY DEF LeaseInv, Behind
  <2>1. CASE d = c
    <3>1. Behind(HubOf[c]) \in 0..2
      BY BehindType
    <3>. QED
      BY <1>1, <1>2, <2>1, <3>1
  <2>2. CASE d # c
    BY <1>2, <2>2 DEF PInv, LeaseInv
  <2>. QED
    BY <2>1, <2>2
<1>. QED
  BY <1>4, <1>5 DEF PInv

LEMMA PresenceFacts ==
    ASSUME PInv, NEW c \in Conns
    PROVE  /\ conn[c] \in ConnStates /\ until[c] \in 0..(MaxTime + Lease)
           /\ until = [until EXCEPT ![c] = until[c]]
           /\ clock \in 0..MaxTime /\ clock + Lease \in 0..(MaxTime + Lease)
           /\ faults \in 0..MaxFaults /\ news \in BOOLEAN
           /\ HasOther(MemberOf[c], c) \in BOOLEAN
           /\ \A at \in {"out", "looked", "written", "in", "leaving", "deleted"} :
                 \A arrived \in BOOLEAN : [at |-> at, arrived |-> arrived] \in ConnStates
BY DEF PInv, PresenceTypeOK, ConnStates, HasOther

LEMMA TellsTypes ==
    ASSUME PInv, NEW m, NEW new \in BOOLEAN, Tells(m, new)
    PROVE  news' \in BOOLEAN /\ faults' \in 0..MaxFaults /\ untold' \subseteq untold \cup {m}
BY DEF Tells, PInv, PresenceTypeOK

\* Who's told of is told, or among the untold, who stay there.
LEMMA TellsIs ==
    ASSUME NEW m, NEW new, Tells(m, new)
    PROVE  (news => news') /\ (new => news' \/ m \in untold') /\ untold \subseteq untold'
<1>1. CASE news' = (news \/ new) /\ UNCHANGED <<faults, untold>>
  <2>1. untold' = untold
    BY <1>1
  <2>2. (news => news') /\ (new => news')
    BY <1>1, Zenon
  <2>. QED
    BY <2>1, <2>2
<1>2. CASE untold' = untold \cup {m} /\ UNCHANGED news
  <2>1. untold \subseteq untold' /\ m \in untold'
    BY <1>2
  <2>2. news => news'
    BY <1>2, Zenon
  <2>. QED
    BY <2>1, <2>2
<1>. QED
  BY <1>1, <1>2 DEF Tells

LEMMA EnteringKeeps ==
    ASSUME PInv, NEW c \in Conns, Entering(c)
    PROVE  PInv'
<1>. USE PresenceFacts
<1>1. conn[c].arrived \in BOOLEAN
  BY DEF ConnStates
<1>2. CASE EnterAtOnce(c) \/ EnterWrites(c)
  <2>1. PICK is \in ConnStates : conn' = [conn EXCEPT ![c] = is]
    BY <1>1, <1>2 DEF EnterAtOnce, EnterWrites, Move
  <2>2. /\ until' = [until EXCEPT ![c] = clock + Lease]
        /\ UNCHANGED <<clock, store, kept, failing, faults, news, shown, untold, lapsed, crossed>>
    BY <1>2 DEF EnterAtOnce, EnterWrites
  <2>3. /\ clock + Lease \in 0..(MaxTime + Lease) /\ clock + Lease >= clock + Lease
        /\ faults \in 0..MaxFaults /\ news \in BOOLEAN
    BY PresenceFacts
  <2>. DEFINE to == clock + Lease
  <2>4. /\ to \in 0..(MaxTime + Lease) /\ to >= clock + Lease
        /\ until' = [until EXCEPT ![c] = to]
    BY <2>2, <2>3
  <2>. HIDE DEF to
  <2>. QED
    BY <2>1, <2>2, <2>3, <2>4, ConnKeeps
<1>3. CASE EnterLooks(c)
  <2>1. PICK is \in ConnStates : conn' = [conn EXCEPT ![c] = is] /\ is.at = "looked"
    BY <1>3 DEF EnterLooks, Move
  <2>2. UNCHANGED <<clock, store, until, kept, failing, faults, news, shown, untold, lapsed, crossed>>
    BY <1>3 DEF EnterLooks
  <2>. QED
    BY <2>1, <2>2, ConnKeeps
<1>4. CASE EnterFails(c)
  <2>1. PICK is \in ConnStates : conn' = [conn EXCEPT ![c] = is] /\ is.at = "out"
    BY <1>4 DEF EnterFails, Move
  <2>2. /\ \/ until' = until /\ lapsed' = lapsed
           \/ until' = [until EXCEPT ![c] = clock + Lease] /\ lapsed' = lapsed \cup {MemberOf[c]}
        /\ faults' \in 0..MaxFaults
        /\ UNCHANGED <<clock, store, kept, failing, news, shown, untold, crossed>>
    BY <1>4 DEF EnterFails
  <2>3. PICK to \in 0..(MaxTime + Lease) : until' = [until EXCEPT ![c] = to]
    BY <2>2
  <2>. QED
    BY <2>1, <2>2, <2>3, ConnKeeps
<1>5. CASE EnterEnds(c)
  <2>1. PICK is \in ConnStates : conn' = [conn EXCEPT ![c] = is]
    BY <1>5 DEF EnterEnds, Move
  <2>2. /\ until[c] >= clock + Lease /\ Tells(MemberOf[c], conn[c].arrived)
        /\ UNCHANGED <<clock, store, until, kept, failing, shown, lapsed, crossed>>
    BY <1>5 DEF EnterEnds, PInv, LeaseInv
  <2>3. faults' \in 0..MaxFaults /\ news' \in BOOLEAN /\ untold' \subseteq untold \cup {MemberOf[c]}
    BY <1>1, <2>2, TellsTypes
  <2>. QED
    BY <2>1, <2>2, <2>3, ConnKeeps
<1>. QED
  BY <1>2, <1>3, <1>4, <1>5 DEF Entering

LEMMA LeavingKeeps ==
    ASSUME PInv, NEW c \in Conns, Leaving(c)
    PROVE  PInv'
<1>. USE PresenceFacts
<1>1. PICK is \in ConnStates :
         conn' = [conn EXCEPT ![c] = is] /\ is.at \in {"out", "leaving", "deleted"}
  BY DEF Leaving, Leave, LeaveDeletes, LeaveTells, LeaveFails, Move
<1>2. PICK to \in 0..(MaxTime + Lease) : until' = [until EXCEPT ![c] = to]
  <2>1. 0 \in 0..(MaxTime + Lease)
    OBVIOUS
  <2>. QED
    BY <2>1 DEF Leaving, Leave, LeaveDeletes, LeaveTells, LeaveFails
<1>3. /\ UNCHANGED <<clock, store, kept, failing, shown>>
      /\ lapsed \subseteq lapsed' /\ lapsed' \subseteq lapsed \cup {MemberOf[c]}
      /\ crossed' \subseteq crossed \cup {MemberOf[c]}
  BY DEF Leaving, Leave, LeaveDeletes, LeaveTells, LeaveFails
<1>4. news' \in BOOLEAN /\ faults' \in 0..MaxFaults /\ untold' \subseteq untold \cup {MemberOf[c]}
  <2>1. (until[c] # 0 /\ ~HasOther(MemberOf[c], c)) \in BOOLEAN
        /\ (~HasOther(MemberOf[c], c)) \in BOOLEAN
    OBVIOUS
  <2>2. CASE LeaveTells(c) \/ (LeaveDeletes(c) /\ ~(until[c] # 0 /\ store = "table"))
    BY <2>1, <2>2, TellsTypes DEF LeaveTells, LeaveDeletes
  <2>3. CASE Leave(c) \/ (LeaveDeletes(c) /\ until[c] # 0 /\ store = "table")
    BY <2>3 DEF Leave, LeaveDeletes
  <2>4. CASE LeaveFails(c)
    <3>1. faults < MaxFaults /\ faults' = faults + 1 /\ news' = news /\ untold' = untold
      BY <2>4 DEF LeaveFails
    <3>2. faults \in 0..MaxFaults /\ MaxFaults \in Nat /\ news \in BOOLEAN
      BY PresenceFacts, PresenceAssumption
    <3>. QED
      BY <3>1, <3>2
  <2>. QED
    BY <2>2, <2>3, <2>4 DEF Leaving
<1>. QED
  BY <1>1, <1>2, <1>3, <1>4, ConnKeeps

-----------------------------------------------------------------------------
(* Presence: the leases                                                    *)

\* A hub that keeps its pages' leases gives each whole one.
LEMMA KeepKeeps ==
    ASSUME PInv, NEW h \in Hubs, Keep(h)
    PROVE  PInv'
<1>1. /\ until' = [c \in Conns |-> IF c \in Keys(h) /\ until[c] > 0 THEN clock + Lease ELSE until[c]]
      /\ kept' = kept \cup {h} /\ failing' = failing \ {h}
      /\ UNCHANGED <<clock, store, conn, faults, news, shown, untold, lapsed, crossed>>
  BY DEF Keep
<1>2. PresenceTypeOK'
  <2>1. until' \in [Conns -> 0..(MaxTime + Lease)]
    BY <1>1 DEF PInv, PresenceTypeOK
  <2>. QED
    BY <1>1, <2>1 DEF PInv, PresenceTypeOK
<1>3. LeaseInv'
  <2> SUFFICES ASSUME NEW c \in Conns
               PROVE  /\ conn[c].at = "written" => until'[c] >= clock + Lease
                      /\ conn[c].at = "in" /\ MemberOf[c] \notin lapsed =>
                            until'[c] >= clock + Lease - Behind(HubOf[c])'
    BY <1>1 DEF LeaseInv
  <2>1. clock \in Nat /\ until[c] \in Nat /\ Behind(HubOf[c]) \in 0..2
    BY BehindType DEF PInv, PresenceTypeOK
  <2>2. CASE c \in Keys(h)
    <3>1. HubOf[c] = h /\ conn[c].at = "in" /\ Behind(HubOf[c])' = 0
      BY <1>1, <2>2 DEF Keys, Behind
    <3>2. ASSUME MemberOf[c] \notin lapsed PROVE until'[c] = clock + Lease
      <4>1. until[c] > 0
        BY <2>1, <3>1, <3>2 DEF PInv, LeaseInv
      <4>. QED
        BY <1>1, <2>2, <4>1
    <3>. QED
      BY <2>1, <3>1, <3>2
  <2>3. CASE c \notin Keys(h)
    <3>1. until'[c] = until[c]
      BY <1>1, <2>3
    <3>2. conn[c].at = "in" => Behind(HubOf[c])' = Behind(HubOf[c])
      BY <1>1, <2>3 DEF Keys, Behind
    <3>. QED
      BY <3>1, <3>2 DEF PInv, LeaseInv
  <2>. QED
    BY <2>2, <2>3
<1>. QED
  BY <1>2, <1>3 DEF PInv

\* One that fails to is a tick behind from now on, or, the second time running,
\* has its members lapse.
LEMMA KeepFailsKeeps ==
    ASSUME PInv, NEW h \in Hubs, KeepFails(h)
    PROVE  PInv'
<1>1. /\ h \notin kept /\ kept' = kept \cup {h} /\ failing' = failing \cup {h}
      /\ faults < MaxFaults /\ faults' = faults + 1
      /\ lapsed' = IF h \in failing THEN lapsed \cup {MemberOf[c] : c \in Keys(h)} ELSE lapsed
      /\ UNCHANGED <<clock, store, until, conn, news, shown, untold, crossed>>
  BY DEF KeepFails
<1>2. PresenceTypeOK'
  <2>1. {MemberOf[c] : c \in Keys(h)} \subseteq Members
    BY DEF Keys, Members
  <2>2. faults' \in 0..MaxFaults
    BY <1>1 DEF PInv, PresenceTypeOK
  <2>. QED
    BY <1>1, <2>1, <2>2 DEF PInv, PresenceTypeOK, Members
<1>3. LeaseInv'
  <2> SUFFICES ASSUME NEW c \in Conns, conn[c].at = "in", MemberOf[c] \notin lapsed'
               PROVE  until[c] >= clock + Lease - Behind(HubOf[c])'
    BY <1>1 DEF LeaseInv, PInv
  <2>1. MemberOf[c] \notin lapsed
    BY <1>1
  <2>2. ~(HubOf[c] = h /\ h \in failing)
    BY <1>1 DEF Keys
  <2>3. Behind(HubOf[c])' = Behind(HubOf[c])
    BY <1>1, <2>2 DEF Behind
  <2>. QED
    BY <2>1, <2>3 DEF PInv, LeaseInv
<1>. QED
  BY <1>2, <1>3 DEF PInv

\* A prune takes no row whose lease lasts.
LEMMA PruneKeeps ==
    ASSUME PInv, PrunePresence
    PROVE  PInv'
<1>1. /\ until' = [c \in Conns |-> IF until[c] > clock THEN until[c] ELSE 0]
      /\ UNCHANGED <<clock, store, conn, kept, failing, faults, news, shown, untold, lapsed, crossed>>
  BY DEF PrunePresence
<1>2. PresenceTypeOK'
  <2>1. until' \in [Conns -> 0..(MaxTime + Lease)]
    BY <1>1 DEF PInv, PresenceTypeOK
  <2>. QED
    BY <1>1, <2>1 DEF PInv, PresenceTypeOK
<1>3. ASSUME NEW c \in Conns, until[c] >= clock + Lease - Behind(HubOf[c])
      PROVE  until'[c] = until[c]
  <2>1. clock \in Nat /\ until[c] \in Nat /\ Behind(HubOf[c]) \in 0..2
    BY BehindType DEF PInv, PresenceTypeOK
  <2>. QED
    BY <1>1, <1>3, <2>1
<1>4. ASSUME NEW c \in Conns, until[c] >= clock + Lease PROVE until'[c] = until[c]
  <2>1. clock \in Nat /\ until[c] \in Nat
    BY DEF PInv, PresenceTypeOK
  <2>. QED
    BY <1>1, <1>4, <2>1
<1>5. LeaseInv'
  BY <1>1, <1>3, <1>4 DEF PInv, LeaseInv, Behind
<1>. QED
  BY <1>2, <1>5 DEF PInv

\* A hub that's killed has no pages, and its members lapse.
LEMMA KillHubKeeps ==
    ASSUME PInv, NEW h \in Hubs, KillHub(h)
    PROVE  PInv'
<1>1. /\ conn' = [c \in Conns |-> IF HubOf[c] = h THEN [at |-> "out", arrived |-> FALSE] ELSE conn[c]]
      /\ faults < MaxFaults /\ faults' = faults + 1
      /\ lapsed' = lapsed \cup {MemberOf[c] : c \in {d \in Conns : HubOf[d] = h /\ conn[d].at # "out"}}
      /\ kept' = kept \cup {h} /\ failing' = failing \ {h}
      /\ UNCHANGED <<clock, store, until, news, shown, untold, crossed>>
  BY DEF KillHub
<1>2. PresenceTypeOK'
  <2>1. conn' \in [Conns -> ConnStates]
    BY <1>1 DEF PInv, PresenceTypeOK, ConnStates
  <2>2. lapsed' \subseteq Members
    BY <1>1 DEF PInv, PresenceTypeOK, Members
  <2>3. faults' \in 0..MaxFaults
    BY <1>1 DEF PInv, PresenceTypeOK
  <2>. QED
    BY <1>1, <2>1, <2>2, <2>3 DEF PInv, PresenceTypeOK, Members
<1>3. ASSUME NEW c \in Conns, conn'[c].at \in {"written", "in"}
      PROVE  conn'[c] = conn[c] /\ Behind(HubOf[c])' = Behind(HubOf[c])
  BY <1>1, <1>3 DEF Behind
<1>4. lapsed \subseteq lapsed'
  BY <1>1
<1>5. LeaseInv'
  BY <1>1, <1>3, <1>4 DEF PInv, LeaseInv
<1>. QED
  BY <1>2, <1>5 DEF PInv

\* A tick comes once every hub has kept its leases, or failed to.
LEMMA PresenceTickKeeps ==
    ASSUME PInv, PresenceTick
    PROVE  PInv'
<1>1. /\ clock < MaxTime /\ clock' = clock + 1 /\ kept = Hubs /\ kept' = {}
      /\ \A c \in Conns : conn[c].at \in {"out", "in"}
      /\ UNCHANGED <<store, until, conn, failing, faults, news, shown, untold, lapsed, crossed>>
  BY DEF PresenceTick, Tick
<1>2. PresenceTypeOK'
  <2>1. clock' \in 0..MaxTime
    BY <1>1 DEF PInv, PresenceTypeOK
  <2>. QED
    BY <1>1, <2>1 DEF PInv, PresenceTypeOK, Members
<1>3. ASSUME NEW c \in Conns PROVE Behind(HubOf[c])' = Behind(HubOf[c]) + 1
  BY <1>1 DEF Behind
<1>4. LeaseInv'
  <2> SUFFICES ASSUME NEW c \in Conns, conn[c].at = "in", MemberOf[c] \notin lapsed
               PROVE  until[c] >= clock' + Lease - Behind(HubOf[c])'
    BY <1>1 DEF LeaseInv
  <2>1. until[c] >= clock + Lease - Behind(HubOf[c])
    BY DEF PInv, LeaseInv
  <2>2. clock \in Nat /\ until[c] \in Nat /\ Behind(HubOf[c]) \in 0..2
    BY BehindType DEF PInv, PresenceTypeOK
  <2>. QED
    BY <1>1, <1>3, <2>1, <2>2
<1>. QED
  BY <1>2, <1>4 DEF PInv

LEMMA PresenceStepKeeps ==
    ASSUME PInv, [PresenceNext]_presenceVars
    PROVE  PInv'
<1>1. CASE Look
  <2>1. Here \subseteq Members
    BY DEF Here, Members
  <2>. QED
    BY <1>1, <2>1 DEF Look, PInv, PresenceTypeOK, Members, LeaseInv, Behind
<1>2. CASE UNCHANGED presenceVars
  BY <1>2 DEF presenceVars, PInv, PresenceTypeOK, Members, LeaseInv, Behind
<1>. QED
  BY <1>1, <1>2, EnteringKeeps, LeavingKeeps, KeepKeeps, KeepFailsKeeps, PruneKeeps,
     KillHubKeeps, PresenceTickKeeps DEF PresenceNext

\* Presence's types hold, in memory and in the table.
THEOREM PresenceTypeCorrect == PresenceSpec => []PresenceTypeOK
<1>1. PInv => PresenceTypeOK
  BY DEF PInv
<1>. QED
  BY <1>1, PresenceInitInv, PresenceStepKeeps, PTL DEF PresenceSpec

\* The lease of a page that's open doesn't run out, nor is its row pruned, if its
\* hub doesn't fail to keep it twice running (keepHere, Keep, prune).
THEOREM OpenStays == PresenceSpec => []OpenIsHere
BY LeaseLasts, PresenceInitInv, PresenceStepKeeps, PTL DEF PresenceSpec

-----------------------------------------------------------------------------
(* Presence: what the page shows                                           *)

IsLive(m) == \E c \in Conns : MemberOf[c] = m /\ until[c] > clock

\* The row of one whose member hasn't lapsed is there, and lasts, just as c is
\* in, or on its way in or out with it.
RowOf(c) ==
    MemberOf[c] \notin lapsed =>
        /\ conn[c].at \in {"written", "in", "leaving"} => until[c] > clock
        /\ conn[c].at \in {"out", "looked", "deleted"} => until[c] = 0

\* Who saw another of its member there, as it looked, isn't alone.
LookedInv(m) ==
    \A c \in Conns :
        MemberOf[c] = m /\ conn[c].at = "looked" /\ ~conn[c].arrived => HasOther(m, c)

\* As the page isn't told, and shows m wrong, someone is about to tell it, if no
\* Publish of m's failed to.
ToldInv(m) ==
    ~news /\ m \notin untold =>
        /\ m \notin shown /\ IsLive(m) =>
              \E c \in Conns : MemberOf[c] = m /\ conn[c].at = "written" /\ conn[c].arrived
        /\ m \in shown /\ ~IsLive(m) => \E c \in Conns : MemberOf[c] = m /\ conn[c].at = "deleted"

ShowsInv ==
    /\ \A c \in Conns : RowOf(c)
    /\ \A m \in Members \ (lapsed \cup crossed) : LookedInv(m) /\ ToldInv(m)

LEMMA ShowsInitInv ==
    ASSUME PresenceInit
    PROVE  ShowsInv
BY DEF PresenceInit, ShowsInv, RowOf, LookedInv, ToldInv, IsLive

\* It shows a member just as one of its rows lasts, and that's as it's in, where
\* all of its connections are in or out.
LEMMA ShowsGives ==
    ASSUME PInv, ShowsInv
    PROVE  ShowsWhosHere
<1>1. SUFFICES ASSUME ~news, NEW m \in Settled \ (untold \cup lapsed \cup crossed)
      PROVE  ShownRight(m)
  BY DEF ShowsWhosHere
<1>2. m \in Members /\ LookedInv(m) /\ ToldInv(m)
  BY <1>1 DEF ShowsInv, Settled
<1>3. \A c \in Conns : MemberOf[c] = m => conn[c].at \in {"out", "in"}
  BY <1>1 DEF Settled
<1>4. m \in shown <=> IsLive(m)
  BY <1>1, <1>2, <1>3 DEF ToldInv
<1>5. ASSUME NEW c \in Conns, MemberOf[c] = m
      PROVE  conn[c].at = "in" <=> until[c] > clock
  <2>1. RowOf(c) /\ m \notin lapsed /\ conn[c].at \in {"out", "in"}
    BY <1>1, <1>3, <1>5 DEF ShowsInv
  <2>2. conn[c].at = "out" => until[c] = 0
    BY <1>5, <2>1 DEF RowOf
  <2>3. conn[c].at = "in" => until[c] > clock
    BY <1>5, <2>1 DEF RowOf
  <2>4. until[c] \in Nat /\ clock \in Nat
    BY DEF PInv, PresenceTypeOK
  <2>. QED
    BY <2>1, <2>2, <2>3, <2>4
<1>. QED
  BY <1>4, <1>5 DEF ShownRight, IsLive

\* A step of c is of no other member's.
LEMMA OwnShows ==
    ASSUME PInv, ShowsInv, NEW c \in Conns, NEW is, NEW to,
           conn' = [conn EXCEPT ![c] = is], until' = [until EXCEPT ![c] = to],
           UNCHANGED <<clock, shown>>, news => news', untold \subseteq untold',
           lapsed \subseteq lapsed', crossed \subseteq crossed',
           RowOf(c)',
           MemberOf[c] \notin lapsed' \cup crossed' =>
               LookedInv(MemberOf[c])' /\ ToldInv(MemberOf[c])'
    PROVE  ShowsInv'
<1>1. conn'[c] = is /\ until'[c] = to
      /\ \A d \in Conns \ {c} : conn'[d] = conn[d] /\ until'[d] = until[d]
  BY DEF PInv, PresenceTypeOK
<1>2. \A d \in Conns : RowOf(d)'
  BY <1>1 DEF ShowsInv, RowOf
<1>3. ASSUME NEW m \in Members \ (lapsed' \cup crossed'), m # MemberOf[c]
      PROVE  LookedInv(m)' /\ ToldInv(m)'
  <2>1. LookedInv(m) /\ ToldInv(m)
    BY <1>3 DEF ShowsInv
  <2>2. \A d \in Conns : MemberOf[d] = m => conn'[d] = conn[d] /\ until'[d] = until[d]
    BY <1>1, <1>3
  <2>3. IsLive(m)' = IsLive(m)
    BY <2>2 DEF IsLive
  <2>4. \A d \in Conns : HasOther(m, d)' = HasOther(m, d)
    BY <2>2 DEF HasOther
  <2>5. LookedInv(m)'
    BY <2>1, <2>2, <2>4 DEF LookedInv
  <2>6. ToldInv(m)'
    BY <2>1, <2>2, <2>3 DEF ToldInv
  <2>. QED
    BY <2>5, <2>6
<1>. QED
  BY <1>2, <1>3 DEF ShowsInv

\* What's so of c's member, unless it has lapsed or crossed.
LEMMA OwnFacts ==
    ASSUME PInv, ShowsInv, NEW c \in Conns
    PROVE  /\ RowOf(c)
           /\ MemberOf[c] \notin lapsed \cup crossed =>
                  LookedInv(MemberOf[c]) /\ ToldInv(MemberOf[c])
           /\ conn \in [Conns -> ConnStates] /\ conn[c].arrived \in BOOLEAN
           /\ until \in [Conns -> 0..(MaxTime + Lease)] /\ clock \in Nat /\ news \in BOOLEAN
BY DEF ShowsInv, Members, PInv, PresenceTypeOK, ConnStates

\* Who looked isn't alone still, unless the only row it saw is gone.
LEMMA OwnLooked ==
    ASSUME PInv, NEW c \in Conns, NEW is, NEW to,
           conn' = [conn EXCEPT ![c] = is], until' = [until EXCEPT ![c] = to],
           clock' = clock, LookedInv(MemberOf[c]),
           is.at = "looked" => is.arrived \/ HasOther(MemberOf[c], c),
           \/ until[c] > clock => to > clock
           \/ \A d \in Conns : conn[d].at = "looked" => MemberOf[d] # MemberOf[c]
    PROVE  LookedInv(MemberOf[c])'
<1>1. conn'[c] = is /\ until'[c] = to
      /\ \A d \in Conns \ {c} : conn'[d] = conn[d] /\ until'[d] = until[d]
  BY DEF PInv, PresenceTypeOK
<1>2. HasOther(MemberOf[c], c) => HasOther(MemberOf[c], c)'
  BY <1>1 DEF HasOther
<1>3. SUFFICES ASSUME NEW d \in Conns, MemberOf[d] = MemberOf[c],
                      conn'[d].at = "looked", ~conn'[d].arrived
      PROVE  HasOther(MemberOf[c], d)'
  BY DEF LookedInv
<1>4. CASE d = c
  BY <1>1, <1>2, <1>3, <1>4
<1>5. CASE d # c
  <2>1. conn'[d] = conn[d]
    BY <1>1, <1>5
  <2>2. HasOther(MemberOf[c], d)
    BY <1>3, <2>1 DEF LookedInv
  <2>3. PICK e \in Conns \ {d} : MemberOf[e] = MemberOf[c] /\ until[e] > clock
    BY <2>2 DEF HasOther
  <2>4. until'[e] > clock
    BY <1>1, <1>3, <2>1, <2>3
  <2>. QED
    BY <2>3, <2>4 DEF HasOther
<1>. QED
  BY <1>4, <1>5

\* Of a step of c: either the page is told, or c is to tell it of what's new, and
\* doesn't drop what it was to tell that's so still.
LEMMA OwnTold ==
    ASSUME PInv, NEW c \in Conns, NEW is, NEW to,
           conn' = [conn EXCEPT ![c] = is], until' = [until EXCEPT ![c] = to],
           UNCHANGED <<clock, shown>>, ToldInv(MemberOf[c]), untold \subseteq untold',
           \/ news' \/ MemberOf[c] \in untold'
           \/ /\ ~news
              /\ IsLive(MemberOf[c])' =>
                    \/ is.at = "written" /\ is.arrived
                    \/ IsLive(MemberOf[c]) /\ ~(conn[c].at = "written" /\ conn[c].arrived)
              /\ ~IsLive(MemberOf[c])' =>
                    \/ is.at = "deleted"
                    \/ ~IsLive(MemberOf[c]) /\ conn[c].at # "deleted"
    PROVE  ToldInv(MemberOf[c])'
<1>1. conn'[c] = is /\ \A d \in Conns \ {c} : conn'[d] = conn[d]
  BY DEF PInv, PresenceTypeOK
<1>2. SUFFICES ASSUME ~news', MemberOf[c] \notin untold'
      PROVE  ToldInv(MemberOf[c])'
  BY DEF ToldInv
<1>3. shown' = shown /\ ~news /\ MemberOf[c] \notin untold
  BY <1>2
<1>4. ASSUME MemberOf[c] \notin shown, IsLive(MemberOf[c])'
      PROVE  \E d \in Conns : MemberOf[d] = MemberOf[c] /\ conn'[d].at = "written" /\ conn'[d].arrived
  <2>1. CASE is.at = "written" /\ is.arrived
    BY <1>1, <2>1
  <2>2. CASE IsLive(MemberOf[c]) /\ ~(conn[c].at = "written" /\ conn[c].arrived)
    BY <1>1, <1>3, <1>4, <2>2 DEF ToldInv
  <2>. QED
    BY <1>2, <1>4, <2>1, <2>2
<1>5. ASSUME MemberOf[c] \in shown, ~IsLive(MemberOf[c])'
      PROVE  \E d \in Conns : MemberOf[d] = MemberOf[c] /\ conn'[d].at = "deleted"
  <2>1. CASE is.at = "deleted"
    BY <1>1, <2>1
  <2>2. CASE ~IsLive(MemberOf[c]) /\ conn[c].at # "deleted"
    BY <1>1, <1>3, <1>5, <2>2 DEF ToldInv
  <2>. QED
    BY <1>2, <1>5, <2>1, <2>2
<1>. QED
  BY <1>3, <1>4, <1>5 DEF ToldInv

\* Whether c's member is here, after a step of c.
LEMMA OwnLive ==
    ASSUME PInv, NEW c \in Conns, NEW to, until' = [until EXCEPT ![c] = to], clock' = clock
    PROVE  /\ IsLive(MemberOf[c]) <=> until[c] > clock \/ HasOther(MemberOf[c], c)
           /\ IsLive(MemberOf[c])' <=> to > clock \/ HasOther(MemberOf[c], c)
<1>1. until'[c] = to /\ \A d \in Conns \ {c} : until'[d] = until[d]
  BY DEF PInv, PresenceTypeOK
<1>2. IsLive(MemberOf[c]) <=> until[c] > clock \/ HasOther(MemberOf[c], c)
  BY DEF IsLive, HasOther
<1>3. IsLive(MemberOf[c])' <=> to > clock \/ HasOther(MemberOf[c], c)
  BY <1>1 DEF IsLive, HasOther
<1>. QED
  BY <1>2, <1>3

LEMMA EnterLooksShows ==
    ASSUME PInv, ShowsInv, NEW c \in Conns, EnterAtOnce(c) \/ EnterLooks(c)
    PROVE  ShowsInv'
<1>1. PICK to, is :
        /\ conn' = [conn EXCEPT ![c] = is] /\ until' = [until EXCEPT ![c] = to]
        /\ is.at \in {"written", "looked"}
        /\ is.arrived \/ HasOther(MemberOf[c], c)
        /\ is.at = "written" => to = clock + Lease
        /\ is.at = "looked" => to = until[c]
  <2>1. [at |-> "written", arrived |-> ~HasOther(MemberOf[c], c)].arrived \/ HasOther(MemberOf[c], c)
    OBVIOUS
  <2>2. [at |-> "looked", arrived |-> ~HasOther(MemberOf[c], c)].arrived \/ HasOther(MemberOf[c], c)
    OBVIOUS
  <2>3. CASE EnterAtOnce(c)
    <3>. DEFINE new == [at |-> "written", arrived |-> ~HasOther(MemberOf[c], c)]
    <3>1. conn' = [conn EXCEPT ![c] = new] /\ until' = [until EXCEPT ![c] = clock + Lease]
      BY <2>3 DEF EnterAtOnce, Move
    <3>2. new.at = "written" /\ (new.arrived \/ HasOther(MemberOf[c], c))
      BY <2>1
    <3>. HIDE DEF new
    <3>. QED
      BY <3>1, <3>2
  <2>4. CASE EnterLooks(c)
    <3>1. until' = [until EXCEPT ![c] = until[c]]
      BY <2>4, OwnFacts DEF EnterLooks
    <3>. QED
      BY <2>2, <2>4, <3>1 DEF EnterLooks, Move
  <2>. QED
    BY <2>3, <2>4
<1>2. /\ UNCHANGED <<clock, news, shown, untold, lapsed, crossed>>
      /\ conn[c].at = "out" /\ until[c] = 0
  BY DEF EnterAtOnce, EnterLooks
<1>3. conn'[c] = is /\ until'[c] = to
  BY <1>1, OwnFacts
<1>4. (is.at = "written" => to > clock) /\ (is.at = "looked" => to = 0) /\ ~(until[c] > clock)
  BY <1>1, <1>2, OwnFacts
<1>5. RowOf(c)'
  BY <1>1, <1>2, <1>3, <1>4 DEF RowOf
<1>6. ASSUME MemberOf[c] \notin lapsed' \cup crossed'
      PROVE  LookedInv(MemberOf[c])' /\ ToldInv(MemberOf[c])'
  <2>1. LookedInv(MemberOf[c]) /\ ToldInv(MemberOf[c])
    BY <1>2, <1>6, OwnFacts
  <2>2. LookedInv(MemberOf[c])'
    BY <1>1, <1>2, <1>4, <2>1, OwnLooked
  <2>3. IsLive(MemberOf[c]) <=> HasOther(MemberOf[c], c)
    BY <1>1, <1>2, <1>4, OwnLive
  <2>4. IsLive(MemberOf[c])' <=> is.at = "written" \/ HasOther(MemberOf[c], c)
    BY <1>1, <1>2, <1>4, OwnLive, OwnFacts
  <2>5. ToldInv(MemberOf[c])'
    BY <1>1, <1>2, <2>1, <2>3, <2>4, OwnTold
  <2>. QED
    BY <2>2, <2>5
<1>. QED
  BY <1>1, <1>2, <1>5, <1>6, OwnShows

LEMMA EnterWritesShows ==
    ASSUME PInv, ShowsInv, NEW c \in Conns, EnterWrites(c)
    PROVE  ShowsInv'
<1>. DEFINE is == [at |-> "written", arrived |-> conn[c].arrived]
<1>1. /\ conn' = [conn EXCEPT ![c] = is] /\ until' = [until EXCEPT ![c] = clock + Lease]
      /\ UNCHANGED <<clock, news, shown, untold, lapsed, crossed>>
      /\ conn[c].at = "looked"
  BY DEF EnterWrites, Move
<1>2. is.at = "written" /\ is.arrived = conn[c].arrived
  OBVIOUS
<1>. HIDE DEF is
<1>3. conn'[c] = is /\ until'[c] = clock + Lease /\ clock + Lease > clock
  BY <1>1, OwnFacts
<1>4. RowOf(c)'
  BY <1>1, <1>2, <1>3 DEF RowOf
<1>5. ASSUME MemberOf[c] \notin lapsed' \cup crossed'
      PROVE  LookedInv(MemberOf[c])' /\ ToldInv(MemberOf[c])'
  <2>1. LookedInv(MemberOf[c]) /\ ToldInv(MemberOf[c])
    BY <1>1, <1>5, OwnFacts
  <2>2. LookedInv(MemberOf[c])'
    BY <1>1, <1>2, <1>3, <2>1, OwnLooked
  <2>3. conn[c].arrived \/ HasOther(MemberOf[c], c)
    BY <1>1, <2>1 DEF LookedInv
  <2>4. IsLive(MemberOf[c])' /\ (HasOther(MemberOf[c], c) => IsLive(MemberOf[c]))
    BY <1>1, <1>3, OwnLive
  <2>5. ToldInv(MemberOf[c])'
    BY <1>1, <1>2, <2>1, <2>3, <2>4, OwnTold, OwnFacts
  <2>. QED
    BY <2>2, <2>5
<1>. QED
  BY <1>1, <1>4, <1>5, OwnShows

\* Steps that leave c's row as it is.
LEMMA RowKept ==
    ASSUME PInv, ShowsInv, NEW c \in Conns, NEW is,
           conn' = [conn EXCEPT ![c] = is], until' = until,
           UNCHANGED <<clock, shown>>, news => news', untold \subseteq untold',
           lapsed \subseteq lapsed', crossed \subseteq crossed',
           is.at # "looked",
           MemberOf[c] \notin lapsed' =>
               /\ is.at \in {"in", "leaving"} <=> conn[c].at \in {"written", "in", "leaving"}
               /\ is.at \in {"in", "leaving", "out"},
           MemberOf[c] \notin lapsed' =>
               \/ news' \/ MemberOf[c] \in untold'
               \/ /\ ~(conn[c].at = "written" /\ conn[c].arrived)
                  /\ conn[c].at = "deleted" => HasOther(MemberOf[c], c)
    PROVE  ShowsInv'
<1>1. conn'[c] = is /\ until' = [until EXCEPT ![c] = until[c]] /\ until'[c] = until[c]
  BY OwnFacts
<1>2. RowOf(c)'
  BY <1>1, OwnFacts DEF RowOf, PInv, PresenceTypeOK, ConnStates
<1>3. ASSUME MemberOf[c] \notin lapsed' \cup crossed'
      PROVE  LookedInv(MemberOf[c])' /\ ToldInv(MemberOf[c])'
  <2>1. LookedInv(MemberOf[c]) /\ ToldInv(MemberOf[c])
    BY <1>3, OwnFacts
  <2>2. LookedInv(MemberOf[c])'
    BY <1>1, <2>1, OwnLooked
  <2>3. (IsLive(MemberOf[c])' <=> IsLive(MemberOf[c]))
        /\ (HasOther(MemberOf[c], c) => IsLive(MemberOf[c]))
    BY <1>1, OwnLive
  <2>4. ToldInv(MemberOf[c])'
    BY <1>1, <1>3, <2>1, <2>3, OwnTold
  <2>. QED
    BY <2>2, <2>4
<1>. QED
  BY <1>1, <1>2, <1>3, OwnShows

LEMMA EnterEndsShows ==
    ASSUME PInv, ShowsInv, NEW c \in Conns, EnterEnds(c)
    PROVE  ShowsInv'
<1>. DEFINE is == [at |-> "in", arrived |-> FALSE]
<1>1. /\ conn' = [conn EXCEPT ![c] = is]
      /\ UNCHANGED <<clock, until, shown, lapsed, crossed>>
      /\ conn[c].at = "written" /\ Tells(MemberOf[c], conn[c].arrived)
  BY DEF EnterEnds, Move
<1>2. is.at = "in"
  OBVIOUS
<1>3. /\ news => news'
      /\ conn[c].arrived => news' \/ MemberOf[c] \in untold'
      /\ untold \subseteq untold'
  BY <1>1, TellsIs
<1>. HIDE DEF is
<1>. QED
  BY <1>1, <1>2, <1>3, RowKept

LEMMA LeaveShows ==
    ASSUME PInv, ShowsInv, NEW c \in Conns, Leave(c)
    PROVE  ShowsInv'
<1>. DEFINE is == [at |-> "leaving", arrived |-> FALSE]
<1>1. /\ conn' = [conn EXCEPT ![c] = is]
      /\ UNCHANGED <<clock, until, news, shown, untold, lapsed, crossed>>
      /\ conn[c].at = "in"
  BY DEF Leave, Move
<1>2. is.at = "leaving"
  OBVIOUS
<1>. HIDE DEF is
<1>. QED
  BY <1>1, <1>2, RowKept

LEMMA LeaveTellsShows ==
    ASSUME PInv, ShowsInv, NEW c \in Conns, LeaveTells(c)
    PROVE  ShowsInv'
<1>. DEFINE is == [at |-> "out", arrived |-> FALSE]
<1>1. /\ conn' = [conn EXCEPT ![c] = is]
      /\ UNCHANGED <<clock, until, shown, lapsed, crossed>>
      /\ conn[c].at = "deleted" /\ Tells(MemberOf[c], ~HasOther(MemberOf[c], c))
  BY DEF LeaveTells, Move
<1>2. is.at = "out"
  OBVIOUS
<1>3. /\ news => news'
      /\ news' \/ MemberOf[c] \in untold' \/ HasOther(MemberOf[c], c)
      /\ untold \subseteq untold'
  BY <1>1, TellsIs
<1>. HIDE DEF is
<1>. QED
  BY <1>1, <1>2, <1>3, RowKept

\* The table fails: c's member may be shown wrong from now on, or c only looked.
LEMMA FailsShows ==
    ASSUME PInv, ShowsInv, NEW c \in Conns, EnterFails(c) \/ LeaveFails(c)
    PROVE  ShowsInv'
<1>. DEFINE is == [at |-> "out", arrived |-> FALSE]
<1>1. /\ conn' = [conn EXCEPT ![c] = is]
      /\ UNCHANGED <<clock, news, shown, untold, crossed>> /\ lapsed \subseteq lapsed'
      /\ \/ until' = until
         \/ until' = [until EXCEPT ![c] = clock + Lease] /\ MemberOf[c] \in lapsed'
      /\ conn[c].at = "looked" \/ MemberOf[c] \in lapsed'
  BY DEF EnterFails, LeaveFails, Move
<1>2. is.at = "out"
  OBVIOUS
<1>. HIDE DEF is
<1>3. CASE until' = until
  BY <1>1, <1>2, <1>3, RowKept
<1>4. CASE until' = [until EXCEPT ![c] = clock + Lease] /\ MemberOf[c] \in lapsed'
  <2>1. RowOf(c)'
    BY <1>4 DEF RowOf
  <2>. QED
    BY <1>1, <1>4, <2>1, OwnShows
<1>. QED
  BY <1>1, <1>3, <1>4

LEMMA LeaveDeletesShows ==
    ASSUME PInv, ShowsInv, NEW c \in Conns, LeaveDeletes(c)
    PROVE  ShowsInv'
<1>1. PICK is :
        /\ conn' = [conn EXCEPT ![c] = is] /\ is.at \in {"out", "deleted"}
        /\ \/ until[c] = 0
           \/ is.at = "out" /\ (news' \/ MemberOf[c] \in untold' \/ HasOther(MemberOf[c], c))
           \/ is.at = "deleted"
        /\ news => news'
        /\ untold \subseteq untold'
  <2>1. /\ [at |-> "out", arrived |-> FALSE].at = "out"
        /\ [at |-> "deleted", arrived |-> FALSE].at = "deleted"
    OBVIOUS
  <2>2. CASE until[c] # 0 /\ store = "table"
    <3>1. conn' = [conn EXCEPT ![c] = [at |-> "deleted", arrived |-> FALSE]]
          /\ news' = news /\ untold' = untold
      BY <2>2 DEF LeaveDeletes, Move
    <3>. QED
      BY <2>1, <3>1
  <2>3. CASE ~(until[c] # 0 /\ store = "table")
    <3>1. /\ conn' = [conn EXCEPT ![c] = [at |-> "out", arrived |-> FALSE]]
          /\ Tells(MemberOf[c], until[c] # 0 /\ ~HasOther(MemberOf[c], c))
      BY <2>3 DEF LeaveDeletes, Move
    <3>2. /\ news => news'
          /\ until[c] = 0 \/ news' \/ MemberOf[c] \in untold' \/ HasOther(MemberOf[c], c)
          /\ untold \subseteq untold'
      BY <3>1, TellsIs
    <3>. QED
      BY <2>1, <3>1, <3>2
  <2>. QED
    BY <2>2, <2>3
<1>2. /\ until' = [until EXCEPT ![c] = 0]
      /\ UNCHANGED <<clock, shown, lapsed>> /\ crossed \subseteq crossed'
      /\ conn[c].at = "leaving"
      /\ MemberOf[c] \in crossed'
            \/ \A d \in Conns : conn[d].at = "looked" => MemberOf[d] # MemberOf[c]
  BY DEF LeaveDeletes
<1>3. conn'[c] = is /\ until'[c] = 0
  BY <1>1, <1>2, OwnFacts
<1>4. RowOf(c)'
  BY <1>1, <1>2, <1>3 DEF RowOf
<1>5. ASSUME MemberOf[c] \notin lapsed' \cup crossed'
      PROVE  LookedInv(MemberOf[c])' /\ ToldInv(MemberOf[c])'
  <2>1. LookedInv(MemberOf[c]) /\ ToldInv(MemberOf[c])
    BY <1>2, <1>5, OwnFacts
  <2>2. LookedInv(MemberOf[c])'
    BY <1>1, <1>2, <1>5, <2>1, OwnLooked
  <2>3. until[c] > clock /\ until[c] # 0 /\ ~(0 > clock)
    BY <1>2, <1>5, OwnFacts DEF RowOf
  <2>4. IsLive(MemberOf[c]) /\ (IsLive(MemberOf[c])' <=> HasOther(MemberOf[c], c))
    BY <1>2, <2>3, OwnLive
  <2>5. \/ news' \/ MemberOf[c] \in untold'
        \/ ~news /\ (is.at = "deleted" \/ HasOther(MemberOf[c], c))
    BY <1>1, <2>3
  <2>6. ToldInv(MemberOf[c])'
    BY <1>1, <1>2, <2>1, <2>4, <2>5, OwnTold
  <2>. QED
    BY <2>2, <2>6
<1>. QED
  BY <1>1, <1>2, <1>4, <1>5, OwnShows

\* The steps no one enters or leaves by keep the rows of those who haven't
\* lapsed.
LEMMA LeasesShow ==
    ASSUME ShowsInv, news' = news, shown' = shown, untold' = untold,
           lapsed \subseteq lapsed', crossed' = crossed,
           \A c \in Conns : MemberOf[c] \notin lapsed' =>
               /\ conn'[c] = conn[c] \/ (conn[c].at = "out" /\ conn'[c].at = "out")
               /\ until[c] > clock <=> until'[c] > clock'
               /\ until[c] = 0 => until'[c] = 0
    PROVE  ShowsInv'
<1>1. ASSUME NEW c \in Conns
      PROVE  RowOf(c)'
  <2>1. SUFFICES ASSUME MemberOf[c] \notin lapsed'
        PROVE  RowOf(c)'
    BY DEF RowOf
  <2>2. RowOf(c) /\ MemberOf[c] \notin lapsed /\ conn'[c].at = conn[c].at
    BY <2>1 DEF ShowsInv
  <2>. QED
    BY <2>1, <2>2 DEF RowOf
<1>2. ASSUME NEW m \in Members \ (lapsed' \cup crossed')
      PROVE  LookedInv(m)' /\ ToldInv(m)'
  <2>1. LookedInv(m) /\ ToldInv(m)
    BY <1>2 DEF ShowsInv
  <2>2. \A d \in Conns : MemberOf[d] = m =>
            /\ conn'[d] = conn[d] \/ (conn[d].at = "out" /\ conn'[d].at = "out")
            /\ until[d] > clock <=> until'[d] > clock'
    BY <1>2
  <2>3. IsLive(m)' <=> IsLive(m)
    BY <2>2 DEF IsLive
  <2>4. \A d \in Conns : HasOther(m, d)' <=> HasOther(m, d)
    BY <2>2 DEF HasOther
  <2>5. LookedInv(m)'
    BY <2>1, <2>2, <2>4 DEF LookedInv
  <2>6. ToldInv(m)'
    BY <2>1, <2>2, <2>3 DEF ToldInv
  <2>. QED
    BY <2>5, <2>6
<1>. QED
  BY <1>1, <1>2 DEF ShowsInv

LEMMA KeepShows ==
    ASSUME PInv, ShowsInv, NEW h \in Hubs, Keep(h) \/ KeepFails(h) \/ KillHub(h)
    PROVE  ShowsInv'
<1>1. \A c \in Conns : RowOf(c) /\ until[c] \in Nat /\ clock \in Nat /\ clock + Lease > clock
  BY OwnFacts
<1>2. CASE Keep(h)
  <2>1. \A c \in Conns : MemberOf[c] \notin lapsed' =>
            /\ until[c] > clock <=> until'[c] > clock'
            /\ until[c] = 0 => until'[c] = 0
    BY <1>1, <1>2 DEF Keep, Keys, RowOf
  <2>2. conn' = conn /\ news' = news /\ shown' = shown /\ untold' = untold /\ lapsed' = lapsed /\ crossed' = crossed
    BY <1>2 DEF Keep
  <2>. QED
    BY <2>1, <2>2, LeasesShow
<1>3. CASE KeepFails(h)
  <2>1. lapsed \subseteq lapsed'
    BY <1>3 DEF KeepFails
  <2>2. conn' = conn /\ news' = news /\ shown' = shown /\ untold' = untold /\ crossed' = crossed
        /\ until' = until /\ clock' = clock
    BY <1>3 DEF KeepFails
  <2>. QED
    BY <2>1, <2>2, LeasesShow
<1>4. CASE KillHub(h)
  <2>1. \A c \in Conns : MemberOf[c] \notin lapsed' =>
            conn'[c] = conn[c] \/ (conn[c].at = "out" /\ conn'[c].at = "out")
    <3>1. ASSUME NEW c \in Conns, HubOf[c] # h
          PROVE  conn'[c] = conn[c]
      BY <1>4, <3>1 DEF KillHub
    <3>2. ASSUME NEW c \in Conns, HubOf[c] = h
          PROVE  conn'[c].at = "out"
      BY <1>4, <3>2 DEF KillHub
    <3>3. ASSUME NEW c \in Conns, HubOf[c] = h, conn[c].at # "out"
          PROVE  MemberOf[c] \in lapsed'
      BY <1>4, <3>3 DEF KillHub
    <3>. QED
      BY <3>1, <3>2, <3>3
  <2>2. lapsed \subseteq lapsed'
    BY <1>4 DEF KillHub
  <2>3. news' = news /\ shown' = shown /\ untold' = untold /\ crossed' = crossed /\ until' = until /\ clock' = clock
    BY <1>4 DEF KillHub
  <2>. QED
    BY <2>1, <2>2, <2>3, LeasesShow
<1>. QED
  BY <1>2, <1>3, <1>4

LEMMA PruneShows ==
    ASSUME PInv, ShowsInv, PrunePresence
    PROVE  ShowsInv'
<1>1. \A c \in Conns : until[c] \in Nat /\ clock \in Nat
  BY OwnFacts
<1>2. \A c \in Conns :
          /\ until[c] > clock <=> until'[c] > clock'
          /\ until[c] = 0 => until'[c] = 0
  BY <1>1 DEF PrunePresence
<1>3. conn' = conn /\ news' = news /\ shown' = shown /\ untold' = untold /\ lapsed' = lapsed /\ crossed' = crossed
  BY DEF PrunePresence
<1>. QED
  BY <1>2, <1>3, LeasesShow

\* The lease of a page that's in lasts past the tick, and no one else has a row.
LEMMA PresenceTickShows ==
    ASSUME PInv, ShowsInv, PresenceTick, PInv'
    PROVE  ShowsInv'
<1>1. OpenIsHere'
  BY LeaseLasts, PTL
<1>2. \A c \in Conns : RowOf(c) /\ until[c] \in Nat /\ clock \in Nat
  BY OwnFacts
<1>3. \A c \in Conns : MemberOf[c] \notin lapsed' => (until[c] > clock <=> until'[c] > clock')
  BY <1>1, <1>2 DEF PresenceTick, Tick, OpenIsHere, RowOf
<1>4. /\ conn' = conn /\ news' = news /\ shown' = shown /\ untold' = untold /\ lapsed' = lapsed /\ crossed' = crossed
      /\ until' = until
  BY DEF PresenceTick
<1>. QED
  BY <1>3, <1>4, LeasesShow

LEMMA LookShows ==
    ASSUME ShowsInv, Look
    PROVE  ShowsInv'
<1>1. \A m \in Members : m \in shown' <=> IsLive(m)'
  BY DEF Look, Here, IsLive, Members
<1>2. \A m \in Members : ToldInv(m)'
  BY <1>1 DEF ToldInv
<1>3. \A m \in Members : LookedInv(m) => LookedInv(m)'
  BY DEF Look, LookedInv, HasOther
<1>4. \A c \in Conns : RowOf(c) => RowOf(c)'
  BY DEF Look, RowOf
<1>. QED
  BY <1>2, <1>3, <1>4 DEF Look, ShowsInv

LEMMA ShowsStepKeeps ==
    ASSUME PInv, ShowsInv, [PresenceNext]_presenceVars, PInv'
    PROVE  ShowsInv'
<1>1. CASE UNCHANGED presenceVars
  <2>1. \A m \in Members : LookedInv(m)' = LookedInv(m) /\ ToldInv(m)' = ToldInv(m)
    BY <1>1 DEF presenceVars, LookedInv, ToldInv, IsLive, HasOther
  <2>. QED
    BY <1>1, <2>1 DEF presenceVars, ShowsInv, RowOf
<1>2. ASSUME NEW c \in Conns, Entering(c) PROVE ShowsInv'
  BY <1>2, EnterLooksShows, EnterWritesShows, FailsShows, EnterEndsShows DEF Entering
<1>3. ASSUME NEW c \in Conns, Leaving(c) PROVE ShowsInv'
  BY <1>3, LeaveShows, LeaveDeletesShows, LeaveTellsShows, FailsShows DEF Leaving
<1>4. ASSUME NEW h \in Hubs, Keep(h) \/ KeepFails(h) \/ KillHub(h) PROVE ShowsInv'
  BY <1>4, KeepShows
<1>5. CASE PrunePresence \/ PresenceTick \/ Look
  BY <1>5, PruneShows, PresenceTickShows, LookShows
<1>. QED
  BY <1>1, <1>2, <1>3, <1>4, <1>5 DEF PresenceNext

\* Once the page has read what it was told of, it shows a member just as the
\* member has a page open, unless a Publish failed to tell of them since it last
\* read, a lease of theirs ran out, or they entered as a page of theirs left
\* (Hub.Enter, its leave, the reload docs/broadcasting.md tells of).
THEOREM ShowsHere == PresenceSpec => []ShowsWhosHere
<1>1. PresenceInit => PInv /\ ShowsInv
  BY PresenceInitInv, ShowsInitInv
<1>2. PInv /\ ShowsInv /\ [PresenceNext]_presenceVars => (PInv /\ ShowsInv)'
  BY PresenceStepKeeps, ShowsStepKeeps
<1>3. PInv /\ ShowsInv => ShowsWhosHere
  BY ShowsGives
<1>. QED
  BY <1>1, <1>2, <1>3, PTL DEF PresenceSpec

-----------------------------------------------------------------------------
(* What instances share, together                                          *)

\* The variables of every part.
sharedVars ==
    <<part, clock, lockState, throttleState, hubVars, listeningState, presenceState,
      migrateVars>>

\* A step of one part leaves the state of the others, and which part it is.
LEMMA StepOfPart ==
    ASSUME [SharedNext]_sharedVars
    PROVE  /\ part' = part
           /\ [HubNext]_hubVars /\ [MigrateNext]_migrateVars
           /\ part = "lock" => [LockNext]_lockVars
           /\ part = "throttle" => [ThrottleNext]_throttleVars
           /\ part = "listening" => [ListeningNext]_listeningVars
           /\ part = "presence" => [PresenceNext]_presenceVars
<1>1. part' = part
  BY DEF SharedNext, sharedVars
<1>2. [HubNext]_hubVars /\ [MigrateNext]_migrateVars
  BY DEF SharedNext, sharedVars
<1>3. part = "lock" => [LockNext]_lockVars
  BY DEF SharedNext, sharedVars, lockState, lockVars
<1>4. part = "throttle" => [ThrottleNext]_throttleVars
  BY DEF SharedNext, sharedVars, throttleState, throttleVars
<1>5. part = "listening" => [ListeningNext]_listeningVars
  BY DEF SharedNext, sharedVars, listeningState, listeningVars
<1>6. part = "presence" => [PresenceNext]_presenceVars
  BY DEF SharedNext, sharedVars, presenceState, presenceVars
<1> QED
  BY <1>1, <1>2, <1>3, <1>4, <1>5, <1>6

\* What instances share is, seen from each part, that part's own behavior: so what's
\* proved of each holds of the composition that the run checks.  Hub and Migrate have
\* no state in common with another; the rest share the clock, whose ticks are a
\* part's own only in the behaviors of that part.
THEOREM SharedParts ==
    SharedSpec => /\ HubSpec /\ MigrateSpec
                  /\ part = "lock" => LockSpec
                  /\ part = "throttle" => ThrottleSpec
                  /\ part = "listening" => ListeningSpec
                  /\ part = "presence" => PresenceSpec
<1>1. SharedInit => /\ LockInit /\ ThrottleInit /\ HubInit /\ ListeningInit /\ PresenceInit
                    /\ MigrateInit
  BY DEF SharedInit
<1>2. SharedSpec => HubSpec
  <2>1. [SharedNext]_sharedVars => [HubNext]_hubVars
    BY StepOfPart
  <2> QED
    BY <1>1, <2>1, PTL DEF SharedSpec, HubSpec, sharedVars
<1>3. SharedSpec => MigrateSpec
  <2>1. [SharedNext]_sharedVars => [MigrateNext]_migrateVars
    BY StepOfPart
  <2> QED
    BY <1>1, <2>1, PTL DEF SharedSpec, MigrateSpec, sharedVars
<1>4. SharedSpec => (part = "lock" => LockSpec)
  <2>1. part = "lock" /\ [SharedNext]_sharedVars => (part = "lock")' /\ [LockNext]_lockVars
    BY StepOfPart
  <2> QED
    BY <1>1, <2>1, PTL DEF SharedSpec, LockSpec, sharedVars
<1>5. SharedSpec => (part = "throttle" => ThrottleSpec)
  <2>1. part = "throttle" /\ [SharedNext]_sharedVars
        => (part = "throttle")' /\ [ThrottleNext]_throttleVars
    BY StepOfPart
  <2> QED
    BY <1>1, <2>1, PTL DEF SharedSpec, ThrottleSpec, sharedVars
<1>6. SharedSpec => (part = "listening" => ListeningSpec)
  <2>1. part = "listening" /\ [SharedNext]_sharedVars
        => (part = "listening")' /\ [ListeningNext]_listeningVars
    BY StepOfPart
  <2> QED
    BY <1>1, <2>1, PTL DEF SharedSpec, ListeningSpec, sharedVars
<1>7. SharedSpec => (part = "presence" => PresenceSpec)
  <2>1. part = "presence" /\ [SharedNext]_sharedVars
        => (part = "presence")' /\ [PresenceNext]_presenceVars
    BY StepOfPart
  <2> QED
    BY <1>1, <2>1, PTL DEF SharedSpec, PresenceSpec, sharedVars
<1> QED
  BY <1>2, <1>3, <1>4, <1>5, <1>6, <1>7

\* In every run of what instances share: each part keeps, as it's at work, what it
\* keeps alone; migrations the record's truth too, as no answer is lost.
THEOREM SharedKeeps ==
    SharedSpec =>
        /\ ChangedStops
        /\ ~LostAnswers => []RecordTrue
        /\ [](/\ part = "lock" => LockTypeOK /\ HoldersRow
              /\ part = "throttle" => ThrottleTypeOK /\ NoneOverMax /\ AtMostTwoWindows
              /\ part = "listening" => ListeningTypeOK /\ HeardOnce /\ NonePassedOver
              /\ part = "presence" => PresenceTypeOK /\ OpenIsHere /\ ShowsWhosHere
              /\ HubTypeOK /\ MissesNothing
              /\ MigrateTypeOK /\ InOrder)
<1>1. SharedSpec => [](part = "lock" => LockTypeOK /\ HoldersRow)
  <2>1. [SharedNext]_sharedVars /\ ~(part = "lock") => (~(part = "lock"))'
    BY StepOfPart
  <2> QED
    BY <2>1, SharedParts, LockTypeCorrect, LockHoldersRow, PTL
       DEF SharedSpec, sharedVars
<1>2. SharedSpec => [](part = "throttle" => ThrottleTypeOK /\ NoneOverMax /\ AtMostTwoWindows)
  <2>1. [SharedNext]_sharedVars /\ ~(part = "throttle") => (~(part = "throttle"))'
    BY StepOfPart
  <2> QED
    BY <2>1, SharedParts, ThrottleTypeCorrect, NoTryOverMax, TwoWindowsAtMost, PTL
       DEF SharedSpec, sharedVars
<1>3. SharedSpec => [](part = "listening" => ListeningTypeOK /\ HeardOnce /\ NonePassedOver)
  <2>1. [SharedNext]_sharedVars /\ ~(part = "listening") => (~(part = "listening"))'
    BY StepOfPart
  <2> QED
    BY <2>1, SharedParts, ListeningTypeCorrect, Once, NoneLost, PTL
       DEF SharedSpec, sharedVars
<1>4. SharedSpec => [](part = "presence" => PresenceTypeOK /\ OpenIsHere /\ ShowsWhosHere)
  <2>1. [SharedNext]_sharedVars /\ ~(part = "presence") => (~(part = "presence"))'
    BY StepOfPart
  <2> QED
    BY <2>1, SharedParts, PresenceTypeCorrect, OpenStays, ShowsHere, PTL
       DEF SharedSpec, sharedVars
<1>5. SharedSpec => [](HubTypeOK /\ MissesNothing)
  BY SharedParts, HubTypeCorrect, FollowersMissNothing, PTL
<1>6. SharedSpec => [](MigrateTypeOK /\ InOrder)
  BY SharedParts, MigrateTypeCorrect, RunInOrder, PTL
<1>7. SharedSpec => ChangedStops
  BY SharedParts, ChangedStopsRun
<1>8. SharedSpec => (~LostAnswers => []RecordTrue)
  BY SharedParts, RecordIsTrue
<1> QED
  BY <1>1, <1>2, <1>3, <1>4, <1>5, <1>6, <1>7, <1>8, PTL

\* In every run of what instances share: the types of the part at work.
THEOREM SharedTypesHold == SharedSpec => []SharedTypesOK
<1>1. /\ part = "lock" => LockTypeOK /\ HoldersRow
      /\ part = "throttle" => ThrottleTypeOK /\ NoneOverMax /\ AtMostTwoWindows
      /\ part = "listening" => ListeningTypeOK /\ HeardOnce /\ NonePassedOver
      /\ part = "presence" => PresenceTypeOK /\ OpenIsHere /\ ShowsWhosHere
      /\ HubTypeOK /\ MissesNothing
      /\ MigrateTypeOK /\ InOrder
      => SharedTypesOK
  BY DEF SharedTypesOK
<1> QED
  BY <1>1, SharedKeeps, PTL
=============================================================================
