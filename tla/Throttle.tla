------------------------------ MODULE Throttle ------------------------------
(***************************************************************************)
(* auth.Throttle of one key, as the starter's login uses it: a try is      *)
(* counted before its password is checked, and a login that succeeds       *)
(* clears the key.  The starters' table keeps a window's end in whole      *)
(* milliseconds, of a clock that's finer.                                  *)
(***************************************************************************)
EXTENDS Clock, FiniteSets

CONSTANTS
    Logins,      \* the requests that log in, and again
    Max,         \* the tries a key has within the Window
    Window,      \* how long they count for, from the first of them
    Grain,       \* the ticks of a millisecond; 1 is the memory store
    Lag,         \* how long at most between reading the clock and the store's Hit
    MaxHits,     \* bound: how many tries are counted
    NoTries      \* what a key with no tries has

ASSUME ThrottleAssumption ==
    /\ Max \in Nat \ {0} /\ Window \in Nat /\ Grain \in Nat \ {0} /\ Lag \in Nat
    /\ Window % Grain = 0 /\ MaxHits \in Nat
    /\ NoTries \notin [n : Nat \ {0}, ends : Nat]

VARIABLES
    tries,       \* the store's row: how many tries, and when their window ends
    login,       \* login[r]: where request r is
    hits,        \* how many tries were counted
    lets         \* history: the tries let in since Clear and not a Window ago, each
                 \* its number and time

throttleVars == <<clock, tries, login, hits, lets>>

\* A time in whole milliseconds, as UnixMilli has it.
Milli(t) == (t \div Grain) * Grain

\* now is what Try read of the clock, n the tries Hit counted, this one too.
LoginStates == [at : {"idle", "try", "refused", "in"}, now : Nat, n : Nat]

Out == [at |-> "idle", now |-> 0, n |-> 0]

LogIn(r) ==
    /\ login[r].at = "idle"
    /\ login' = [login EXCEPT ![r] = [at |-> "try", now |-> clock, n |-> 0]]
    /\ UNCHANGED <<clock, tries, hits, lets>>

\* mutant: the instant a window ends is its own, not the next one's.
OverAfter(now) == tries = NoTries \/ tries.ends < Milli(now)

\* The key's window is over by now.
Over(now) == tries = NoTries \/ tries.ends <= Milli(now)

\* mutant: a new window ends as it begins.
CountedOn(now) ==
    IF Over(now) THEN [n |-> 1, ends |-> Milli(now)]
    ELSE [tries EXCEPT !.n = @ + 1]

\* The row a try at now leaves: one try more, or the first of a new window.
Counted(now) ==
    IF Over(now) THEN [n |-> 1, ends |-> Milli(now + Window)]
    ELSE [tries EXCEPT !.n = @ + 1]

\* Hit counts the try and reads the count in one step. Try returns 0, for a
\* try to make, or how long until the window ends.
Hit(r) ==
    /\ login[r].at = "try" /\ hits < MaxHits
    /\ LET now == login[r].now
           row == Counted(now)
           wait == IF row.n <= Max THEN 0 ELSE row.ends - now
       IN  /\ tries' = row
           /\ \/ /\ login' = [login EXCEPT ![r] =
                        [at |-> IF wait > 0 THEN "refused" ELSE "in", now |-> now, n |-> row.n]]
                 /\ lets' = IF wait > 0 THEN lets
                            ELSE {e \in lets : clock - e[2] < Window} \cup {<<hits, clock>>}
              \/ login' = [login EXCEPT ![r] = Out] /\ UNCHANGED lets
    /\ hits' = hits + 1
    /\ UNCHANGED clock

\* The store fails before it counted: the login is a 500.
HitFails(r) ==
    /\ login[r].at = "try"
    /\ login' = [login EXCEPT ![r] = Out]
    /\ UNCHANGED <<clock, tries, hits, lets>>

\* The password is wrong, or the wait is answered.
Answer(r) ==
    /\ login[r].at \in {"in", "refused"}
    /\ login' = [login EXCEPT ![r] = Out]
    /\ UNCHANGED <<clock, tries, hits, lets>>

\* The password is right, and the key's tries are forgotten, whosever.
Clear(r) ==
    /\ login[r].at = "in"
    /\ login' = [login EXCEPT ![r] = Out]
    /\ tries' = NoTries
    /\ lets' = {}
    /\ UNCHANGED <<clock, hits>>

\* The hourly job deletes a row whose window is over.
PruneTries ==
    /\ tries # NoTries /\ Over(clock)
    /\ tries' = NoTries
    /\ UNCHANGED <<clock, login, hits, lets>>

\* Time goes by, though not Lag with a try between its clock and the store.
ThrottleTick ==
    /\ Tick
    /\ \A r \in Logins : login[r].at = "try" => clock < login[r].now + Lag
    /\ UNCHANGED <<tries, login, hits, lets>>

ThrottleInit ==
    /\ clock = 0
    /\ tries = NoTries
    /\ login = [r \in Logins |-> Out]
    /\ hits = 0
    /\ lets = {}

ThrottleNext ==
    \/ \E r \in Logins : LogIn(r) \/ Hit(r) \/ HitFails(r) \/ Answer(r) \/ Clear(r)
    \/ PruneTries \/ ThrottleTick

ThrottleSpec == ThrottleInit /\ [][ThrottleNext]_throttleVars

-----------------------------------------------------------------------------
(* Properties                                                              *)

\* Types, of every variable.
ThrottleTypeOK ==
    /\ clock \in 0..MaxTime
    /\ tries = NoTries \/ tries \in [n : Nat \ {0}, ends : Nat]
    /\ login \in [Logins -> LoginStates]
    /\ hits \in 0..MaxHits
    /\ lets \subseteq (0..MaxHits) \X (0..MaxTime)

\* A try over Max is told how long to wait, never 0 or less, which would let
\* it in, though the window's end is in whole milliseconds and the clock Try
\* read before is finer: "the try shouldn't be made" (Try).
NoneOverMax == \A r \in Logins : login[r].at = "in" => login[r].n <= Max

\* However tries race, by clocks they read up to Lag before, and windows are
\* pruned as they're over, the tries let in within a Window, less what the
\* clocks are behind and a millisecond, are at most those of two windows,
\* unless one succeeded: a try whose clock is behind may start a window anew
\* that the job took.
AtMostTwoWindows ==
    \A t \in 0..clock :
        Cardinality({e \in lets : e[2] - t \in 0..(Window - Lag - Grain)}) <= 2 * Max
=============================================================================
