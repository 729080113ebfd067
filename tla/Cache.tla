------------------------------- MODULE Cache -------------------------------
(***************************************************************************)
(* cache.Remember of one key, which every step of it is about: the callers *)
(* of an instance share a flight, the instances share the store, and what  *)
(* a value is worked out from changes meanwhile, as the app deletes it.    *)
(***************************************************************************)
EXTENDS CacheStore, FiniteSets

CONSTANTS
    Callers,     \* the goroutines that call Remember, and again
    Instances,
    On,          \* On[c]: the instance caller c is on
    None,        \* no value, no flight, no caller
    MaxVersion,  \* how often what the value is worked out from may change
    Faults       \* whether the store may fail, fn fail, and an instance be killed

ASSUME RememberAssumption ==
    /\ On \in [Callers -> Instances]
    /\ MaxVersion \in Nat
    /\ Faults \in BOOLEAN
    /\ None \notin Callers \cup Nat

VARIABLES
    row,         \* the store's, of the key
    flights,     \* flights[i]: whose flight the key has on instance i
    call,        \* call[c]: where caller c is in Remember
    source,      \* what fn works the value out from: how often it changed
    writer,      \* whether the app has changed it, and not called Delete yet
    failedOn,    \* history: the instances a flight failed on
    raced        \* history: fn ran as Delete was called last, or Delete failed

cacheVars == <<clock, row, flights, call, source, writer, failedOn, raced>>

-----------------------------------------------------------------------------
(* Remember                                                                *)

Places == {"idle", "waiting", "told", "get", "fn", "work", "end", "close"}

\* flying is whether the call has the flight, on is whose flight it waits for.
Calls == [at : Places, flying : BOOLEAN, on : Callers \cup {None},
          value : Nat \cup {None}]

Idle == [at |-> "idle", flying |-> FALSE, on |-> None, value |-> None]

Go(c, is) == call' = [call EXCEPT ![c] = is]

\* mutant: each caller works it out.
RememberAlone(c) ==
    /\ call[c].at = "idle"
    /\ flights' = [flights EXCEPT ![On[c]] = c]
    /\ Go(c, [Idle EXCEPT !.at = "get", !.flying = TRUE])
    /\ UNCHANGED <<clock, row, source, writer, failedOn, raced>>

\* The key has a flight on the instance, which c waits for, or c is it.
Remember(c) ==
    /\ call[c].at = "idle"
    /\ LET f == flights[On[c]]
       IN  \/ /\ f # None
              /\ Go(c, [Idle EXCEPT !.at = "waiting", !.on = f])
              /\ UNCHANGED flights
           \/ /\ f = None
              /\ flights' = [flights EXCEPT ![On[c]] = c]
              /\ Go(c, [Idle EXCEPT !.at = "get", !.flying = TRUE])
    /\ UNCHANGED <<clock, row, source, writer, failedOn, raced>>

\* remember returns v: the flight, if c has it, is given v and yet to end.
Returns(c, v) ==
    Go(c, IF call[c].flying THEN [call[c] EXCEPT !.at = "end", !.value = v] ELSE Idle)

\* remember reads the store. An error is no value.
GetRow(c) ==
    /\ call[c].at = "get"
    /\ \/ Live(row, clock) /\ Returns(c, row.value)
       \/ (~Live(row, clock) \/ Faults) /\ Go(c, [call[c] EXCEPT !.at = "fn"])
    /\ UNCHANGED <<clock, row, flights, source, writer, failedOn, raced>>

\* fn reads what the value is worked out from.
FnReads(c) ==
    /\ call[c].at = "fn"
    /\ Go(c, [call[c] EXCEPT !.at = "work", !.value = source])
    /\ UNCHANGED <<clock, row, flights, source, writer, failedOn, raced>>

\* fn returns its value, which is kept from then on: a store that fails, before
\* it kept the value or after, is only logged.
Keep(c) ==
    /\ call[c].at = "work"
    /\ \/ row' = Row(call[c].value, clock)
       \/ Faults /\ UNCHANGED row
    /\ Returns(c, call[c].value)
    /\ UNCHANGED <<clock, flights, source, writer, failedOn, raced>>

\* mutant: no defer, so that a panic leaves the flight as it is.
FnDies(c) ==
    /\ Faults /\ call[c].at = "work"
    /\ Go(c, Idle)
    /\ UNCHANGED <<clock, row, flights, source, writer, failedOn, raced>>

\* mutant: what fn returns with its error is kept too.
FnFailsKept(c) ==
    /\ Faults /\ call[c].at = "work"
    /\ Returns(c, None)
    /\ row' = Row(None, clock)
    /\ UNCHANGED <<clock, flights, source, writer, failedOn, raced>>

\* fn returns an error, or panics: nothing is kept.
FnFails(c) ==
    /\ Faults /\ call[c].at = "work"
    /\ Returns(c, None)
    /\ UNCHANGED <<clock, row, flights, source, writer, failedOn, raced>>

\* The deferred function takes the flight out of the map,
EndFlight(c) ==
    /\ call[c].at = "end"
    /\ flights' = [flights EXCEPT ![On[c]] = None]
    /\ failedOn' = IF call[c].value = None THEN failedOn \cup {On[c]} ELSE failedOn
    /\ Go(c, [call[c] EXCEPT !.at = "close"])
    /\ UNCHANGED <<clock, row, source, writer, raced>>

\* and then closes its channel, which tells those who wait for it its value.
Close(c) ==
    /\ call[c].at = "close"
    /\ call' = [d \in Callers |->
                   IF d = c THEN Idle
                   ELSE IF call[d].at = "waiting" /\ call[d].on = c
                        THEN [call[d] EXCEPT !.at = "told", !.on = None, !.value = call[c].value]
                        ELSE call[d]]
    /\ UNCHANGED <<clock, row, flights, source, writer, failedOn, raced>>

\* One who waited has the flight's value, or works it out with no flight.
Told(c) ==
    /\ call[c].at = "told"
    /\ Go(c, IF call[c].value # None THEN Idle ELSE [Idle EXCEPT !.at = "get"])
    /\ UNCHANGED <<clock, row, flights, source, writer, failedOn, raced>>

\* The context of one who waits is done.
GiveUp(c) ==
    /\ call[c].at \in {"waiting", "told"}
    /\ Go(c, Idle)
    /\ UNCHANGED <<clock, row, flights, source, writer, failedOn, raced>>

CallerStep(c) ==
    \/ GetRow(c) \/ FnReads(c) \/ Keep(c) \/ FnFails(c)
    \/ EndFlight(c) \/ Close(c) \/ Told(c)

-----------------------------------------------------------------------------
(* The app around it                                                       *)

\* The app changes what the value is worked out from,
Change ==
    /\ writer = "idle" /\ source < MaxVersion
    /\ source' = source + 1
    /\ writer' = "changed"
    /\ UNCHANGED <<clock, row, flights, call, failedOn, raced>>

\* What fn read before the change is on its way to the store, or to a caller.
StaleAtWork == \E c \in Callers : call[c].value # None /\ call[c].value # source

\* mutant: Delete is of another key.
DeleteElsewhere ==
    /\ writer = "changed"
    /\ writer' = "idle"
    /\ raced' = StaleAtWork
    /\ UNCHANGED <<clock, row, flights, call, source, failedOn>>

\* and drops the value, unless the store fails.
Delete ==
    /\ writer = "changed"
    /\ writer' = "idle"
    /\ \/ row' = NoRow /\ raced' = StaleAtWork
       \/ Faults /\ UNCHANGED row /\ raced' = TRUE
    /\ UNCHANGED <<clock, flights, call, source, failedOn>>

\* The row goes once it has expired.
PruneRow ==
    /\ row # NoRow /\ ~Live(row, clock)
    /\ row' = NoRow
    /\ UNCHANGED <<clock, flights, call, source, writer, failedOn, raced>>

\* An instance is killed, with the calls and the flight it has.
Kill(i) ==
    /\ Faults
    /\ flights' = [flights EXCEPT ![i] = None]
    /\ call' = [c \in Callers |-> IF On[c] = i THEN Idle ELSE call[c]]
    /\ UNCHANGED <<clock, row, source, writer, failedOn, raced>>

CacheTick == Tick /\ UNCHANGED <<row, flights, call, source, writer, failedOn, raced>>

-----------------------------------------------------------------------------
(* The specification                                                       *)

CacheInit ==
    /\ clock = 0
    /\ row = NoRow
    /\ flights = [i \in Instances |-> None]
    /\ call = [c \in Callers |-> Idle]
    /\ source = 0
    /\ writer = "idle"
    /\ failedOn = {}
    /\ raced = FALSE

CacheNext ==
    \/ \E c \in Callers : Remember(c) \/ CallerStep(c) \/ GiveUp(c)
    \/ \E i \in Instances : Kill(i)
    \/ Change \/ Delete \/ PruneRow \/ CacheTick

CacheSpec == CacheInit /\ [][CacheNext]_cacheVars

\* A goroutine that isn't waiting is run, and fn returns: nothing else is
\* asked of the app.
CacheFairness == \A c \in Callers : WF_cacheVars(CallerStep(c))

FairCacheSpec == CacheSpec /\ CacheFairness

-----------------------------------------------------------------------------
(* Properties                                                              *)

\* Types, of every variable.
CacheTypeOK ==
    /\ clock \in 0..MaxTime
    /\ row = NoRow \/ row \in [value : 0..MaxVersion, expires : Nat]
    /\ flights \in [Instances -> Callers \cup {None}]
    /\ call \in [Callers -> Calls]
    /\ source \in 0..MaxVersion
    /\ writer \in {"idle", "changed"}
    /\ failedOn \subseteq Instances
    /\ raced \in BOOLEAN

InFn(c) == call[c].at \in {"fn", "work"}

\* "fn runs once at a time for a key in this process" (Remember, flights):
\* until a flight has failed, whose callers then each work it out.
OneFnAtATime ==
    \A c, d \in Callers :
        InFn(c) /\ InFn(d) /\ On[c] = On[d] => c = d \/ On[c] \in failedOn

\* Once the app has changed what a value is worked out from and Delete has
\* returned, no one is given the old value, from the store or through a
\* flight, unless it was on its way as Delete was called, or Delete failed.
FreshUnlessRaced ==
    writer = "idle" /\ ~raced =>
        /\ row # NoRow => row.value = source
        /\ \A c \in Callers : call[c].value \in {None, source}

\* Every Remember returns, though fn fails or panics with others waiting for
\* its flight, and though a new flight starts before they're told.
CallsEnd == \A c \in Callers : call[c].at # "idle" ~> call[c].at = "idle"
=============================================================================
