----------------------------- MODULE AppProofs -----------------------------
(***************************************************************************)
(* What is proved of what one process does beside its requests: of Cache,  *)
(* for any number of callers, instances and changes, that one fn runs at a *)
(* time and none is given an old value, and of Serve, for any servers and  *)
(* work, that nothing runs on as it returns.                               *)
(***************************************************************************)
EXTENDS MCApp, TLAPS

USE RememberAssumption, CacheAssumption, ClockAssumption, ServeAssumption

-----------------------------------------------------------------------------
(* Remember: the invariant                                                 *)

\* What a call has at each step of it.
CallInv(c) ==
    /\ call[c].value \in (0..MaxVersion) \cup {None}
    /\ call[c].at \in {"idle", "waiting", "get", "fn"} => call[c].value = None
    /\ call[c].at = "work" => call[c].value # None
    /\ call[c].at \in {"end", "close"} => call[c].flying
    /\ call[c].at = "waiting" => call[c].on \in Callers /\ On[call[c].on] = On[c]

\* The instance's flight is the call's that flies, until it has ended.
FlightInv(c) ==
    /\ call[c].flying /\ call[c].at \in {"get", "fn", "work", "end"} => flights[On[c]] = c
    /\ flights[On[c]] # None => flights[On[c]] \in Callers /\ On[flights[On[c]]] = On[c]

\* A call has no flight of its own only as the one it waited for has failed.
AloneInv(c) ==
    /\ call[c].at \in {"get", "fn", "work"} /\ ~call[c].flying => On[c] \in failedOn
    /\ call[c].at \in {"told", "close"} /\ call[c].value = None => On[c] \in failedOn

CallsInv == \A c \in Callers : CallInv(c) /\ FlightInv(c) /\ AloneInv(c)

CInv == CacheTypeOK /\ CallsInv /\ FreshUnlessRaced

LEMMA OneFlies ==
    ASSUME CInv
    PROVE  OneFnAtATime
<1> SUFFICES ASSUME NEW c \in Callers, NEW d \in Callers, InFn(c), InFn(d), On[c] = On[d],
                    On[c] \notin failedOn
             PROVE  c = d
  BY DEF OneFnAtATime
<1>1. call[c].flying /\ call[d].flying
  BY DEF CInv, CallsInv, AloneInv, InFn
<1>. QED
  BY <1>1 DEF CInv, CallsInv, FlightInv, InFn

LEMMA IdleType == Idle \in Calls /\ Idle.at = "idle" /\ Idle.value = None /\ ~Idle.flying
BY DEF Idle, Calls, Places

LEMMA CacheInitInv ==
    ASSUME CacheInit
    PROVE  CInv
<1>1. CacheTypeOK
  <2>1. call \in [Callers -> Calls] /\ flights \in [Instances -> Callers \cup {None}]
    BY IdleType DEF CacheInit
  <2>2. clock \in 0..MaxTime /\ source \in 0..MaxVersion
    BY DEF CacheInit
  <2>. QED
    BY <2>1, <2>2 DEF CacheInit, CacheTypeOK
<1>2. CallsInv
  BY IdleType DEF CacheInit, CallsInv, CallInv, FlightInv, AloneInv
<1>. QED
  BY <1>1, <1>2, IdleType DEF CacheInit, CInv, FreshUnlessRaced

-----------------------------------------------------------------------------
(* Remember: a step of one call                                            *)

\* A step of c alone, that leaves the flights as they are.
LEMMA CallKeeps ==
    ASSUME CInv, NEW c \in Callers, NEW is \in Calls,
           call' = [call EXCEPT ![c] = is],
           UNCHANGED <<clock, flights, source, writer, failedOn, raced>>,
           row' = NoRow \/ row' \in [value : 0..MaxVersion, expires : Nat],
           CallInv(c)', AloneInv(c)',
           is.flying /\ is.at \in {"get", "fn", "work", "end"} =>
              call[c].flying /\ call[c].at \in {"get", "fn", "work", "end"},
           writer = "idle" /\ ~raced =>
              /\ row' # NoRow => row'.value = source
              /\ is.value \in {None, source}
    PROVE  CInv'
<1>1. call \in [Callers -> Calls]
  BY DEF CInv, CacheTypeOK
<1>2. call'[c] = is /\ \A d \in Callers \ {c} : call'[d] = call[d]
  BY <1>1
<1>3. CacheTypeOK'
  BY <1>1 DEF CInv, CacheTypeOK
<1>4. CallsInv'
  <2> SUFFICES ASSUME NEW d \in Callers PROVE (CallInv(d) /\ FlightInv(d) /\ AloneInv(d))'
    BY DEF CallsInv
  <2>1. CASE d = c
    BY <1>2, <2>1 DEF CInv, CallsInv, FlightInv
  <2>2. CASE d # c
    BY <1>2, <2>2 DEF CInv, CallsInv, CallInv, FlightInv, AloneInv
  <2>. QED
    BY <2>1, <2>2
<1>5. FreshUnlessRaced'
  BY <1>2 DEF CInv, FreshUnlessRaced
<1>. QED
  BY <1>3, <1>4, <1>5 DEF CInv

LEMMA RememberKeeps ==
    ASSUME CInv, NEW c \in Callers, Remember(c)
    PROVE  CInv'
<1>. DEFINE f == flights[On[c]]
<1>0. call \in [Callers -> Calls] /\ flights \in [Instances -> Callers \cup {None}]
      /\ On \in [Callers -> Instances] /\ call[c].at = "idle"
  BY DEF CInv, CacheTypeOK, Remember
<1>1. CASE f # None /\ Go(c, [Idle EXCEPT !.at = "waiting", !.on = f]) /\ UNCHANGED flights
  <2>. DEFINE is == [Idle EXCEPT !.at = "waiting", !.on = f]
  <2>1. f \in Callers /\ On[f] = On[c]
    BY <1>1 DEF CInv, CallsInv, FlightInv
  <2>2. is \in Calls /\ is.at = "waiting" /\ is.on = f /\ is.value = None /\ ~is.flying
    BY <2>1 DEF Idle, Calls, Places
  <2>3. call' = [call EXCEPT ![c] = is] /\ UNCHANGED <<clock, row, flights, source, writer, failedOn, raced>>
    BY <1>1 DEF Go, Remember
  <2>. HIDE DEF is, f
  <2>4. CallInv(c)' /\ AloneInv(c)'
    BY <1>0, <2>1, <2>2, <2>3 DEF CallInv, AloneInv
  <2>. QED
    BY <2>2, <2>3, <2>4, CallKeeps DEF CInv, CacheTypeOK, FreshUnlessRaced
<1>2. CASE /\ f = None
           /\ flights' = [flights EXCEPT ![On[c]] = c]
           /\ Go(c, [Idle EXCEPT !.at = "get", !.flying = TRUE])
  <2>. DEFINE is == [Idle EXCEPT !.at = "get", !.flying = TRUE]
  <2>1. is \in Calls /\ is.at = "get" /\ is.value = None /\ is.flying
    BY DEF Idle, Calls, Places
  <2>2. /\ call' = [call EXCEPT ![c] = is] /\ flights' = [flights EXCEPT ![On[c]] = c]
        /\ UNCHANGED <<clock, row, source, writer, failedOn, raced>>
    BY <1>2 DEF Go, Remember
  <2>. HIDE DEF is
  <2>3. call'[c] = is /\ \A d \in Callers \ {c} : call'[d] = call[d]
    BY <1>0, <2>2
  <2>4. flights'[On[c]] = c /\ \A i \in Instances \ {On[c]} : flights'[i] = flights[i]
    BY <1>0, <2>2
  <2>5. CacheTypeOK'
    BY <1>0, <2>1, <2>2 DEF CInv, CacheTypeOK
  <2>6. CallsInv'
    <3> SUFFICES ASSUME NEW d \in Callers PROVE (CallInv(d) /\ FlightInv(d) /\ AloneInv(d))'
      BY DEF CallsInv
    <3>1. CASE d = c
      BY <2>1, <2>2, <2>3, <2>4, <3>1 DEF CallInv, FlightInv, AloneInv
    <3>2. CASE d # c
      <4>1. CallInv(d) /\ FlightInv(d) /\ AloneInv(d) /\ call'[d] = call[d]
        BY <2>3, <3>2 DEF CInv, CallsInv
      <4>2. CallInv(d)' /\ AloneInv(d)'
        BY <2>2, <4>1 DEF CallInv, AloneInv
      <4>3. CASE On[d] = On[c]
        BY <1>2, <2>4, <4>1, <4>2, <4>3 DEF FlightInv
      <4>4. CASE On[d] # On[c]
        BY <1>0, <2>4, <4>1, <4>2, <4>4 DEF FlightInv
      <4>. QED
        BY <4>2, <4>3, <4>4
    <3>. QED
      BY <3>1, <3>2
  <2>7. FreshUnlessRaced'
    BY <2>1, <2>2, <2>3 DEF CInv, FreshUnlessRaced
  <2>. QED
    BY <2>5, <2>6, <2>7 DEF CInv
<1>. QED
  BY <1>1, <1>2 DEF Remember

\* What remember's return leaves of its caller.
LEMMA ReturnsKeeps ==
    ASSUME CInv, NEW c \in Callers, call[c].at \in {"get", "work"},
           NEW v \in (0..MaxVersion) \cup {None}, Returns(c, v),
           UNCHANGED <<clock, flights, source, writer, failedOn, raced>>,
           row' = NoRow \/ row' \in [value : 0..MaxVersion, expires : Nat],
           writer = "idle" /\ ~raced =>
              /\ row' # NoRow => row'.value = source
              /\ v \in {None, source}
    PROVE  CInv'
<1>. DEFINE is == IF call[c].flying THEN [call[c] EXCEPT !.at = "end", !.value = v] ELSE Idle
<1>1. call[c] \in Calls /\ call \in [Callers -> Calls]
  BY DEF CInv, CacheTypeOK
<1>0. v \in Nat \cup {None}
  OBVIOUS
<1>2. /\ is \in Calls
      /\ is.at \in {"end", "idle"} /\ (is.at = "end" => call[c].flying /\ is.flying /\ is.value = v)
      /\ (is.at = "idle" => is.value = None /\ ~is.flying)
  <2>1. CASE call[c].flying
    BY <1>0, <1>1, <2>1 DEF Calls, Places
  <2>2. CASE ~call[c].flying
    BY <2>2, IdleType
  <2>. QED
    BY <2>1, <2>2
<1>3. call' = [call EXCEPT ![c] = is]
  BY DEF Returns, Go
<1>. HIDE DEF is
<1>4. CallInv(c)' /\ AloneInv(c)'
  BY <1>1, <1>2, <1>3 DEF CallInv, AloneInv
<1>. QED
  BY <1>2, <1>3, <1>4, CallKeeps

LEMMA ReadsKeeps ==
    ASSUME CInv, NEW c \in Callers, GetRow(c) \/ FnReads(c)
    PROVE  CInv'
<1>1. /\ call[c] \in Calls /\ call \in [Callers -> Calls] /\ source \in 0..MaxVersion
      /\ row = NoRow \/ row \in [value : 0..MaxVersion, expires : Nat]
      /\ CallInv(c) /\ AloneInv(c)
      /\ writer = "idle" /\ ~raced /\ row # NoRow => row.value = source
  BY DEF CInv, CacheTypeOK, CallsInv, FreshUnlessRaced
<1>2. UNCHANGED <<clock, row, flights, source, writer, failedOn, raced>>
  BY DEF GetRow, FnReads
<1>3. CASE call[c].at = "get" /\ Live(row, clock) /\ Returns(c, row.value)
  <2>1. row # NoRow /\ row.value \in 0..MaxVersion
    BY <1>1, <1>3 DEF Live
  <2>. QED
    BY <1>1, <1>2, <1>3, <2>1, ReturnsKeeps
<1>4. CASE call[c].at = "get" /\ Go(c, [call[c] EXCEPT !.at = "fn"])
  <2>. DEFINE is == [call[c] EXCEPT !.at = "fn"]
  <2>1. is \in Calls /\ is.at = "fn" /\ is.value = None /\ is.flying = call[c].flying
    BY <1>1, <1>4 DEF Calls, Places, CallInv
  <2>2. call' = [call EXCEPT ![c] = is]
    BY <1>4 DEF Go
  <2>. HIDE DEF is
  <2>3. CallInv(c)' /\ AloneInv(c)'
    BY <1>1, <1>2, <1>4, <2>1, <2>2 DEF CallInv, AloneInv
  <2>. QED
    BY <1>1, <1>2, <1>4, <2>1, <2>2, <2>3, CallKeeps
<1>5. CASE FnReads(c)
  <2>. DEFINE is == [call[c] EXCEPT !.at = "work", !.value = source]
  <2>0. source \in Nat
    BY <1>1
  <2>1. is \in Calls /\ is.at = "work" /\ is.value = source /\ is.flying = call[c].flying
    BY <1>1, <2>0 DEF Calls, Places
  <2>2. call' = [call EXCEPT ![c] = is] /\ call[c].at = "fn"
    BY <1>5 DEF FnReads, Go
  <2>3. source # None
    BY <1>1
  <2>. HIDE DEF is
  <2>4. CallInv(c)' /\ AloneInv(c)'
    BY <1>1, <1>2, <2>1, <2>2, <2>3 DEF CallInv, AloneInv
  <2>. QED
    BY <1>1, <1>2, <2>1, <2>2, <2>4, CallKeeps
<1>. QED
  BY <1>3, <1>4, <1>5 DEF GetRow

LEMMA FnEndsKeeps ==
    ASSUME CInv, NEW c \in Callers, Keep(c) \/ FnFails(c)
    PROVE  CInv'
<1>1. /\ call[c] \in Calls /\ clock \in Nat /\ call[c].at = "work" /\ call[c].value # None
      /\ row = NoRow \/ row \in [value : 0..MaxVersion, expires : Nat]
      /\ writer = "idle" /\ ~raced =>
            (row # NoRow => row.value = source) /\ call[c].value \in {None, source}
  BY DEF CInv, CacheTypeOK, CallsInv, CallInv, FreshUnlessRaced, Keep, FnFails
<1>2. UNCHANGED <<clock, flights, source, writer, failedOn, raced>>
  BY DEF Keep, FnFails
<1>3. CASE FnFails(c)
  BY <1>1, <1>2, <1>3, ReturnsKeeps DEF FnFails
<1>4. CASE Keep(c)
  <2>. DEFINE v == call[c].value
  <2>1. Returns(c, v) /\ (row' = Row(v, clock) \/ row' = row)
    BY <1>4 DEF Keep
  <2>2. v \in 0..MaxVersion
    BY <1>1 DEF CInv, CallsInv, CallInv
  <2>3. Row(v, clock) \in [value : 0..MaxVersion, expires : Nat] /\ Row(v, clock).value = v
    BY <1>1, <2>2 DEF Row
  <2>4. writer = "idle" /\ ~raced => v = source /\ (row # NoRow => row.value = source)
    BY <1>1
  <2>. HIDE DEF v
  <2>5. /\ row' = NoRow \/ row' \in [value : 0..MaxVersion, expires : Nat]
        /\ writer = "idle" /\ ~raced /\ row' # NoRow => row'.value = source
    BY <1>1, <2>1, <2>3, <2>4
  <2>. QED
    BY <1>1, <1>2, <2>1, <2>2, <2>4, <2>5, ReturnsKeeps
<1>. QED
  BY <1>3, <1>4

\* The flight is out of the map, which says so of one that failed.
LEMMA EndFlightKeeps ==
    ASSUME CInv, NEW c \in Callers, EndFlight(c)
    PROVE  CInv'
<1>. DEFINE is == [call[c] EXCEPT !.at = "close"]
<1>1. /\ call[c] \in Calls /\ call \in [Callers -> Calls] /\ call[c].at = "end"
      /\ flights \in [Instances -> Callers \cup {None}] /\ On \in [Callers -> Instances]
      /\ call[c].flying /\ flights[On[c]] = c
  BY DEF CInv, CacheTypeOK, CallsInv, CallInv, FlightInv, EndFlight
<1>2. is \in Calls /\ is.at = "close" /\ is.value = call[c].value /\ is.flying
  BY <1>1 DEF Calls, Places
<1>3. /\ call' = [call EXCEPT ![c] = is] /\ flights' = [flights EXCEPT ![On[c]] = None]
      /\ failedOn' = IF call[c].value = None THEN failedOn \cup {On[c]} ELSE failedOn
      /\ UNCHANGED <<clock, row, source, writer, raced>>
  BY DEF EndFlight, Go
<1>. HIDE DEF is
<1>4. call'[c] = is /\ \A d \in Callers \ {c} : call'[d] = call[d]
  BY <1>1, <1>3
<1>5. flights'[On[c]] = None /\ \A i \in Instances \ {On[c]} : flights'[i] = flights[i]
  BY <1>1, <1>3
<1>6. CacheTypeOK'
  BY <1>1, <1>2, <1>3 DEF CInv, CacheTypeOK
<1>7. failedOn \subseteq failedOn' /\ (is.value = None => On[c] \in failedOn')
  BY <1>2, <1>3
<1>8. CallsInv'
  <2> SUFFICES ASSUME NEW d \in Callers PROVE (CallInv(d) /\ FlightInv(d) /\ AloneInv(d))'
    BY DEF CallsInv
  <2>1. CallInv(d) /\ FlightInv(d) /\ AloneInv(d)
    BY DEF CInv, CallsInv
  <2>2. CASE d = c
    BY <1>2, <1>4, <1>5, <1>7, <2>1, <2>2 DEF CallInv, FlightInv, AloneInv
  <2>3. CASE d # c
    <3>1. CallInv(d)' /\ AloneInv(d)'
      BY <1>4, <1>7, <2>1, <2>3 DEF CallInv, AloneInv
    <3>2. CASE On[d] = On[c]
      BY <1>1, <1>4, <1>5, <2>1, <2>3, <3>1, <3>2 DEF FlightInv
    <3>3. CASE On[d] # On[c]
      BY <1>1, <1>4, <1>5, <2>1, <2>3, <3>1, <3>3 DEF FlightInv
    <3>. QED
      BY <3>1, <3>2, <3>3
  <2>. QED
    BY <2>2, <2>3
<1>9. FreshUnlessRaced'
  BY <1>2, <1>3, <1>4 DEF CInv, FreshUnlessRaced
<1>. QED
  BY <1>6, <1>8, <1>9 DEF CInv

\* Those who wait for the flight are told its value.
LEMMA CloseKeeps ==
    ASSUME CInv, NEW c \in Callers, Close(c)
    PROVE  CInv'
<1>1. /\ call[c].at = "close" /\ UNCHANGED <<clock, row, flights, source, writer, failedOn, raced>>
      /\ call' = [d \in Callers |->
                     IF d = c THEN Idle
                     ELSE IF call[d].at = "waiting" /\ call[d].on = c
                          THEN [call[d] EXCEPT !.at = "told", !.on = None, !.value = call[c].value]
                          ELSE call[d]]
  BY DEF Close
<1>2. call \in [Callers -> Calls] /\ CallInv(c) /\ AloneInv(c)
  BY DEF CInv, CacheTypeOK, CallsInv
<1>3. ASSUME NEW d \in Callers
      PROVE  /\ call'[d] \in Calls /\ (CallInv(d) /\ FlightInv(d) /\ AloneInv(d))'
             /\ call'[d].value \in {None, call[c].value, call[d].value}
  <2>1. CallInv(d) /\ FlightInv(d) /\ AloneInv(d) /\ call[d] \in Calls
    BY DEF CInv, CacheTypeOK, CallsInv
  <2>2. CASE d = c
    <3>1. call'[d] = Idle
      BY <1>1, <2>2
    <3>. QED
      BY <1>1, <2>1, <3>1, IdleType DEF CallInv, FlightInv, AloneInv
  <2>3. CASE d # c /\ call[d].at = "waiting" /\ call[d].on = c
    <3>. DEFINE is == [call[d] EXCEPT !.at = "told", !.on = None, !.value = call[c].value]
    <3>1. is \in Calls /\ is.at = "told" /\ is.value = call[c].value
      BY <1>2, <2>1 DEF Calls, Places
    <3>2. call'[d] = is
      BY <1>1, <2>3
    <3>3. is.value = None => On[d] \in failedOn
      BY <1>1, <1>2, <2>1, <2>3, <3>1 DEF AloneInv, CallInv
    <3>. HIDE DEF is
    <3>. QED
      BY <1>1, <1>2, <2>1, <3>1, <3>2, <3>3 DEF CallInv, FlightInv, AloneInv
  <2>4. CASE d # c /\ ~(call[d].at = "waiting" /\ call[d].on = c)
    <3>1. call'[d] = call[d]
      BY <1>1, <2>4
    <3>. QED
      BY <1>1, <2>1, <3>1 DEF CallInv, FlightInv, AloneInv
  <2>. QED
    BY <2>2, <2>3, <2>4
<1>4. CacheTypeOK'
  <2>1. call' \in [Callers -> Calls]
    BY <1>1, <1>3
  <2>. QED
    BY <1>1, <2>1 DEF CInv, CacheTypeOK
<1>5. CallsInv'
  BY <1>3 DEF CallsInv
<1>6. FreshUnlessRaced'
  BY <1>1, <1>3 DEF CInv, FreshUnlessRaced
<1>. QED
  BY <1>4, <1>5, <1>6 DEF CInv

LEMMA WaitsKeeps ==
    ASSUME CInv, NEW c \in Callers, Told(c) \/ GiveUp(c)
    PROVE  CInv'
<1>1. /\ UNCHANGED <<clock, row, flights, source, writer, failedOn, raced>>
      /\ AloneInv(c) /\ call \in [Callers -> Calls] /\ FreshUnlessRaced
      /\ row = NoRow \/ row \in [value : 0..MaxVersion, expires : Nat]
  BY DEF CInv, CallsInv, CacheTypeOK, Told, GiveUp
<1>2. CASE Go(c, Idle)
  <2>1. call' = [call EXCEPT ![c] = Idle]
    BY <1>2 DEF Go
  <2>2. CallInv(c)' /\ AloneInv(c)'
    BY <1>1, <2>1, IdleType DEF CallInv, AloneInv
  <2>. QED
    BY <1>1, <2>1, <2>2, IdleType, CallKeeps DEF FreshUnlessRaced
<1>3. CASE Told(c) /\ call[c].value = None
  <2>. DEFINE is == [Idle EXCEPT !.at = "get"]
  <2>1. is \in Calls /\ is.at = "get" /\ is.value = None /\ ~is.flying
    BY DEF Idle, Calls, Places
  <2>2. call' = [call EXCEPT ![c] = is] /\ On[c] \in failedOn
    BY <1>1, <1>3 DEF Told, Go, AloneInv
  <2>. HIDE DEF is
  <2>3. CallInv(c)' /\ AloneInv(c)'
    BY <1>1, <2>1, <2>2 DEF CallInv, AloneInv
  <2>. QED
    BY <1>1, <2>1, <2>2, <2>3, CallKeeps DEF FreshUnlessRaced
<1>. QED
  BY <1>2, <1>3 DEF Told, GiveUp

-----------------------------------------------------------------------------
(* Remember: the app around it                                             *)

\* Steps that leave the calls as they are. A Delete that no old value was on
\* its way past leaves none.
LEMMA AroundKeeps ==
    ASSUME CInv, Change \/ Delete \/ PruneRow \/ CacheTick
    PROVE  CInv'
<1>1. UNCHANGED <<flights, call, failedOn>>
  BY DEF Change, Delete, PruneRow, CacheTick
<1>2. CallsInv'
  BY <1>1 DEF CInv, CallsInv, CallInv, FlightInv, AloneInv
<1>3. CASE Change
  <2>1. CacheTypeOK'
    BY <1>1, <1>3 DEF CInv, CacheTypeOK, Change
  <2>. QED
    BY <1>2, <1>3, <2>1 DEF CInv, FreshUnlessRaced, Change
<1>4. CASE Delete
  <2>1. StaleAtWork \in BOOLEAN
    BY DEF StaleAtWork
  <2>2. CacheTypeOK'
    BY <1>1, <1>4, <2>1 DEF CInv, CacheTypeOK, Delete
  <2>3. FreshUnlessRaced'
    BY <1>1, <1>4 DEF FreshUnlessRaced, Delete, StaleAtWork
  <2>. QED
    BY <1>2, <2>2, <2>3 DEF CInv
<1>5. CASE PruneRow
  <2>1. CacheTypeOK'
    BY <1>1, <1>5 DEF CInv, CacheTypeOK, PruneRow
  <2>. QED
    BY <1>1, <1>2, <1>5, <2>1 DEF CInv, FreshUnlessRaced, PruneRow
<1>6. CASE CacheTick
  <2>1. CacheTypeOK'
    BY <1>1, <1>6 DEF CInv, CacheTypeOK, CacheTick, Tick
  <2>. QED
    BY <1>1, <1>2, <1>6, <2>1 DEF CInv, FreshUnlessRaced, CacheTick
<1>. QED
  BY <1>3, <1>4, <1>5, <1>6

\* A kill takes an instance's calls and its flight, and no other's.
LEMMA KillKeeps ==
    ASSUME CInv, NEW i \in Instances, Kill(i)
    PROVE  CInv'
<1>1. /\ flights' = [flights EXCEPT ![i] = None]
      /\ call' = [c \in Callers |-> IF On[c] = i THEN Idle ELSE call[c]]
      /\ UNCHANGED <<clock, row, source, writer, failedOn, raced>>
  BY DEF Kill
<1>2. flights \in [Instances -> Callers \cup {None}] /\ On \in [Callers -> Instances]
  BY DEF CInv, CacheTypeOK
<1>3. ASSUME NEW c \in Callers
      PROVE  /\ call'[c] \in Calls /\ (CallInv(c) /\ FlightInv(c) /\ AloneInv(c))'
             /\ call'[c].value \in {None, call[c].value}
  <2>1. CallInv(c) /\ FlightInv(c) /\ AloneInv(c) /\ call[c] \in Calls
    BY DEF CInv, CacheTypeOK, CallsInv
  <2>2. CASE On[c] = i
    <3>1. call'[c] = Idle /\ flights'[On[c]] = None
      BY <1>1, <1>2, <2>2
    <3>. QED
      BY <3>1, IdleType DEF CallInv, FlightInv, AloneInv
  <2>3. CASE On[c] # i
    <3>1. call'[c] = call[c] /\ flights'[On[c]] = flights[On[c]]
      BY <1>1, <1>2, <2>3
    <3>. QED
      BY <1>1, <2>1, <3>1 DEF CallInv, FlightInv, AloneInv
  <2>. QED
    BY <2>2, <2>3
<1>4. CacheTypeOK'
  <2>1. call' \in [Callers -> Calls] /\ flights' \in [Instances -> Callers \cup {None}]
    BY <1>1, <1>2, <1>3
  <2>. QED
    BY <1>1, <2>1 DEF CInv, CacheTypeOK
<1>5. CallsInv'
  BY <1>3 DEF CallsInv
<1>6. FreshUnlessRaced'
  BY <1>1, <1>3 DEF CInv, FreshUnlessRaced
<1>. QED
  BY <1>4, <1>5, <1>6 DEF CInv

LEMMA CacheStepKeeps ==
    ASSUME CInv, [CacheNext]_cacheVars
    PROVE  CInv'
<1>1. ASSUME NEW c \in Callers, Remember(c) \/ CallerStep(c) \/ GiveUp(c) PROVE CInv'
  BY <1>1, RememberKeeps, ReadsKeeps, FnEndsKeeps, EndFlightKeeps, CloseKeeps, WaitsKeeps
     DEF CallerStep
<1>2. ASSUME NEW i \in Instances, Kill(i) PROVE CInv'
  BY <1>2, KillKeeps
<1>3. CASE Change \/ Delete \/ PruneRow \/ CacheTick
  BY <1>3, AroundKeeps
<1>4. CASE UNCHANGED cacheVars
  BY <1>4 DEF cacheVars, CInv, CacheTypeOK, CallsInv, CallInv, FlightInv, AloneInv, FreshUnlessRaced
<1>. QED
  BY <1>1, <1>2, <1>3, <1>4 DEF CacheNext

\* Cache's types hold, whatever fails and is killed.
THEOREM CacheTypeCorrect == CacheSpec => []CacheTypeOK
<1>1. CInv => CacheTypeOK
  BY DEF CInv
<1>. QED
  BY <1>1, CacheInitInv, CacheStepKeeps, PTL DEF CacheSpec

\* "fn runs once at a time for a key in this process" (Remember, flights).
THEOREM FnAlone == CacheSpec => []OneFnAtATime
BY OneFlies, CacheInitInv, CacheStepKeeps, PTL DEF CacheSpec

\* After a change and its Delete no one is given the old value, unless fn had
\* read it by then (Remember, Delete).
THEOREM Fresh == CacheSpec => []FreshUnlessRaced
<1>1. CInv => FreshUnlessRaced
  BY DEF CInv
<1>. QED
  BY <1>1, CacheInitInv, CacheStepKeeps, PTL DEF CacheSpec

-----------------------------------------------------------------------------
(* Remember: none waits for ever                                           *)

\* A caller that waits does so for a call that has a flight, which never waits itself,
\* and the map has a flight only until it's closed.
NoneStranded ==
    /\ \A c \in Callers : call[c].at = "waiting" => call[call[c].on].flying
    /\ \A c \in Callers : call[c].flying => call[c].at \in {"get", "fn", "work", "end", "close"}
    /\ \A i \in Instances : flights[i] # None =>
          On[flights[i]] = i /\ call[flights[i]].flying /\ call[flights[i]].at # "close"

\* A step of c that neither has a flight, nor loses one, nor waits.
LEMMA OwnStepWaits ==
    ASSUME CInv, NoneStranded, NEW c \in Callers, NEW is,
           call' = [call EXCEPT ![c] = is], flights' = flights,
           is.flying <=> call[c].flying, is.at # "waiting",
           is.flying => is.at \in {"get", "fn", "work", "end"}
    PROVE  NoneStranded'
<1>1. /\ call'[c] = is /\ \A d \in Callers : d # c => call'[d] = call[d]
      /\ flights \in [Instances -> Callers \cup {None}] /\ None \notin Callers
  BY RememberAssumption DEF CInv, CacheTypeOK, RememberAssumption
<1>2. \A d \in Callers : call[d].at = "waiting" => call[d].on \in Callers
  BY DEF CInv, CallsInv, CallInv
<1>3. \A d \in Callers : call'[d].flying <=> call[d].flying
  BY <1>1
<1>4. \A d \in Callers : call'[d].at = "waiting" => call[d] = call'[d]
  BY <1>1
<1> QED
  BY <1>1, <1>2, <1>3, <1>4 DEF NoneStranded

LEMMA StrandsNone ==
    ASSUME CInv, CInv', NoneStranded, [CacheNext]_cacheVars
    PROVE  NoneStranded'
<1>0. /\ call \in [Callers -> Calls] /\ flights \in [Instances -> Callers \cup {None}]
      /\ On \in [Callers -> Instances] /\ None \notin Callers
      /\ \A d \in Callers : call[d].at = "waiting" =>
            call[d].on \in Callers /\ On[call[d].on] = On[d]
  BY RememberAssumption DEF CInv, CacheTypeOK, CallsInv, CallInv, RememberAssumption
<1>1. ASSUME NEW c \in Callers, GetRow(c) \/ FnReads(c) \/ Keep(c) \/ FnFails(c) \/ Told(c)
                                  \/ GiveUp(c)
      PROVE  NoneStranded'
  <2>1. call[c] \in Calls
    BY <1>0
  <2>2. PICK is : Go(c, is) /\ (is.flying <=> call[c].flying) /\ is.at # "waiting"
                  /\ (is.flying => is.at \in {"get", "fn", "work", "end"})
    <3> DEFINE Fine(is) == /\ Go(c, is) /\ (is.flying <=> call[c].flying) /\ is.at # "waiting"
                           /\ (is.flying => is.at \in {"get", "fn", "work", "end"})
    <3>a. ASSUME NEW v, Returns(c, v)
          PROVE  \E is : Fine(is)
      <4>1. CASE call[c].flying
        <5> DEFINE got == [call[c] EXCEPT !.at = "end", !.value = v]
        <5>1. Go(c, got) /\ (got.flying <=> call[c].flying) /\ got.at = "end"
          BY <2>1, <3>a, <4>1 DEF Returns, Calls
        <5> HIDE DEF got
        <5>2. Fine(got)
          BY <4>1, <5>1
        <5> HIDE DEF Fine
        <5> QED
          BY <5>2
      <4>2. CASE ~call[c].flying
        <5>1. Go(c, Idle) /\ (Idle.flying <=> call[c].flying) /\ Idle.at = "idle"
          BY <2>1, <3>a, <4>2 DEF Returns, Calls, Idle
        <5>2. Fine(Idle)
          BY <4>2, <5>1
        <5> QED
          BY <5>2
      <4> QED
        BY <4>1, <4>2
    <3>b. ASSUME NEW a \in {"fn", "work"}, NEW v, Go(c, [call[c] EXCEPT !.at = a, !.value = v])
          PROVE  \E is : Fine(is)
      <4> DEFINE is == [call[c] EXCEPT !.at = a, !.value = v]
      <4>1. Go(c, is) /\ (is.flying <=> call[c].flying) /\ is.at = a
        BY <2>1, <3>b DEF Calls
      <4> QED
        BY <4>1
    <3>c. [call[c] EXCEPT !.at = "fn"] = [call[c] EXCEPT !.at = "fn", !.value = call[c].value]
      BY <2>1 DEF Calls
    <3>1. CASE GetRow(c) \/ FnReads(c) \/ Keep(c) \/ FnFails(c)
      <4>1. \/ \E v : Returns(c, v)
            \/ \E a \in {"fn", "work"} : \E v : Go(c, [call[c] EXCEPT !.at = a, !.value = v])
        BY <3>1, <3>c DEF GetRow, FnReads, Keep, FnFails
      <4> QED
        BY <3>a, <3>b, <4>1
    <3>2. CASE Told(c) \/ GiveUp(c)
      <4>1. ~call[c].flying
        BY <3>2 DEF NoneStranded, Told, GiveUp
      <4> QED
        <5>1. CASE Go(c, Idle)
          <6>1. (Idle.flying <=> call[c].flying) /\ Idle.at = "idle"
            BY <2>1, <4>1 DEF Idle, Calls
          <6>2. Fine(Idle)
            BY <4>1, <5>1, <6>1
          <6> QED
            BY <6>2
        <5>2. CASE Go(c, [Idle EXCEPT !.at = "get"])
          <6>1. ([Idle EXCEPT !.at = "get"].flying <=> call[c].flying)
                /\ [Idle EXCEPT !.at = "get"].at = "get"
            BY <2>1, <4>1 DEF Idle, Calls
          <6> QED
            BY <4>1, <5>2, <6>1
        <5> QED
          BY <3>2, <5>1, <5>2 DEF Told, GiveUp
    <3> QED
      BY <1>1, <3>1, <3>2
  <2>3. flights' = flights
    BY <1>1 DEF GetRow, FnReads, Keep, FnFails, Told, GiveUp
  <2> QED
    BY <2>2, <2>3, OwnStepWaits DEF Go
<1>2. ASSUME NEW c \in Callers, Remember(c)
      PROVE  NoneStranded'
  <2>1. /\ \A d \in Callers : d # c => call'[d] = call[d]
        /\ call[c].at = "idle" /\ ~call[c].flying
    BY <1>0, <1>2 DEF Remember, Go, NoneStranded
  <2>2. \A d \in Callers : d # c /\ call[d].at = "waiting" => call[d].on # c
    BY <2>1 DEF NoneStranded
  <2>3. \A i \in Instances : flights[i] # c
    BY <1>0, <2>1 DEF NoneStranded
  <2>4. CASE /\ flights[On[c]] # None /\ flights' = flights
             /\ call'[c].at = "waiting" /\ call'[c].on = flights[On[c]] /\ ~call'[c].flying
    BY <1>0, <2>1, <2>2, <2>3, <2>4 DEF NoneStranded
  <2>5. CASE /\ flights' = [flights EXCEPT ![On[c]] = c]
             /\ call'[c].at = "get" /\ call'[c].flying
    BY <1>0, <2>1, <2>2, <2>3, <2>5 DEF NoneStranded
  <2> QED
    <3>1. \/ /\ flights[On[c]] # None /\ flights' = flights
             /\ Go(c, [Idle EXCEPT !.at = "waiting", !.on = flights[On[c]]])
          \/ /\ flights' = [flights EXCEPT ![On[c]] = c]
             /\ Go(c, [Idle EXCEPT !.at = "get", !.flying = TRUE])
      BY <1>2 DEF Remember
    <3> QED
      <4>1. CASE /\ flights[On[c]] # None /\ flights' = flights
                 /\ Go(c, [Idle EXCEPT !.at = "waiting", !.on = flights[On[c]]])
        BY <1>0, <2>4, <4>1 DEF Go, Idle
      <4>2. CASE /\ flights' = [flights EXCEPT ![On[c]] = c]
                 /\ Go(c, [Idle EXCEPT !.at = "get", !.flying = TRUE])
        BY <1>0, <2>5, <4>2 DEF Go, Idle
      <4> QED
        BY <3>1, <4>1, <4>2
<1>3. ASSUME NEW c \in Callers, EndFlight(c)
      PROVE  NoneStranded'
  <2>1. /\ \A d \in Callers : d # c => call'[d] = call[d]
        /\ call[c].at = "end" /\ call'[c].at = "close" /\ (call'[c].flying <=> call[c].flying)
    BY <1>0, <1>3 DEF EndFlight, Go, Calls
  <2>2. call[c].flying /\ flights[On[c]] = c
    BY <2>1 DEF CInv, CallsInv, CallInv, FlightInv
  <2>3. \A i \in Instances \ {On[c]} : flights[i] # c
    BY <1>0 DEF NoneStranded
  <2>4. \A i \in Instances : flights'[i] # None => flights'[i] = flights[i] /\ flights[i] # c
    BY <1>0, <1>3, <2>3 DEF EndFlight
  <2> QED
    <3>1. \A d \in Callers : call'[d].at = "waiting" => call'[d] = call[d]
      BY <2>1
    <3>2. \A d \in Callers : call'[d].at = "waiting" => call'[call'[d].on].flying
      BY <1>0, <2>1, <3>1 DEF NoneStranded
    <3>3. \A i \in Instances : flights'[i] # None =>
             /\ On[flights'[i]] = i /\ call'[flights'[i]].flying
             /\ call'[flights'[i]].at # "close"
      BY <1>0, <2>1, <2>4 DEF NoneStranded
    <3> QED
      BY <2>1, <2>2, <3>2, <3>3 DEF NoneStranded
<1>4. ASSUME NEW c \in Callers, Close(c)
      PROVE  NoneStranded'
  <2>1. /\ \A d \in Callers : d # c => (call'[d].flying <=> call[d].flying)
        /\ \A d \in Callers : call'[d].at = "waiting" => call'[d] = call[d] /\ call[d].on # c
        /\ \A d \in Callers : call'[d].flying => call'[d] = call[d]
        /\ flights' = flights
    <3>1. /\ flights' = flights
          /\ \A d \in Callers :
                call'[d] = IF d = c THEN Idle
                           ELSE IF call[d].at = "waiting" /\ call[d].on = c
                           THEN [call[d] EXCEPT !.at = "told", !.on = None, !.value = call[c].value]
                           ELSE call[d]
      BY <1>4 DEF Close
    <3>2. ASSUME NEW d \in Callers, d # c, call[d].at = "waiting", call[d].on = c
          PROVE  call'[d].at = "told" /\ ~call[d].flying /\ ~call'[d].flying
      <4>1. call[d] \in Calls /\ ~call[d].flying
        BY <1>0, <3>2 DEF NoneStranded
      <4>2. call'[d] = [call[d] EXCEPT !.at = "told", !.on = None, !.value = call[c].value]
        BY <3>1, <3>2
      <4> QED
        BY <4>1, <4>2 DEF Calls
    <3>3. call'[c].at = "idle" /\ ~call'[c].flying
      BY <3>1, IdleType
    <3>4. \A d \in Callers : d # c /\ ~(call[d].at = "waiting" /\ call[d].on = c)
                              => call'[d] = call[d]
      BY <3>1
    <3> QED
      BY <3>1, <3>2, <3>3, <3>4
  <2>2. \A i \in Instances : flights[i] # c
    <3>1. call[c].at = "close" /\ c # None
      BY <1>0, <1>4 DEF Close
    <3> QED
      BY <3>1 DEF NoneStranded
  <2>3. \A d \in Callers : call'[d].at = "waiting" => call'[call'[d].on].flying
    BY <1>0, <2>1 DEF NoneStranded
  <2>4. \A i \in Instances : flights'[i] # None =>
           /\ On[flights'[i]] = i /\ call'[flights'[i]].flying
           /\ call'[flights'[i]].at # "close"
    BY <1>0, <2>1, <2>2 DEF NoneStranded
  <2> QED
    BY <2>1, <2>3, <2>4 DEF NoneStranded
<1>5. ASSUME NEW k \in Instances, Kill(k)
      PROVE  NoneStranded'
  <2>1. /\ flights' = [flights EXCEPT ![k] = None]
        /\ \A d \in Callers : call'[d] = IF On[d] = k THEN Idle ELSE call[d]
    BY <1>5 DEF Kill
  <2>2. \A d \in Callers : call'[d].at = "waiting" => call'[call'[d].on].flying
    BY <1>0, <2>1, IdleType DEF NoneStranded
  <2>3. \A d \in Callers :
           call'[d].flying => call'[d].at \in {"get", "fn", "work", "end", "close"}
    BY <2>1, IdleType DEF NoneStranded
  <2>4. ASSUME NEW i \in Instances, flights'[i] # None
        PROVE  /\ On[flights'[i]] = i /\ call'[flights'[i]].flying
               /\ call'[flights'[i]].at # "close"
    <3>1. i # k /\ flights'[i] = flights[i] /\ flights[i] \in Callers
      BY <1>0, <2>1, <2>4
    <3>2. On[flights[i]] = i
      BY <2>4, <3>1 DEF NoneStranded
    <3> QED
      BY <2>1, <2>4, <3>1, <3>2 DEF NoneStranded
  <2> QED
    BY <2>2, <2>3, <2>4 DEF NoneStranded
<1>6. CASE UNCHANGED cacheVars \/ Change \/ Delete \/ PruneRow \/ CacheTick
  BY <1>6 DEF cacheVars, Change, Delete, PruneRow, CacheTick, NoneStranded
<1> QED
  BY <1>1, <1>2, <1>3, <1>4, <1>5, <1>6 DEF CacheNext, CallerStep

\* cache.go, Remember's deferred function: a caller that waits for a flight waits for
\* one that's under way, and no flight waits for another, for any number of callers,
\* though fn fails, callers give up, and a flight starts before those who waited for
\* the one before are told.
THEOREM WaitersAwaited == CacheSpec => []NoneStranded
<1>1. CacheInit => NoneStranded
  BY IdleType DEF CacheInit, NoneStranded
<1>2. CInv /\ NoneStranded /\ [CacheNext]_cacheVars => (CInv /\ NoneStranded)'
  BY CacheStepKeeps, StrandsNone
<1> QED
  BY <1>1, <1>2, CacheInitInv, PTL DEF CacheSpec

-----------------------------------------------------------------------------
(* Serve: the invariant                                                    *)

\* Node is Run's: none is left as Run returns, and its URL goes with it.
NodeInv ==
    /\ work[Ssr] # "running" => node = "none"
    /\ node = "none" => url = 0

\* A server that's closed has the requests it was closed with, if any.
ClosedInv ==
    \A r \in Requests : \A s \in Servers :
        request[r] = s /\ server[s] = "closed" => s \in late

\* What serveAll has waited for stays as it is.
ReturnedInv ==
    phase = "returned" => AllClosed /\ \A f \in Work : work[f] # "running"

SInv == ServeTypeOK /\ NodeInv /\ ClosedInv /\ ReturnedInv

LEMMA NothingLeft ==
    ASSUME SInv
    PROVE  NothingRunsOn
<1> SUFFICES ASSUME phase = "returned" PROVE NothingRunsOn
  BY DEF NothingRunsOn
<1>1. AllClosed /\ (\A f \in Work : work[f] # "running") /\ node = "none" /\ url = 0
  BY DEF SInv, ReturnedInv, NodeInv
<1>2. ASSUME NEW r \in Requests, request[r] # NoServer PROVE request[r] \in late
  <2>1. request[r] \in Servers
    BY <1>2 DEF SInv, ServeTypeOK
  <2>. QED
    BY <1>1, <2>1 DEF SInv, ClosedInv, AllClosed
<1>. QED
  BY <1>1, <1>2 DEF NothingRunsOn

LEMMA ServeInitInv ==
    ASSUME ServeInit
    PROVE  SInv
<1>1. ServeTypeOK
  <2>1. /\ server \in [Servers -> {"serving", "failed", "closing", "closed"}]
        /\ request \in [Requests -> Servers \cup {NoServer}]
        /\ work \in [Work -> Ended \cup {"running"}]
    BY DEF ServeInit
  <2>2. nodes \in 0..MaxNodes /\ url \in 0..MaxNodes
    BY DEF ServeInit
  <2>. QED
    BY <2>1, <2>2 DEF ServeInit, ServeTypeOK, NodeStates
<1>. QED
  BY <1>1 DEF ServeInit, SInv, NodeInv, ClosedInv, ReturnedInv

-----------------------------------------------------------------------------
(* Serve: its steps                                                        *)

LEMMA ServingKeeps ==
    ASSUME SInv, TellStop \/ Serving
    PROVE  SInv'
<1>1. UNCHANGED <<server, request, late, work, node, url>>
  BY DEF TellStop, Serving, StopServing, TimeOut, ServeReturns, ssrVars
<1>2. ServeTypeOK'
  BY DEF TellStop, Serving, StopServing, TimeOut, ServeReturns, ssrVars, SInv, ServeTypeOK
<1>3. NodeInv' /\ ClosedInv'
  BY <1>1 DEF SInv, NodeInv, ClosedInv
<1>4. phase' = "returned" => phase = "returned" \/ (AllClosed /\ \A f \in Work : work[f] # "running")
  BY DEF TellStop, Serving, StopServing, TimeOut, ServeReturns
<1>5. ReturnedInv'
  BY <1>1, <1>4 DEF SInv, ReturnedInv, AllClosed
<1>. QED
  BY <1>2, <1>3, <1>5 DEF SInv

LEMMA ServersKeep ==
    ASSUME SInv, NEW s \in Servers, ListenerFails(s) \/ Shutting(s)
    PROVE  SInv'
<1>1. PICK is \in {"failed", "closing", "closed"} : server' = [server EXCEPT ![s] = is]
  BY DEF ListenerFails, Shutting, CloseListener, ShutDown, CloseLate
<1>2. server[s] # "closed" /\ server \in [Servers -> {"serving", "failed", "closing", "closed"}]
  BY DEF ListenerFails, Shutting, CloseListener, ShutDown, CloseLate, SInv, ServeTypeOK
<1>3. UNCHANGED <<told, phase, request, timedOut, work, failed, ssrVars>>
      /\ served' \subseteq served \cup {s} /\ late \subseteq late' /\ late' \subseteq late \cup {s}
  BY DEF ListenerFails, Shutting, CloseListener, ShutDown, CloseLate
<1>4. is = "closed" => s \in late' \/ \A r \in Requests : request[r] # s
  BY <1>1, <1>2 DEF ListenerFails, Shutting, CloseListener, ShutDown, CloseLate
<1>5. server'[s] = is /\ \A t \in Servers \ {s} : server'[t] = server[t]
  BY <1>1, <1>2
<1>6. ServeTypeOK'
  <2>1. server' \in [Servers -> {"serving", "failed", "closing", "closed"}]
    BY <1>1, <1>2
  <2>. QED
    BY <1>3, <2>1 DEF SInv, ServeTypeOK, ssrVars
<1>7. NodeInv'
  BY <1>3 DEF SInv, NodeInv, ssrVars
<1>8. ClosedInv'
  BY <1>3, <1>4, <1>5 DEF SInv, ClosedInv
<1>9. phase # "returned"
  BY <1>2 DEF SInv, ReturnedInv, AllClosed
<1>. QED
  BY <1>3, <1>6, <1>7, <1>8, <1>9 DEF SInv, ReturnedInv

LEMMA RequestsKeep ==
    ASSUME SInv, NEW r \in Requests, Answer(r) \/ \E s \in Servers : Arrive(r, s)
    PROVE  SInv'
<1>1. UNCHANGED <<told, phase, server, served, late, timedOut, work, failed, ssrVars>>
  BY DEF Answer, Arrive
<1>2. PICK is \in Servers \cup {NoServer} : request' = [request EXCEPT ![r] = is]
                                      /\ (is \in Servers => server[is] # "closed")
  BY DEF Answer, Arrive
<1>3. request \in [Requests -> Servers \cup {NoServer}]
  BY DEF SInv, ServeTypeOK
<1>4. ServeTypeOK'
  BY <1>1, <1>2, <1>3 DEF SInv, ServeTypeOK, ssrVars
<1>5. NodeInv' /\ ReturnedInv'
  BY <1>1 DEF SInv, NodeInv, ReturnedInv, AllClosed, ssrVars
<1>6. ClosedInv'
  BY <1>1, <1>2, <1>3 DEF SInv, ClosedInv
<1>. QED
  BY <1>4, <1>5, <1>6 DEF SInv

LEMMA WorkKeeps ==
    ASSUME SInv, SsrReturns \/ \E f \in Work : WorkReturns(f)
    PROVE  SInv'
<1>1. PICK f \in Work : \E outcome \in Ended :
         Return(f, outcome) /\ UNCHANGED ssrVars /\ (f = Ssr => node = "none")
  BY DEF SsrReturns, WorkReturns, Ended
<1>2. PICK outcome \in Ended : Return(f, outcome)
  BY <1>1
<1>3. /\ work[f] = "running" /\ work' = [work EXCEPT ![f] = outcome]
      /\ UNCHANGED <<told, phase, server, served, request, late, timedOut, ssrVars>>
      /\ failed' \subseteq failed \cup {f} /\ outcome # "running"
  BY <1>1, <1>2 DEF Return, Ended
<1>4. work \in [Work -> Ended \cup {"running"}]
  BY DEF SInv, ServeTypeOK
<1>5. ServeTypeOK'
  BY <1>2, <1>3, <1>4 DEF SInv, ServeTypeOK, ssrVars
<1>6. phase # "returned"
  BY <1>3 DEF SInv, ReturnedInv
<1>7. NodeInv'
  BY <1>1, <1>3, <1>4 DEF SInv, NodeInv, ssrVars
<1>. QED
  BY <1>3, <1>5, <1>6, <1>7 DEF SInv, ClosedInv, ReturnedInv

LEMMA NodeKeeps ==
    ASSUME SInv, StartNode \/ NodeAnswers \/ NodeExits \/ Reap \/ TellNode
    PROVE  SInv'
<1>1. UNCHANGED appVars
  BY DEF StartNode, NodeAnswers, NodeExits, Reap, TellNode
<1>2. node' \in NodeStates /\ nodes' \in 0..MaxNodes /\ url' \in 0..MaxNodes
  BY DEF StartNode, NodeAnswers, NodeExits, Reap, TellNode, SInv, ServeTypeOK, NodeStates
<1>3. ServeTypeOK'
  BY <1>1, <1>2 DEF SInv, ServeTypeOK, appVars
<1>4. NodeInv'
  BY <1>1 DEF StartNode, NodeAnswers, NodeExits, Reap, TellNode, SInv, NodeInv, appVars
<1>. QED
  BY <1>1, <1>3, <1>4 DEF SInv, ClosedInv, ReturnedInv, AllClosed, appVars

LEMMA ServeStepKeeps ==
    ASSUME SInv, [ServeNext]_serveVars
    PROVE  SInv'
<1>1. CASE UNCHANGED serveVars
  BY <1>1 DEF serveVars, appVars, ssrVars, SInv, ServeTypeOK, NodeInv, ClosedInv, ReturnedInv, AllClosed
<1>. QED
  BY <1>1, ServingKeeps, ServersKeep, RequestsKeep, WorkKeeps, NodeKeeps DEF ServeNext, NodeStep

\* Serve's types hold.
THEOREM ServeTypeCorrect == ServeSpec => []ServeTypeOK
<1>1. SInv => ServeTypeOK
  BY DEF SInv
<1>. QED
  BY <1>1, ServeInitInv, ServeStepKeeps, PTL DEF ServeSpec

\* Nothing of the app runs on as Serve returns, but the requests that outlasted
\* the timeout (serveAll, Shutdown, ssr.Server's Run).
THEOREM NoneRunsOn == ServeSpec => []NothingRunsOn
BY NothingLeft, ServeInitInv, ServeStepKeeps, PTL DEF ServeSpec

-----------------------------------------------------------------------------
(* The two together, as the run has them                                   *)

\* app.go, Go, and cache.go: what a process does beside its requests is, seen from
\* either part, that part's own behavior: a step of the other is none of its own. So
\* what's proved of each, for all its behaviors, holds of the two in one process.
THEOREM AppIsBoth == AppSpec => CacheSpec /\ ServeSpec
<1>1. AppInit => CacheInit /\ ServeInit
  BY DEF AppInit
<1>2. [AppNext]_<<part, cacheVars, serveVars>> => [CacheNext]_cacheVars
  BY DEF AppNext
<1>3. [AppNext]_<<part, cacheVars, serveVars>> => [ServeNext]_serveVars
  BY DEF AppNext
<1> QED
  BY <1>1, <1>2, <1>3, PTL DEF AppSpec, CacheSpec, ServeSpec

\* cache.go and app.go: in a process that does both, one fn runs at a time, none is
\* given an old value, and nothing runs on as Serve returns.
THEOREM AppKeeps == AppSpec => [](OneFnAtATime /\ FreshUnlessRaced /\ NothingRunsOn)
BY AppIsBoth, FnAlone, Fresh, NoneRunsOn, PTL

\* In every run of the two in one process: the types of the part at work.
THEOREM AppTypesHold == AppSpec => []AppTypesOK
<1>1. CacheTypeOK /\ ServeTypeOK => AppTypesOK
  BY DEF AppTypesOK
<1> QED
  BY <1>1, AppIsBoth, CacheTypeCorrect, ServeTypeCorrect, PTL
=============================================================================
