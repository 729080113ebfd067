------------------------------ MODULE Session ------------------------------
(***************************************************************************)
(* Package session: one browser's requests, several at once, each with the *)
(* session its cookie carries, or the row a Keeper keeps under the ID the  *)
(* cookie carries.  A request reads it all as it comes and writes it all   *)
(* as its response starts: there's no lock between.                        *)
(***************************************************************************)
EXTENDS Integers

CONSTANTS
    Requests,    \* the requests the browser has room for at once
    Ids,         \* the IDs rand.Text can give
    Users,       \* those who may log in
    Values,      \* the other values of a session, by their keys
    Flashes,     \* what may be flashed
    None,        \* no ID, no user, no row, no cookie, or nothing known
    Lifetime,    \* Config.Lifetime
    Lifetimes,   \* what SetLifetime is called with; 0 is the Store's again
    Refresh,     \* how long an unchanged session's row isn't written again
    Rotates,     \* whether handlers call what gives the session another ID
    Passing,     \* sets of requests that call Pass and nothing else
    Kept,        \* whether the app has a Keeper at first: it may be given one later
    MaxFaults,   \* how many times the Keeper may fail, or a response be lost
    MaxTime      \* where the clock stops

ASSUME SessionAssumption ==
    /\ Lifetime \in Nat \ {0} /\ Refresh \in Nat \ {0} /\ MaxTime \in Nat
    /\ Lifetimes \subseteq Nat
    /\ Passing \subseteq SUBSET Requests /\ Kept \subseteq BOOLEAN
    /\ Rotates \in BOOLEAN /\ MaxFaults \in Nat
    /\ None \notin Ids \cup Users

VARIABLES
    clock,    \* the Store's, in seconds
    keeper,   \* whether the app has a Keeper
    rows,     \* the Keeper's rows, by ID
    jar,      \* the browser's cookie
    req,      \* req[r]: where request r is, and its Session
    passers,  \* the requests that only pass
    faults,   \* how many times the Keeper has failed, or a response has been lost
    owner,    \* history: whom an ID was given for, {} for one that's not given
    ended,    \* history: the IDs whose rows were deleted
    left      \* history: the session as the last response left it

appVars == <<clock, keeper, jar, passers>>
browserVars == <<appVars, faults>>
history == <<owner, ended, left>>
vars == <<browserVars, rows, req, history>>

-----------------------------------------------------------------------------
(* What is kept: payloads.                                                 *)

Contents == [user : Users \cup {None}, values : SUBSET Values, flash : SUBSET Flashes]
Empty == [user |-> None, values |-> {}, flash |-> {}]
Rows == [is : Contents, expires : Nat, until : Nat, wrote : Nat]

ASSUME NoRowAssumption == None \notin Rows

\* A cookie has the session's ID or the session itself.
Cookies == [id : Ids \cup {None}, is : Contents, expires : Nat, lifetime : Nat]

\* The Session of a request; wrote is -1 for a row that's not there.
Sessions ==
    [user : Users \cup {None}, values : SUBSET Values, now : SUBSET Flashes, next : SUBSET Flashes,
     had : BOOLEAN, lifetime : Nat, id : Ids \cup {None}, wrote : Nat \cup {-1},
     rotated : BOOLEAN, lost : BOOLEAN, changed : BOOLEAN, passed : BOOLEAN]

NewSession(had) ==
    [user |-> None, values |-> {}, now |-> {}, next |-> {}, had |-> had, lifetime |-> 0,
     id |-> None, wrote |-> -1, rotated |-> FALSE, lost |-> FALSE, changed |-> FALSE,
     passed |-> FALSE]

\* s with what the payload is holds.
Filled(s, is) == [s EXCEPT !.user = is.user, !.values = is.values, !.now = is.flash]

\* The payload save makes of s.
Payload(s) == [user |-> s.user, values |-> s.values, flash |-> s.next]

LifetimeOf(s) == IF s.lifetime > 0 THEN s.lifetime ELSE Lifetime

Pc == {"idle", "sent", "handle", "write", "drop", "forget", "answer"}

\* cookie is the one it came with, and then the response's, if it sets one; leaves is
\* history: what the session is to be once that arrives.
Request ==
    [pc : Pc, cookie : Cookies \cup {None}, sets : BOOLEAN, s : Sessions, keeps : BOOLEAN,
     old : Ids \cup {None}, at : Nat, leaves : Contents]

Idle == [pc |-> "idle", cookie |-> None, sets |-> FALSE, s |-> NewSession(FALSE),
         keeps |-> FALSE, old |-> None, at |-> 0, leaves |-> Empty]

Init ==
    /\ clock = 0
    /\ keeper \in Kept
    /\ rows = [id \in Ids |-> None]
    /\ jar = None
    /\ req = [r \in Requests |-> Idle]
    /\ passers \in Passing
    /\ faults = 0
    /\ owner = [id \in Ids |-> {}]
    /\ ended = {}
    /\ left = Empty

At(r, pc) == req[r].pc = pc

Fault == faults < MaxFaults /\ faults' = faults + 1

-----------------------------------------------------------------------------
(* A request comes.                                                        *)

\* The browser drops a cookie once its MaxAge, from when it arrived, is over.
MayBeDropped == jar # None /\ clock > jar.expires

Send(r) ==
    /\ At(r, "idle")
    /\ \E c \in IF MayBeDropped THEN {jar, None} ELSE {jar} :
          req' = [req EXCEPT ![r] = [Idle EXCEPT !.pc = "sent", !.cookie = c]]
    /\ UNCHANGED <<browserVars, rows, history>>

Loads(r, s) ==
    /\ req' = [req EXCEPT ![r] = [Idle EXCEPT !.pc = "handle", !.s = s, !.keeps = keeper]]
    /\ UNCHANGED <<appVars, rows, history>>

Carried(r) == At(r, "sent") /\ req[r].cookie # None
Open(r) == Carried(r) /\ clock <= req[r].cookie.expires
Came(r) == [NewSession(TRUE) EXCEPT !.lifetime = req[r].cookie.lifetime]

\* No cookie, or one that's too old.
LoadNew(r) ==
    /\ At(r, "sent")
    /\ ~ Open(r)
    /\ Loads(r, NewSession(Carried(r)))
    /\ UNCHANGED faults

\* The cookie holds the session itself, though a Keeper may have been set since.
LoadCookie(r) ==
    /\ Open(r)
    /\ ~ (keeper /\ req[r].cookie.id # None)
    /\ Loads(r, Filled(Came(r), req[r].cookie.is))
    /\ UNCHANGED faults

\* Whether read finds a session under id: by the Keeper's time, and by the payload's.
Reads(id) ==
    /\ rows[id] # None
    /\ clock < rows[id].until
    /\ clock <= rows[id].expires

LoadRow(r) ==
    LET id == req[r].cookie.id IN
    /\ Open(r) /\ keeper /\ id # None
    /\ \/ /\ Reads(id)
          /\ Loads(r, [Filled(Came(r), rows[id].is) EXCEPT !.id = id, !.wrote = rows[id].wrote])
       \/ /\ ~ Reads(id)
          /\ Loads(r, Came(r))
    /\ UNCHANGED faults

\* The Keeper's error.
LoadLost(r) ==
    /\ Fault
    /\ Open(r) /\ keeper /\ req[r].cookie.id # None
    /\ Loads(r, [Came(r) EXCEPT !.lost = TRUE])

-----------------------------------------------------------------------------
(* Its handler's calls, one a step; a request's Session is its own.        *)

Reflash(s) == [s EXCEPT !.next = @ \cup s.now]

Clear(s) ==
    [s EXCEPT !.user = None, !.values = {}, !.now = {}, !.next = {}, !.lifetime = 0,
              !.changed = TRUE, !.rotated = TRUE]

Rotate(s) == [s EXCEPT !.rotated = TRUE, !.changed = TRUE]

\* mutant: the login keeps the session's ID
LoginHere(s, u) == [s EXCEPT !.user = u, !.changed = TRUE]

\* auth.Login.
Login(s, u) == [Rotate(s) EXCEPT !.user = u]

Calls(s) ==
    {[s EXCEPT !.values = @ \cup {v}, !.changed = TRUE] : v \in Values}
    \cup {[s EXCEPT !.values = @ \ {v}, !.changed = TRUE] : v \in Values}
    \cup {[s EXCEPT !.lifetime = d, !.changed = TRUE] : d \in Lifetimes}
    \cup {[s EXCEPT !.next = @ \cup {f}] : f \in Flashes}
    \cup {[s EXCEPT !.next = @ \ {f}] : f \in Flashes}
    \cup {[s EXCEPT !.passed = TRUE], Reflash(s)}
    \cup IF Rotates THEN {Rotate(s), Clear(s)} \cup {Login(s, u) : u \in Users} ELSE {}

Call(r) ==
    /\ At(r, "handle")
    /\ \E s \in IF r \in passers THEN {[req[r].s EXCEPT !.passed = TRUE]} ELSE Calls(req[r].s) :
          req' = [req EXCEPT ![r].s = s]
    /\ UNCHANGED <<browserVars, rows, history>>

\* It panics with ErrAbortHandler, which no one answers for; any other panic is answered
\* for by the ErrorHandler, inside the session's Middleware, and saved.
Aborts(r) ==
    /\ At(r, "handle")
    /\ req' = [req EXCEPT ![r] = Idle]
    /\ UNCHANGED <<browserVars, rows, history>>

-----------------------------------------------------------------------------
(* Its response starts: save.                                              *)

\* mutant: a request that passes writes what it read
LostAlone(s) == s.lost

\* The response leaves the session as it is: passed as it came, or lost.
LeavesAlone(s) == s.lost \/ (s.passed /\ ~ s.changed /\ s.next = {})

\* What's saved, otherwise.
Saved(s) == IF s.passed THEN Reflash(s) ELSE s

Emptied(s) == s.user = None /\ s.values = {} /\ s.next = {}

\* mutant: a flash that's been shown stays in the row
UnchangedValues(s) ==
    /\ s.id # None /\ ~ s.rotated
    /\ ~ s.changed /\ s.next = {}
    /\ s.wrote >= 0 /\ clock - s.wrote < Refresh

\* keep writes no row.
Unchanged(s) ==
    /\ s.id # None /\ ~ s.rotated
    /\ ~ s.changed /\ s.next = {} /\ s.now = {}
    /\ s.wrote >= 0 /\ clock - s.wrote < Refresh

Saving(r) == At(r, "handle") /\ (r \in passers => req[r].s.passed)

\* The session s leaves: one that passes leaves the flash it came with.
Leaves(s) == [Payload(s) EXCEPT !.flash = IF s.passed THEN @ \cup s.now ELSE @]

\* mutant: the payload that goes to the Keeper goes in the cookie too
FullCookie(s, at, keeps) ==
    [id |-> IF keeps THEN s.id ELSE None, is |-> Payload(s),
     expires |-> at + LifetimeOf(s), lifetime |-> s.lifetime]

CookieOf(s, at, keeps) ==
    [id |-> IF keeps THEN s.id ELSE None, is |-> IF keeps THEN Empty ELSE Payload(s),
     expires |-> at + LifetimeOf(s), lifetime |-> s.lifetime]

\* The response goes out with cookie c, None to drop the browser's, or sets none.
Answered(c, leaves) ==
    [Idle EXCEPT !.pc = "answer", !.sets = TRUE, !.cookie = c, !.leaves = leaves]
Unanswered == [Idle EXCEPT !.pc = "answer"]

SaveNothing(r) ==
    LET s == req[r].s IN
    /\ Saving(r)
    /\ LeavesAlone(s) \/ (Emptied(Saved(s)) /\ ~ s.had)
    /\ req' = [req EXCEPT ![r] = Unanswered]
    /\ UNCHANGED <<browserVars, rows, history>>

\* The cookie goes, once forget has dropped the row.
SaveEmptied(r) ==
    LET s == req[r].s IN
    /\ Saving(r) /\ ~ LeavesAlone(s)
    /\ Emptied(Saved(s)) /\ s.had
    /\ req' = [req EXCEPT ![r] =
                  IF @.keeps /\ s.id # None THEN [Idle EXCEPT !.pc = "forget", !.old = s.id]
                                            ELSE Answered(None, Empty)]
    /\ UNCHANGED <<browserVars, rows, history>>

\* Whether r's response has a session to save, kept as kept says.
Keeping(r, kept) ==
    /\ Saving(r) /\ ~ LeavesAlone(req[r].s)
    /\ ~ Emptied(Saved(req[r].s))
    /\ req[r].keeps = kept

\* Without a Keeper; one too large for a cookie isn't saved.
SaveCookie(r) ==
    /\ Keeping(r, FALSE)
    /\ \/ /\ req' = [req EXCEPT ![r] = Answered(CookieOf(Saved(@.s), clock, FALSE), Leaves(@.s))]
          /\ UNCHANGED faults
       \/ /\ req' = [req EXCEPT ![r] = Unanswered]
          /\ Fault
    /\ UNCHANGED <<appVars, rows, history>>

SaveUnchanged(r) ==
    /\ Keeping(r, TRUE)
    /\ Unchanged(Saved(req[r].s))
    /\ req' = [req EXCEPT ![r] = Answered(CookieOf(Saved(@.s), clock, TRUE), Leaves(@.s))]
    /\ UNCHANGED <<browserVars, rows, history>>

\* What's left to know of s as its row is written.
ToWrite(s, id) ==
    [NewSession(FALSE) EXCEPT !.user = s.user, !.values = s.values, !.next = s.next,
                              !.lifetime = s.lifetime, !.id = id]

\* keep, up to its Set: the ID the row will have.
SaveRow(r) ==
    LET s == Saved(req[r].s) IN
    /\ Keeping(r, TRUE)
    /\ ~ Unchanged(s)
    /\ \E id \in IF s.id = None \/ s.rotated THEN {i \in Ids : owner[i] = {}} ELSE {s.id} :
          /\ req' = [req EXCEPT ![r] =
                        [Idle EXCEPT !.pc = "write", !.s = ToWrite(s, id), !.old = s.id,
                                     !.at = clock, !.leaves = Leaves(req[r].s)]]
          /\ owner' = [owner EXCEPT ![id] = IF id = s.id THEN @ ELSE {s.user}]
    /\ UNCHANGED <<browserVars, rows, ended, left>>

RowOf(q) ==
    LET expires == q.at + LifetimeOf(q.s) IN
    [is |-> Payload(q.s), expires |-> expires, until |-> expires + Refresh, wrote |-> q.at]

\* Set, and then, under a new ID, Delete of the old one's row.
Write(r) ==
    LET q == req[r]
        answer == Answered(CookieOf(q.s, q.at, TRUE), q.leaves) IN
    /\ At(r, "write")
    /\ rows' = [rows EXCEPT ![q.s.id] = RowOf(q)]
    /\ req' = [req EXCEPT ![r] = IF q.old \in {None, q.s.id} THEN answer
                                 ELSE [answer EXCEPT !.pc = "drop", !.old = q.old]]
    /\ UNCHANGED <<browserVars, history>>

\* Set fails, before it wrote or after: what's left, then, isn't known.
WriteFails(r) ==
    /\ Fault
    /\ At(r, "write")
    /\ \/ rows' = rows
       \/ rows' = [rows EXCEPT ![req[r].s.id] = RowOf(req[r])]
    /\ left' = IF rows' # rows /\ req[r].s.id = req[r].old THEN None ELSE left
    /\ req' = [req EXCEPT ![r] = Unanswered]
    /\ UNCHANGED <<appVars, owner, ended>>

Deletes(id) ==
    \/ /\ rows' = [rows EXCEPT ![id] = None]
       /\ ended' = ended \cup {id}
       /\ UNCHANGED faults
    \/ /\ Fault
       /\ UNCHANGED <<rows, ended>>

Drop(r) ==
    /\ At(r, "drop")
    /\ Deletes(req[r].old)
    /\ req' = [req EXCEPT ![r].pc = "answer", ![r].old = None]
    /\ UNCHANGED <<appVars, owner, left>>

Forget(r) ==
    /\ At(r, "forget")
    /\ Deletes(req[r].old)
    /\ req' = [req EXCEPT ![r] = Answered(None, Empty)]
    /\ UNCHANGED <<appVars, owner, left>>

-----------------------------------------------------------------------------
(* The browser and the rest.                                               *)

Arrive(r) ==
    /\ At(r, "answer")
    /\ IF req[r].sets THEN /\ jar' = req[r].cookie
                           /\ left' = req[r].leaves
                      ELSE UNCHANGED <<jar, left>>
    /\ req' = [req EXCEPT ![r] = Idle]
    /\ UNCHANGED <<clock, keeper, passers, faults, rows, owner, ended>>

\* The response doesn't reach the browser.
Lose(r) ==
    /\ Fault
    /\ At(r, "answer")
    /\ left' = IF req[r].sets THEN None ELSE left
    /\ req' = [req EXCEPT ![r] = Idle]
    /\ UNCHANGED <<appVars, rows, owner, ended>>

\* The row has expired, and prune, or the cache's sweep, deletes it.
Prune(id) ==
    /\ rows[id] # None
    /\ rows[id].until <= clock
    /\ rows' = [rows EXCEPT ![id] = None]
    /\ UNCHANGED <<browserVars, req, history>>

Tick ==
    /\ clock < MaxTime
    /\ clock' = clock + 1
    /\ UNCHANGED <<keeper, jar, passers, faults, rows, req, history>>

\* The app is deployed with a Keeper, where it had none.
Deploy ==
    /\ ~ keeper
    /\ keeper' = TRUE
    /\ UNCHANGED <<clock, jar, passers, faults, rows, req, history>>

Load(r) == LoadNew(r) \/ LoadCookie(r) \/ LoadRow(r) \/ LoadLost(r)

Save(r) ==
    SaveNothing(r) \/ SaveEmptied(r) \/ SaveCookie(r) \/ SaveUnchanged(r) \/ SaveRow(r)

Keep(r) == Write(r) \/ WriteFails(r) \/ Drop(r) \/ Forget(r)

Next ==
    \/ \E r \in Requests :
          Send(r) \/ Load(r) \/ Call(r) \/ Aborts(r) \/ Save(r) \/ Keep(r) \/ Arrive(r) \/ Lose(r)
    \/ \E id \in Ids : Prune(id)
    \/ Tick
    \/ Deploy

Spec == Init /\ [][Next]_vars

-----------------------------------------------------------------------------
(* What's right.                                                           *)

\* The types; and a cookie carries an ID or the session, never both (save's payload),
\* and no more than the ID of a row that's been given.
TypeOK ==
    /\ clock \in 0..MaxTime
    /\ keeper \in BOOLEAN
    /\ rows \in [Ids -> Rows \cup {None}]
    /\ jar \in Cookies \cup {None}
    /\ req \in [Requests -> Request]
    /\ passers \in SUBSET Requests
    /\ faults \in 0..MaxFaults
    /\ owner \in [Ids -> SUBSET (Users \cup {None})]
    /\ ended \in SUBSET Ids
    /\ left \in Contents \cup {None}
    /\ \A c \in {jar} \cup {req[r].cookie : r \in Requests} :
          c # None /\ c.id # None => c.is = Empty /\ owner[c.id] # {}

\* An ID is one user's, or no user's, as long as it's there: the one that a browser had
\* before someone logged in is never logged in, whatever requests were on their way
\* with a copy of what its row held (Rotate, Clear, and keep).
OneOwner ==
    \A id \in Ids : rows[id] # None => owner[id] = {rows[id].is.user}

\* Of the requests at once, one at most may write.
Alone == \A q, r \in Requests \ passers : q = r

\* The row of an ID that was logged out, or rotated, isn't there again, once it's been
\* deleted: "so the ID a browser came with is no session at all once it has logged out"
\* (docs/forms.md:529).
EndedStaysEnded == \A id \in ended : rows[id] = None

\* So it is for a browser whose other requests only pass.
EndedWhenAlone == Alone => EndedStaysEnded

\* What a request found, as it came.
Found(s) == [user |-> s.user, values |-> s.values, flash |-> s.now]

\* A request that may write, alone, finds the session as the last response left it, flash
\* and all, with a cookie that expires no sooner than margin from now: whatever passes
\* beside it, though the Keeper failed, the ID changed, or the app got a Keeper.
Finds(margin) ==
    \A r \in Requests \ passers :
        /\ Open(r) /\ req'[r].pc = "handle" /\ ~ req'[r].s.lost
        /\ clock + margin <= req[r].cookie.expires
        /\ Alone /\ left # None
        => Found(req'[r].s) = left

\* keep writes no row for less than Refresh, though the cookie goes out anew: the row can
\* be found at least until Refresh before the cookie expires.
FindsWhatWasLeft == [][Finds(Refresh - 1)]_vars

\* "a session the browser still has is one the keeper still holds" (docs/forms.md:521-522).
FindsToTheEnd == [][Finds(0)]_vars
=============================================================================
