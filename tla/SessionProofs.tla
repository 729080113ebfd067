--------------------------- MODULE SessionProofs ---------------------------
(***************************************************************************)
(* What is proved of Session for every value of its constants: its types;  *)
(* that an ID is one user's, however many requests of the session run at   *)
(* once; and that for one that may write beside others that pass, what's   *)
(* ended stays so, and what a response left is found.                      *)
(***************************************************************************)
EXTENDS Session, TLAPS

\* A cookie has the session itself, or an ID that was given.
GoodCookie(c, o) == c # None /\ c.id # None => c.is = Empty /\ o[c.id] # {}

\* The copy of a session that a request may write under its ID is of that ID's user,
\* and the ID whose row it deletes was given.
GoodCopy(q, o) ==
    /\ q.pc = "handle" /\ q.s.id # None =>
          o[q.s.id] # {} /\ (~ q.s.rotated => o[q.s.id] = {q.s.user})
    /\ q.pc = "write" => q.s.id # None /\ o[q.s.id] = {q.s.user}
    /\ q.pc \in {"drop", "forget"} => q.old # None
    /\ q.pc \in {"write", "drop", "forget"} /\ q.old # None => o[q.old] # {}

GoodRequest(q, o) == q \in Request /\ GoodCookie(q.cookie, o) /\ GoodCopy(q, o)

IInv == TypeOK /\ OneOwner /\ \A r \in Requests : GoodCopy(req[r], owner)

-----------------------------------------------------------------------------
(* The types of what a request goes through.                               *)

LEMMA EmptyType == Empty \in Contents
BY DEF Empty, Contents

LEMMA NewType == ASSUME NEW had \in BOOLEAN PROVE NewSession(had) \in Sessions
BY DEF NewSession, Sessions

LEMMA IdleType == Idle \in Request
BY EmptyType, NewType DEF Idle, Request, Pc

LEMMA IdleGood == ASSUME NEW o PROVE GoodRequest(Idle, o)
BY IdleType DEF GoodRequest, GoodCookie, GoodCopy, Idle

\* What the handler calls leaves the ID, and gives the session another user only as
\* it rotates it.
LEMMA CallsKeep ==
    ASSUME SessionAssumption, NEW s \in Sessions, NEW t \in Calls(s)
    PROVE  /\ t \in Sessions
           /\ t.id = s.id
           /\ t.rotated \/ (t.user = s.user /\ ~ s.rotated)
<1> USE DEF Sessions
<1>1. CASE \E v \in Values : t = [s EXCEPT !.values = @ \cup {v}, !.changed = TRUE]
  <2>1. PICK v \in Values : t = [s EXCEPT !.values = @ \cup {v}, !.changed = TRUE]
    BY <1>1
  <2>2. s.values \cup {v} \in SUBSET Values
    OBVIOUS
  <2>. QED
    BY <2>1, <2>2
<1>2. CASE \E v \in Values : t = [s EXCEPT !.values = @ \ {v}, !.changed = TRUE]
  <2>1. PICK v \in Values : t = [s EXCEPT !.values = @ \ {v}, !.changed = TRUE]
    BY <1>2
  <2>2. s.values \ {v} \in SUBSET Values
    OBVIOUS
  <2>. QED
    BY <2>1, <2>2
<1>3. CASE \E d \in Lifetimes : t = [s EXCEPT !.lifetime = d, !.changed = TRUE]
  BY <1>3 DEF SessionAssumption
<1>4. CASE \E f \in Flashes : t \in {[s EXCEPT !.next = @ \cup {f}], [s EXCEPT !.next = @ \ {f}]}
  BY <1>4
<1>5. CASE t = [s EXCEPT !.passed = TRUE]
  BY <1>5
<1>6. CASE t = Reflash(s)
  BY <1>6 DEF Reflash
<1>7. CASE t = Rotate(s)
  BY <1>7 DEF Rotate
<1>8. CASE t = Clear(s)
  BY <1>8 DEF Clear
<1>9. CASE \E u \in Users : t = Login(s, u)
  BY <1>9 DEF Login, Rotate
<1>. QED
  BY <1>1, <1>2, <1>3, <1>4, <1>5, <1>6, <1>7, <1>8, <1>9 DEF Calls

LEMMA PassKeeps ==
    ASSUME NEW s \in Sessions, NEW t, t = [s EXCEPT !.passed = TRUE]
    PROVE  t \in Sessions /\ t.id = s.id /\ t.user = s.user /\ t.rotated = s.rotated
BY DEF Sessions

LEMMA SavedKeeps ==
    ASSUME NEW s \in Sessions
    PROVE  /\ Saved(s) \in Sessions
           /\ Saved(s).id = s.id /\ Saved(s).user = s.user /\ Saved(s).rotated = s.rotated
BY DEF Saved, Reflash, Sessions

LEMMA PayloadType ==
    ASSUME NEW s \in Sessions PROVE Payload(s) \in Contents /\ Leaves(s) \in Contents
BY DEF Payload, Leaves, Contents, Sessions

LEMMA LifetimeType ==
    ASSUME SessionAssumption, NEW s \in Sessions PROVE LifetimeOf(s) \in Nat
BY DEF LifetimeOf, Sessions, SessionAssumption

LEMMA CookieType ==
    ASSUME SessionAssumption, NEW s \in Sessions, NEW at \in Nat, NEW keeps \in BOOLEAN
    PROVE  CookieOf(s, at, keeps) \in Cookies
BY PayloadType, EmptyType, LifetimeType DEF CookieOf, Cookies, Sessions

LEMMA RowType ==
    ASSUME SessionAssumption, NEW q \in Request
    PROVE  RowOf(q) \in Rows /\ RowOf(q).is.user = q.s.user
<1>1. q.s \in Sessions /\ q.at \in Nat
  BY DEF Request
<1>2. LifetimeOf(q.s) \in Nat /\ Payload(q.s) \in Contents
  BY <1>1, LifetimeType, PayloadType
<1>. QED
  BY <1>1, <1>2 DEF RowOf, Rows, Payload, SessionAssumption

\* A response that sets no cookie, or a good one.
LEMMA AnswerGood ==
    ASSUME NEW o, NEW c \in Cookies \cup {None}, GoodCookie(c, o), NEW leaves \in Contents
    PROVE  GoodRequest(Answered(c, leaves), o) /\ GoodRequest(Unanswered, o)
<1>1. Answered(c, leaves) \in Request
  BY IdleType DEF Answered, Request, Idle, Pc
<1>2. Unanswered \in Request
  BY IdleType DEF Unanswered, Request, Idle, Pc
<1>. QED
  BY <1>1, <1>2 DEF GoodRequest, GoodCookie, GoodCopy, Answered, Unanswered, Idle

-----------------------------------------------------------------------------
(* One request changes, and IDs may be given: what others have stays good. *)

Given(o, p) == \A id \in Ids : o[id] # {} => p[id] = o[id]

LEMMA OthersKeep ==
    ASSUME NEW q \in Request, NEW o, NEW p, GoodRequest(q, o), Given(o, p)
    PROVE  GoodRequest(q, p)
<1>1. /\ q.s.id \in Ids \cup {None} /\ q.old \in Ids \cup {None}
      /\ q.cookie # None => q.cookie.id \in Ids \cup {None}
  BY DEF Request, Sessions, Cookies
<1>. QED
  BY <1>1 DEF GoodRequest, GoodCookie, GoodCopy, Given

LEMMA RequestChanges ==
    ASSUME IInv, NEW r \in Requests, NEW q, req' = [req EXCEPT ![r] = q],
           GoodRequest(q, owner'), Given(owner, owner')
    PROVE  /\ req' \in [Requests -> Request]
           /\ \A x \in Requests : GoodCookie(req'[x].cookie, owner') /\ GoodCopy(req'[x], owner')
<1>1. \A x \in Requests : GoodRequest(req[x], owner)
  BY DEF IInv, TypeOK, GoodRequest, GoodCookie
<1>2. \A x \in Requests : req[x] \in Request
  BY DEF IInv, TypeOK
<1>3. \A x \in Requests : GoodRequest(req[x], owner')
  BY <1>1, <1>2, OthersKeep
<1>4. \A x \in Requests : req'[x] = IF x = r THEN q ELSE req[x]
  BY DEF IInv, TypeOK
<1>5. q \in Request
  BY DEF GoodRequest
<1>. QED
  BY <1>2, <1>3, <1>4, <1>5 DEF GoodRequest, IInv, TypeOK

\* What a step of request r has to show.
LEMMA StepKeeps ==
    ASSUME IInv, NEW r \in Requests, NEW q, req' = [req EXCEPT ![r] = q],
           GoodRequest(q, owner'), Given(owner, owner'),
           owner' \in [Ids -> SUBSET (Users \cup {None})],
           rows' \in [Ids -> Rows \cup {None}], OneOwner',
           jar' \in Cookies \cup {None}, GoodCookie(jar', owner'),
           UNCHANGED <<clock, keeper, passers>>, faults' \in 0..MaxFaults,
           ended' \in SUBSET Ids, left' \in Contents \cup {None}
    PROVE  IInv'
<1>1. /\ req' \in [Requests -> Request]
      /\ \A x \in Requests : GoodCookie(req'[x].cookie, owner') /\ GoodCopy(req'[x], owner')
  BY RequestChanges
<1>2. TypeOK'
  BY <1>1 DEF IInv, TypeOK, GoodCookie
<1>. QED
  BY <1>1, <1>2 DEF IInv

\* One that changes the request alone, and perhaps counts a fault.
LEMMA OwnStepKeeps ==
    ASSUME IInv, NEW r \in Requests, NEW q, req' = [req EXCEPT ![r] = q], GoodRequest(q, owner),
           UNCHANGED <<appVars, rows, history>>, faults' \in 0..MaxFaults
    PROVE  IInv'
<1>1. Given(owner, owner') /\ OneOwner' /\ GoodCookie(jar', owner')
  BY DEF IInv, TypeOK, OneOwner, Given, GoodCookie, appVars, history
<1>. QED
  BY <1>1, StepKeeps DEF IInv, TypeOK, appVars, history

\* What's known of request r.
LEMMA RequestKnown ==
    ASSUME IInv, NEW r \in Requests
    PROVE  /\ req[r] \in Request /\ req[r].s \in Sessions /\ req[r].keeps \in BOOLEAN
           /\ req[r].at \in Nat /\ req[r].leaves \in Contents
           /\ GoodRequest(req[r], owner)
           /\ clock \in Nat /\ faults \in 0..MaxFaults
BY DEF IInv, TypeOK, Request, GoodRequest, GoodCookie

LEMMA FaultType ==
    ASSUME SessionAssumption, IInv, Fault \/ UNCHANGED faults PROVE faults' \in 0..MaxFaults
BY DEF IInv, TypeOK, Fault, SessionAssumption

-----------------------------------------------------------------------------
(* One lemma for each part of a request's life.                            *)

LEMMA InitInv == ASSUME SessionAssumption, Init PROVE IInv
<1>1. \A r \in Requests : GoodRequest(req[r], owner)
  BY IdleGood DEF Init
<1>2. req \in [Requests -> Request]
  BY IdleType DEF Init
<1>3. \A c \in {jar} \cup {req[r].cookie : r \in Requests} : c = None
  BY DEF Init, Idle
<1>4. /\ clock \in 0..MaxTime /\ faults \in 0..MaxFaults
      /\ keeper \in BOOLEAN /\ passers \in SUBSET Requests
  BY DEF Init, SessionAssumption
<1>5. /\ rows \in [Ids -> Rows \cup {None}] /\ OneOwner
      /\ owner \in [Ids -> SUBSET (Users \cup {None})]
      /\ ended \in SUBSET Ids /\ left \in Contents
  BY EmptyType DEF Init, OneOwner
<1>. QED
  BY <1>1, <1>2, <1>3, <1>4, <1>5 DEF IInv, TypeOK, GoodRequest

LEMMA SendKeeps == ASSUME SessionAssumption, IInv, NEW r \in Requests, Send(r) PROVE IInv'
<1>1. PICK c \in Cookies \cup {None} :
         /\ req' = [req EXCEPT ![r] = [Idle EXCEPT !.pc = "sent", !.cookie = c]]
         /\ GoodCookie(c, owner)
  BY DEF Send, IInv, TypeOK, GoodCookie
<1> DEFINE q == [Idle EXCEPT !.pc = "sent", !.cookie = c]
<1>2. q \in Request
  BY IdleType DEF Request, Idle, Pc
<1>3. GoodRequest(q, owner)
  BY <1>1, <1>2 DEF GoodRequest, GoodCopy, Idle
<1>. QED
  BY <1>1, <1>3, OwnStepKeeps DEF Send, IInv, TypeOK, browserVars

\* A request that loads s has a good copy of what it read.
LEMMA LoadsKeep ==
    ASSUME SessionAssumption, IInv, NEW r \in Requests, NEW s \in Sessions, Loads(r, s),
           s.id # None => owner[s.id] = {s.user}, Fault \/ UNCHANGED faults
    PROVE  IInv'
<1> DEFINE q == [Idle EXCEPT !.pc = "handle", !.s = s, !.keeps = keeper]
<1>1. q \in Request
  BY IdleType DEF Request, Idle, Pc, IInv, TypeOK
<1>2. GoodRequest(q, owner)
  BY <1>1 DEF GoodRequest, GoodCookie, GoodCopy, Idle
<1>. QED
  BY <1>2, FaultType, OwnStepKeeps DEF Loads

LEMMA LoadKeeps == ASSUME SessionAssumption, IInv, NEW r \in Requests, Load(r) PROVE IInv'
<1> DEFINE c == req[r].cookie
<1>1. CASE LoadNew(r)
  <2>1. NewSession(Carried(r)) \in Sessions /\ NewSession(Carried(r)).id = None
    BY NewType DEF NewSession, Carried
  <2>. QED
    BY <1>1, <2>1, LoadsKeep DEF LoadNew
<1>2. ASSUME Open(r)
      PROVE  /\ c \in Cookies /\ GoodCookie(c, owner)
             /\ Came(r) \in Sessions /\ Came(r).id = None
  <2>1. c \in Cookies /\ GoodCookie(c, owner)
    BY <1>2, RequestKnown DEF Open, Carried, Request, GoodRequest
  <2>2. NewSession(TRUE) \in Sessions /\ c.lifetime \in Nat
    BY <2>1, NewType DEF Cookies
  <2>. QED
    BY <2>1, <2>2 DEF Came, NewSession, Sessions
<1>3. CASE LoadCookie(r)
  <2>1. c \in Cookies /\ Came(r) \in Sessions /\ Came(r).id = None
    BY <1>2, <1>3 DEF LoadCookie
  <2>2. Filled(Came(r), c.is) \in Sessions /\ Filled(Came(r), c.is).id = None
    BY <2>1 DEF Filled, Sessions, Cookies, Contents
  <2>. QED
    BY <1>3, <2>2, LoadsKeep DEF LoadCookie
<1>4. CASE LoadRow(r)
  <2>1. /\ c \in Cookies /\ Came(r) \in Sessions /\ Came(r).id = None
        /\ c.id \in Ids
    BY <1>2, <1>4 DEF LoadRow, Cookies
  <2>2. CASE Reads(c.id)
    <3> DEFINE s == [Filled(Came(r), rows[c.id].is) EXCEPT !.id = c.id, !.wrote = rows[c.id].wrote]
    <3>1. rows[c.id] \in Rows /\ owner[c.id] = {rows[c.id].is.user}
      BY <2>1, <2>2 DEF Reads, IInv, TypeOK, OneOwner
    <3>2. s \in Sessions /\ s.id = c.id /\ s.user = rows[c.id].is.user
      BY <2>1, <3>1 DEF Filled, Sessions, Rows, Contents
    <3>3. Loads(r, s) /\ UNCHANGED faults
      BY <1>4, <2>2 DEF LoadRow
    <3>. QED
      BY <3>1, <3>2, <3>3, LoadsKeep
  <2>3. CASE ~ Reads(c.id)
    BY <1>4, <2>1, <2>3, LoadsKeep DEF LoadRow
  <2>. QED
    BY <2>2, <2>3
<1>5. CASE LoadLost(r)
  <2> DEFINE s == [Came(r) EXCEPT !.lost = TRUE]
  <2>1. s \in Sessions /\ s.id = None
    BY <1>2, <1>5 DEF LoadLost, Sessions
  <2>. QED
    BY <1>5, <2>1, LoadsKeep DEF LoadLost
<1>. QED
  BY <1>1, <1>3, <1>4, <1>5 DEF Load

LEMMA CallKeeps == ASSUME SessionAssumption, IInv, NEW r \in Requests, Call(r) PROVE IInv'
<1>1. req[r].s \in Sessions /\ GoodRequest(req[r], owner) /\ At(r, "handle")
  BY RequestKnown DEF Call
<1>2. PICK s : /\ s \in Sessions /\ s.id = req[r].s.id
               /\ s.rotated \/ (s.user = req[r].s.user /\ ~ req[r].s.rotated)
               /\ req' = [req EXCEPT ![r].s = s]
  <2>1. CASE r \in passers
    BY <1>1, <2>1, PassKeeps DEF Call, Sessions
  <2>2. CASE r \notin passers
    BY <1>1, <2>2, CallsKeep DEF Call
  <2>. QED
    BY <2>1, <2>2
<1> DEFINE q == [req[r] EXCEPT !.s = s]
<1>3. req' = [req EXCEPT ![r] = q]
  BY <1>2 DEF IInv, TypeOK
<1>4. GoodRequest(q, owner)
  BY <1>1, <1>2 DEF GoodRequest, GoodCookie, GoodCopy, Request, At
<1>. QED
  BY <1>3, <1>4, OwnStepKeeps DEF Call, browserVars, IInv, TypeOK

LEMMA AbortsKeeps == ASSUME SessionAssumption, IInv, NEW r \in Requests, Aborts(r) PROVE IInv'
BY IdleGood, OwnStepKeeps DEF Aborts, browserVars, IInv, TypeOK

\* save: what a response carries without a row written.
LEMMA SaveKeeps == ASSUME SessionAssumption, IInv, NEW r \in Requests, Save(r) PROVE IInv'
<1> DEFINE s == req[r].s
<1>1. /\ s \in Sessions /\ req[r].keeps \in BOOLEAN /\ clock \in Nat
      /\ GoodRequest(req[r], owner) /\ faults \in 0..MaxFaults
  BY RequestKnown
<1>2. /\ Saved(s) \in Sessions /\ Saved(s).id = s.id /\ Saved(s).user = s.user
      /\ Saved(s).rotated = s.rotated /\ Leaves(s) \in Contents
  BY <1>1, SavedKeeps, PayloadType
<1>3. GoodRequest(Answered(None, Empty), owner) /\ GoodRequest(Unanswered, owner)
  BY EmptyType, AnswerGood DEF GoodCookie
<1>4. CASE SaveNothing(r)
  BY <1>1, <1>3, <1>4, OwnStepKeeps DEF SaveNothing, browserVars
<1>5. CASE SaveEmptied(r)
  <2> DEFINE q == [Idle EXCEPT !.pc = "forget", !.old = s.id]
  <2>0. s.id # None => owner[s.id] # {}
    BY <1>1, <1>5 DEF SaveEmptied, Saving, At, GoodRequest, GoodCopy
  <2>1. s.id # None => GoodRequest(q, owner)
    BY <1>1, <2>0, IdleType DEF GoodRequest, GoodCookie, GoodCopy, Idle, Request, Sessions, Pc
  <2>. QED
    BY <1>1, <1>3, <1>5, <2>1, OwnStepKeeps DEF SaveEmptied, browserVars
<1>6. CASE SaveCookie(r)
  <2> DEFINE c == CookieOf(Saved(s), clock, FALSE)
  <2>1. c \in Cookies /\ GoodCookie(c, owner)
    BY <1>1, <1>2, CookieType DEF CookieOf, GoodCookie
  <2>2. GoodRequest(Answered(c, Leaves(s)), owner)
    BY <1>2, <2>1, AnswerGood
  <2>3. CASE req' = [req EXCEPT ![r] = Answered(c, Leaves(s))] /\ UNCHANGED faults
    BY <1>1, <1>6, <2>2, <2>3, OwnStepKeeps DEF SaveCookie
  <2>4. CASE req' = [req EXCEPT ![r] = Unanswered] /\ Fault
    BY <1>3, <1>6, <2>4, FaultType, OwnStepKeeps DEF SaveCookie
  <2>. QED
    BY <1>6, <2>3, <2>4 DEF SaveCookie
<1>7. CASE SaveUnchanged(r)
  <2> DEFINE c == CookieOf(Saved(s), clock, TRUE)
  <2>1. owner[s.id] = {s.user}
    BY <1>1, <1>2, <1>7 DEF SaveUnchanged, Unchanged, Keeping, Saving, At, GoodRequest, GoodCopy
  <2>2. c \in Cookies /\ GoodCookie(c, owner)
    BY <1>1, <1>2, <2>1, CookieType DEF CookieOf, GoodCookie
  <2>3. GoodRequest(Answered(c, Leaves(s)), owner)
    BY <1>2, <2>2, AnswerGood
  <2>. QED
    BY <1>1, <1>7, <2>3, OwnStepKeeps DEF SaveUnchanged, browserVars
<1>8. CASE SaveRow(r)
  <2>1. PICK id \in IF Saved(s).id = None \/ Saved(s).rotated THEN {i \in Ids : owner[i] = {}}
                                                        ELSE {Saved(s).id} :
           /\ req' = [req EXCEPT ![r] =
                        [Idle EXCEPT !.pc = "write", !.s = ToWrite(Saved(s), id),
                                     !.old = Saved(s).id, !.at = clock, !.leaves = Leaves(s)]]
           /\ owner' = [owner EXCEPT ![id] = IF id = Saved(s).id THEN @ ELSE {Saved(s).user}]
    BY <1>8 DEF SaveRow
  <2> DEFINE q == [Idle EXCEPT !.pc = "write", !.s = ToWrite(Saved(s), id),
                               !.old = Saved(s).id, !.at = clock, !.leaves = Leaves(s)]
  <2>2. At(r, "handle") /\ UNCHANGED <<browserVars, rows, ended, left>>
    BY <1>8 DEF SaveRow, Keeping, Saving
  <2>3. s.id \in Ids \cup {None} /\ s.user \in Users \cup {None} /\ s.rotated \in BOOLEAN
    BY <1>1 DEF Sessions
  <2>4. id \in Ids /\ owner \in [Ids -> SUBSET (Users \cup {None})] /\ None \notin Ids
    BY <1>2, <2>1, <2>3 DEF IInv, TypeOK, SessionAssumption
  \* The ID is a new one, or the session's own, whose user it has.
  <2>5. \/ owner[id] = {} /\ id # s.id
        \/ id = s.id /\ owner[id] = {s.user}
    <3>1. CASE s.id = None \/ s.rotated
      BY <1>1, <1>2, <2>1, <2>2, <2>4, <3>1 DEF At, GoodRequest, GoodCopy
    <3>2. CASE ~ (s.id = None \/ s.rotated)
      BY <1>1, <1>2, <2>1, <2>2, <3>2 DEF At, GoodRequest, GoodCopy
    <3>. QED
      BY <3>1, <3>2
  <2>6. owner'[id] = {s.user} /\ Given(owner, owner')
    BY <1>2, <2>1, <2>4, <2>5 DEF Given
  <2>7. ToWrite(Saved(s), id) \in Sessions
    BY <1>2, <2>4, NewType DEF ToWrite, NewSession, Sessions
  <2>8. /\ ToWrite(Saved(s), id).id = id /\ ToWrite(Saved(s), id).user = s.user
    BY <1>2 DEF ToWrite, NewSession
  <2>9. q \in Request
    BY <1>1, <1>2, <2>3, <2>7, IdleType DEF Request, Idle, Pc
  <2>10. GoodRequest(q, owner')
    <3>1. s.id # None => owner[s.id] # {} /\ owner'[s.id] = owner[s.id]
      BY <1>1, <2>2, <2>3, <2>6 DEF At, GoodRequest, GoodCopy, Given
    <3>. QED
      BY <1>2, <2>4, <2>6, <2>8, <2>9, <3>1 DEF GoodRequest, GoodCookie, GoodCopy, Idle
  <2>11. owner' \in [Ids -> SUBSET (Users \cup {None})]
    BY <1>2, <2>1, <2>3, <2>4
  <2>12. OneOwner' /\ GoodCookie(jar', owner')
    <3>1. \A i \in Ids : rows[i] # None => owner[i] = {rows[i].is.user}
      BY DEF IInv, OneOwner
    <3>2. jar \in Cookies \cup {None} /\ GoodCookie(jar, owner)
      BY DEF IInv, TypeOK, GoodCookie
    <3>. QED
      BY <2>2, <2>6, <3>1, <3>2 DEF OneOwner, GoodCookie, Given, Cookies, browserVars, appVars
  <2>. QED
    BY <2>1, <2>2, <2>6, <2>10, <2>11, <2>12, StepKeeps
    DEF IInv, TypeOK, browserVars, appVars
<1>. QED
  BY <1>4, <1>5, <1>6, <1>7, <1>8 DEF Save

\* Set writes a copy under the ID of its user.
LEMMA WrittenKeeps ==
    ASSUME SessionAssumption, IInv, NEW r \in Requests, At(r, "write"), UNCHANGED owner,
           rows' = rows \/ rows' = [rows EXCEPT ![req[r].s.id] = RowOf(req[r])]
    PROVE  rows' \in [Ids -> Rows \cup {None}] /\ OneOwner'
<1>1. /\ rows \in [Ids -> Rows \cup {None}]
      /\ \A i \in Ids : rows[i] # None => owner[i] = {rows[i].is.user}
  BY DEF IInv, TypeOK, OneOwner
<1>2. CASE rows' = rows
  BY <1>1, <1>2 DEF OneOwner
<1>3. CASE rows' = [rows EXCEPT ![req[r].s.id] = RowOf(req[r])]
  <2>1. owner[req[r].s.id] = {req[r].s.user}
    BY RequestKnown DEF At, GoodRequest, GoodCopy
  <2>2. RowOf(req[r]) \in Rows /\ RowOf(req[r]).is.user = req[r].s.user
    BY RowType, RequestKnown
  <2>. QED
    BY <1>1, <1>3, <2>1, <2>2 DEF OneOwner
<1>. QED
  BY <1>2, <1>3

LEMMA DeletedKeeps ==
    ASSUME SessionAssumption, IInv, NEW id, Deletes(id), UNCHANGED owner
    PROVE  /\ rows' \in [Ids -> Rows \cup {None}] /\ OneOwner'
           /\ faults' \in 0..MaxFaults
<1>1. /\ rows \in [Ids -> Rows \cup {None}]
      /\ \A i \in Ids : rows[i] # None => owner[i] = {rows[i].is.user}
  BY DEF IInv, TypeOK, OneOwner
<1>2. rows' = rows \/ rows' = [rows EXCEPT ![id] = None]
  BY DEF Deletes
<1>. QED
  BY <1>1, <1>2, FaultType DEF OneOwner, Deletes

LEMMA KeepKeeps == ASSUME SessionAssumption, IInv, NEW r \in Requests, Keep(r) PROVE IInv'
<1>1. /\ req[r] \in Request /\ req[r].s \in Sessions /\ req[r].at \in Nat
      /\ req[r].leaves \in Contents /\ GoodRequest(req[r], owner)
      /\ req[r].cookie \in Cookies \cup {None} /\ GoodCookie(req[r].cookie, owner)
      /\ req[r].s.id \in Ids \cup {None} /\ req[r].old \in Ids \cup {None}
  BY RequestKnown DEF Request, Sessions, GoodRequest
<1>2. GoodRequest(Answered(None, Empty), owner) /\ GoodRequest(Unanswered, owner)
  BY EmptyType, AnswerGood DEF GoodCookie
<1>3. ended \in SUBSET Ids /\ left \in Contents \cup {None} /\ faults \in 0..MaxFaults
      /\ owner \in [Ids -> SUBSET (Users \cup {None})]
      /\ jar \in Cookies \cup {None} /\ GoodCookie(jar, owner) /\ Given(owner, owner)
  BY DEF IInv, TypeOK, GoodCookie, Given
<1>4. CASE Write(r)
  <2> DEFINE c == CookieOf(req[r].s, req[r].at, TRUE)
             answer == Answered(c, req[r].leaves)
             drop == [answer EXCEPT !.pc = "drop", !.old = req[r].old]
  <2>1. owner[req[r].s.id] = {req[r].s.user}
    BY <1>1, <1>4 DEF Write, At, GoodRequest, GoodCopy
  <2>2. c \in Cookies /\ GoodCookie(c, owner)
    BY <1>1, <2>1, CookieType DEF CookieOf, GoodCookie
  <2>3. GoodRequest(answer, owner)
    BY <1>1, <2>2, AnswerGood
  <2>4. req[r].old # None => GoodRequest(drop, owner)
    <3>1. req[r].old # None => owner[req[r].old] # {}
      BY <1>1, <1>4 DEF Write, At, GoodRequest, GoodCopy
    <3>. QED
      BY <1>1, <2>3, <3>1 DEF GoodRequest, GoodCookie, GoodCopy, Answered, Idle, Request, Pc
  <2>5. PICK q \in {answer, drop} :
           req' = [req EXCEPT ![r] = q] /\ (q = drop => req[r].old # None \/ q = answer)
    BY <1>4 DEF Write
  <2>6. rows' \in [Ids -> Rows \cup {None}] /\ OneOwner'
    BY <1>4, WrittenKeeps DEF Write, history
  <2>7. UNCHANGED <<browserVars, history>>
    BY <1>4 DEF Write
  <2>. QED
    BY <1>3, <2>3, <2>4, <2>5, <2>6, <2>7, StepKeeps DEF browserVars, appVars, history
<1>5. CASE WriteFails(r)
  <2>1. rows' \in [Ids -> Rows \cup {None}] /\ OneOwner'
    BY <1>5, WrittenKeeps DEF WriteFails
  <2>2. faults' \in 0..MaxFaults /\ left' \in Contents \cup {None}
    BY <1>3, <1>5, FaultType DEF WriteFails
  <2>. QED
    BY <1>2, <1>3, <1>5, <2>1, <2>2, StepKeeps DEF WriteFails, appVars
<1>6. CASE Drop(r)
  <2> DEFINE q == [req[r] EXCEPT !.pc = "answer", !.old = None]
  <2>1. GoodRequest(q, owner)
    BY <1>1 DEF GoodRequest, GoodCopy, Request, Pc
  <2>2. req' = [req EXCEPT ![r] = q]
    BY <1>6 DEF Drop, IInv, TypeOK
  <2>3. rows' \in [Ids -> Rows \cup {None}] /\ OneOwner' /\ faults' \in 0..MaxFaults
    BY <1>6, DeletedKeeps DEF Drop
  <2>4. ended' \in SUBSET Ids
    BY <1>1, <1>3, <1>6 DEF Drop, Deletes, At, GoodRequest, GoodCopy
  <2>. QED
    BY <1>3, <1>6, <2>1, <2>2, <2>3, <2>4, StepKeeps DEF Drop, appVars
<1>7. CASE Forget(r)
  <2>1. rows' \in [Ids -> Rows \cup {None}] /\ OneOwner' /\ faults' \in 0..MaxFaults
    BY <1>7, DeletedKeeps DEF Forget
  <2>2. ended' \in SUBSET Ids
    BY <1>1, <1>3, <1>7 DEF Forget, Deletes, At, GoodRequest, GoodCopy
  <2>. QED
    BY <1>2, <1>3, <1>7, <2>1, <2>2, StepKeeps DEF Forget, appVars
<1>. QED
  BY <1>4, <1>5, <1>6, <1>7 DEF Keep

\* The response reaches the browser, or is lost.
LEMMA AnswerKeeps ==
    ASSUME SessionAssumption, IInv, NEW r \in Requests, Arrive(r) \/ Lose(r) PROVE IInv'
<1>1. /\ req[r].cookie \in Cookies \cup {None} /\ GoodCookie(req[r].cookie, owner)
      /\ req[r].leaves \in Contents
  BY RequestKnown DEF Request, GoodRequest
<1>2. /\ jar \in Cookies \cup {None} /\ GoodCookie(jar, owner) /\ Given(owner, owner)
      /\ owner \in [Ids -> SUBSET (Users \cup {None})]
      /\ rows \in [Ids -> Rows \cup {None}] /\ OneOwner
      /\ ended \in SUBSET Ids /\ left \in Contents \cup {None}
  BY DEF IInv, TypeOK, GoodCookie, Given
<1>3. /\ jar' \in Cookies \cup {None} /\ GoodCookie(jar', owner)
      /\ left' \in Contents \cup {None} /\ faults' \in 0..MaxFaults
  BY <1>1, <1>2, FaultType DEF Arrive, Lose, appVars
<1>4. /\ UNCHANGED <<clock, keeper, passers, rows, owner, ended>>
      /\ req' = [req EXCEPT ![r] = Idle]
  BY DEF Arrive, Lose, appVars
<1>5. OneOwner'
  BY <1>2, <1>4 DEF OneOwner
<1>. QED
  BY <1>2, <1>3, <1>4, <1>5, IdleGood, StepKeeps

LEMMA RestKeeps ==
    ASSUME SessionAssumption, IInv, (\E id \in Ids : Prune(id)) \/ Tick \/ Deploy PROVE IInv'
<1>1. CASE \E id \in Ids : Prune(id)
  BY <1>1 DEF Prune, browserVars, appVars, history, IInv, TypeOK, OneOwner
<1>2. CASE Tick
  BY <1>2 DEF Tick, history, IInv, TypeOK, OneOwner, SessionAssumption
<1>3. CASE Deploy
  BY <1>3 DEF Deploy, history, IInv, TypeOK, OneOwner
<1>. QED
  BY <1>1, <1>2, <1>3

LEMMA StepInv == ASSUME SessionAssumption, IInv, [Next]_vars PROVE IInv'
<1>1. ASSUME NEW r \in Requests,
             \/ Send(r) \/ Load(r) \/ Call(r) \/ Aborts(r) \/ Save(r) \/ Keep(r)
             \/ Arrive(r) \/ Lose(r)
      PROVE  IInv'
  BY <1>1, SendKeeps, LoadKeeps, CallKeeps, AbortsKeeps, SaveKeeps, KeepKeeps, AnswerKeeps
<1>2. CASE UNCHANGED vars
  BY <1>2 DEF vars, browserVars, appVars, history, IInv, TypeOK, OneOwner
<1>. QED
  BY <1>1, <1>2, RestKeeps DEF Next

LEMMA Inv == Spec => []IInv
<1>1. Init => IInv
  BY InitInv, SessionAssumption
<1>2. IInv /\ [Next]_vars => IInv'
  BY StepInv, SessionAssumption
<1>. QED
  BY <1>1, <1>2, PTL DEF Spec

-----------------------------------------------------------------------------
(* What's ended stays so, beside requests that pass.                       *)

\* A request that only passes never writes.
Passive(q) ==
    /\ q.pc \in {"idle", "sent", "handle", "answer"}
    /\ q.pc = "handle" => ~ q.s.changed /\ q.s.next = {}

\* The one that may write has no copy of what's ended: it read it before, or not at all.
NoCopy(q) == q.pc \in {"handle", "write"} => q.s.id \notin ended

AInv ==
    /\ \A r \in passers : Passive(req[r])
    /\ \A id \in ended : owner[id] # {}
    /\ Alone => EndedStaysEnded /\ \A r \in Requests \ passers : NoCopy(req[r])

\* A step of r that ends no session and writes no row.
LEMMA QuietStep ==
    ASSUME IInv, AInv, NEW r \in Requests, NEW q, req' = [req EXCEPT ![r] = q],
           UNCHANGED <<passers, rows, owner, ended>>,
           r \in passers => Passive(q), Alone /\ r \notin passers => NoCopy(q)
    PROVE  AInv'
<1>1. \A x \in Requests : req'[x] = IF x = r THEN q ELSE req[x]
  BY DEF IInv, TypeOK
<1>2. passers \subseteq Requests
  BY DEF IInv, TypeOK
<1>. QED
  BY <1>1, <1>2 DEF AInv, Alone, EndedStaysEnded, NoCopy

LEMMA LoadQuiet == ASSUME SessionAssumption, IInv, AInv, NEW r \in Requests, Load(r) PROVE AInv'
<1>1. PICK s : /\ Loads(r, s) /\ ~ s.changed /\ s.next = {}
               /\ s.id # None => rows[s.id] # None
  <2>1. CASE LoadNew(r)
    BY <2>1 DEF LoadNew, NewSession
  <2>0. ~ Came(r).changed /\ Came(r).next = {} /\ Came(r).id = None
    BY DEF Came, NewSession
  <2>2. CASE LoadCookie(r)
    <3> DEFINE s == Filled(Came(r), req[r].cookie.is)
    <3>1. Loads(r, s) /\ ~ s.changed /\ s.next = {} /\ s.id = None
      BY <2>2 DEF LoadCookie, Filled, Came, NewSession
    <3>. QED
      BY <3>1
  <2>3. CASE LoadRow(r)
    <3> DEFINE id == req[r].cookie.id
               s == [Filled(Came(r), rows[id].is) EXCEPT !.id = id, !.wrote = rows[id].wrote]
    <3>1. ~ s.changed /\ s.next = {} /\ s.id = id
      BY DEF Filled, Came, NewSession
    <3>2. CASE Reads(id)
      BY <2>3, <3>1, <3>2 DEF LoadRow, Reads
    <3>3. CASE ~ Reads(id)
      BY <2>0, <2>3, <3>3 DEF LoadRow
    <3>. QED
      BY <3>2, <3>3
  <2>4. CASE LoadLost(r)
    <3> DEFINE s == [Came(r) EXCEPT !.lost = TRUE]
    <3>1. Loads(r, s) /\ ~ s.changed /\ s.next = {} /\ s.id = None
      BY <2>4 DEF LoadLost, Came, NewSession
    <3>. QED
      BY <3>1
  <2>. QED
    BY <2>1, <2>2, <2>3, <2>4 DEF Load
<1> DEFINE q == [Idle EXCEPT !.pc = "handle", !.s = s, !.keeps = keeper]
<1>2. q.pc = "handle" /\ q.s = s
  BY DEF Idle
<1>3. Alone => s.id \notin ended
  BY <1>1 DEF IInv, TypeOK, AInv, EndedStaysEnded, SessionAssumption
<1>. QED
  BY <1>1, <1>2, <1>3, QuietStep DEF Loads, Passive, NoCopy, appVars, history

LEMMA CallQuiet == ASSUME SessionAssumption, IInv, AInv, NEW r \in Requests, Call(r) PROVE AInv'
<1> DEFINE s == req[r].s
<1>1. s \in Sessions /\ req[r] \in Request /\ At(r, "handle")
  BY RequestKnown DEF Call
<1>2. PICK t : /\ req' = [req EXCEPT ![r].s = t] /\ t.id = s.id
               /\ r \in passers => t.changed = s.changed /\ t.next = s.next
  <2>1. CASE r \in passers
    BY <1>1, <2>1 DEF Call, Sessions
  <2>2. CASE r \notin passers
    BY <1>1, <2>2, CallsKeep DEF Call
  <2>. QED
    BY <2>1, <2>2
<1> DEFINE q == [req[r] EXCEPT !.s = t]
<1>3. req' = [req EXCEPT ![r] = q] /\ q.pc = "handle" /\ q.s = t
  BY <1>1, <1>2 DEF IInv, TypeOK, Request, At
<1>4. r \in passers => Passive(q)
  BY <1>1, <1>2, <1>3 DEF AInv, Passive, At
<1>5. Alone /\ r \notin passers => NoCopy(q)
  BY <1>1, <1>2, <1>3 DEF AInv, NoCopy, At
<1>6. UNCHANGED <<passers, rows, owner, ended>>
  BY DEF Call, browserVars, appVars, history
<1>. QED
  BY <1>3, <1>4, <1>5, <1>6, QuietStep

LEMMA SaveQuiet == ASSUME SessionAssumption, IInv, AInv, NEW r \in Requests, Save(r) PROVE AInv'
<1> DEFINE s == req[r].s
<1>1. s \in Sessions /\ Saved(s).id = s.id
  BY RequestKnown, SavedKeeps
<1>2. r \in passers => SaveNothing(r)
  BY DEF Save, SaveEmptied, SaveCookie, SaveUnchanged, SaveRow, Keeping, Saving, LeavesAlone,
         AInv, Passive, At
<1>3. ASSUME ~ SaveRow(r) PROVE AInv'
  <2>1. PICK q : /\ req' = [req EXCEPT ![r] = q] /\ q.pc \in {"answer", "forget"}
                 /\ r \in passers => q.pc = "answer"
                 /\ UNCHANGED <<passers, rows, owner, ended>>
    BY <1>2, <1>3 DEF Save, SaveNothing, SaveEmptied, SaveCookie, SaveUnchanged, Answered, Unanswered,
                      Idle, browserVars, appVars, history
  <2>. QED
    BY <2>1, QuietStep DEF Passive, NoCopy
<1>4. CASE SaveRow(r)
  <2>1. r \notin passers /\ At(r, "handle")
    <3>1. ~ (SaveNothing(r) /\ SaveRow(r))
      BY DEF SaveNothing, SaveRow, Keeping, Saving, LeavesAlone, Emptied
    <3>. QED
      BY <1>2, <1>4, <3>1 DEF SaveRow, Keeping, Saving
  <2>2. PICK id, q : /\ req' = [req EXCEPT ![r] = q] /\ q.pc = "write" /\ q.s.id = id
                     /\ owner' = [owner EXCEPT ![id] = IF id = Saved(s).id THEN @ ELSE {Saved(s).user}]
                     /\ (id \in Ids /\ owner[id] = {}) \/ id = s.id
                     /\ UNCHANGED <<passers, rows, ended>>
    BY <1>1, <1>4 DEF SaveRow, ToWrite, NewSession, Idle, browserVars, appVars
  <2>3. Alone => NoCopy(q)
    BY <2>1, <2>2 DEF AInv, NoCopy, At
  <2>4. \A x \in Requests : req'[x] = IF x = r THEN q ELSE req[x]
    BY <2>2 DEF IInv, TypeOK
  <2>5. passers \subseteq Requests /\ ended \subseteq Ids /\ owner \in [Ids -> SUBSET (Users \cup {None})]
    BY DEF IInv, TypeOK
  <2>6. \A i \in ended : owner'[i] # {}
    BY <1>1, <2>2, <2>5 DEF AInv
  <2>. QED
    BY <2>1, <2>2, <2>3, <2>4, <2>5, <2>6 DEF AInv, Alone, EndedStaysEnded, NoCopy
<1>. QED
  BY <1>3, <1>4

\* The writer's steps at the Keeper, which no other has a copy beside.
LEMMA KeepEnds == ASSUME SessionAssumption, IInv, AInv, NEW r \in Requests, Keep(r) PROVE AInv'
<1>1. r \notin passers
  BY DEF Keep, Write, WriteFails, Drop, Forget, At, AInv, Passive
<1>2. PICK q : req' = [req EXCEPT ![r] = q] /\ q.pc \in {"answer", "drop"}
  <2>1. req = [x \in Requests |-> req[x]] /\ req[r] \in Request
    BY DEF IInv, TypeOK
  <2>2. CASE WriteFails(r)
    <3>1. Unanswered.pc = "answer"
      BY DEF Unanswered, Idle
    <3>. QED
      BY <2>2, <3>1 DEF WriteFails
  <2>5. CASE Forget(r)
    <3>1. Answered(None, Empty).pc = "answer"
      BY DEF Answered, Idle
    <3>. QED
      BY <2>5, <3>1 DEF Forget
  <2>4. CASE Write(r)
    <3> DEFINE answer == Answered(CookieOf(req[r].s, req[r].at, TRUE), req[r].leaves)
               drop == [answer EXCEPT !.pc = "drop", !.old = req[r].old]
    <3>1. answer.pc = "answer" /\ drop.pc = "drop"
      BY DEF Answered, Idle
    <3>2. req' = [req EXCEPT ![r] = answer] \/ req' = [req EXCEPT ![r] = drop]
      BY <2>4 DEF Write
    <3>. QED
      BY <3>1, <3>2
  <2>3. CASE Drop(r)
    <3> DEFINE d == [req[r] EXCEPT !.pc = "answer", !.old = None]
    <3>1. req' = [req EXCEPT ![r] = d] /\ d.pc = "answer"
      BY <2>1, <2>3 DEF Drop, Request
    <3>. QED
      BY <3>1
  <2>. QED
    BY <2>2, <2>3, <2>4, <2>5 DEF Keep
<1>3. \A x \in Requests : req'[x] = IF x = r THEN q ELSE req[x]
  BY <1>2 DEF IInv, TypeOK
<1>4. passers \subseteq Requests /\ ended \subseteq Ids /\ rows \in [Ids -> Rows \cup {None}]
  BY DEF IInv, TypeOK
<1>5. UNCHANGED <<passers, owner>>
  BY DEF Keep, Write, WriteFails, Drop, Forget, browserVars, appVars, history
<1>6. /\ Alone => \A id \in ended' : rows'[id] = None
      /\ \A id \in ended' : owner[id] # {}
  <2>1. CASE Write(r) \/ WriteFails(r)
    <3>1. ended' = ended
      BY <2>1 DEF Write, WriteFails, history
    <3>2. rows' = rows \/ rows' = [rows EXCEPT ![req[r].s.id] = RowOf(req[r])]
      BY <2>1 DEF Write, WriteFails
    <3>3. Alone => req[r].s.id \notin ended
      BY <1>1, <2>1 DEF Write, WriteFails, At, AInv, NoCopy
    <3>. QED
      BY <1>4, <3>1, <3>2, <3>3 DEF AInv, EndedStaysEnded
  <2>2. CASE Drop(r) \/ Forget(r)
    <3>1. owner[req[r].old] # {}
      BY <2>2, RequestKnown DEF Drop, Forget, At, GoodRequest, GoodCopy
    <3>2. \/ rows' = rows /\ ended' = ended
          \/ rows' = [rows EXCEPT ![req[r].old] = None] /\ ended' = ended \cup {req[r].old}
      BY <2>2 DEF Drop, Forget, Deletes
    <3>3. req[r].old \in Ids
      BY <2>2, RequestKnown DEF Drop, Forget, At, GoodRequest, GoodCopy, Request
    <3>. QED
      BY <1>4, <3>1, <3>2, <3>3 DEF AInv, EndedStaysEnded
  <2>. QED
    BY <2>1, <2>2 DEF Keep
<1>7. Alone => \A x \in Requests \ passers : x = r
  BY <1>1 DEF Alone
<1>. QED
  BY <1>1, <1>2, <1>3, <1>4, <1>5, <1>6, <1>7 DEF AInv, Alone, EndedStaysEnded, NoCopy

LEMMA AStepInv == ASSUME SessionAssumption, IInv, AInv, [Next]_vars PROVE AInv'
<1>1. ASSUME NEW r \in Requests, Send(r) \/ Aborts(r) \/ Arrive(r) \/ Lose(r) PROVE AInv'
  <2>1. PICK q : /\ req' = [req EXCEPT ![r] = q] /\ q.pc \in {"idle", "sent"}
                 /\ UNCHANGED <<passers, rows, owner, ended>>
    BY <1>1 DEF Send, Aborts, Arrive, Lose, Idle, browserVars, appVars, history
  <2>. QED
    BY <2>1, QuietStep DEF Passive, NoCopy
<1>2. ASSUME NEW r \in Requests, Load(r) \/ Call(r) \/ Save(r) \/ Keep(r) PROVE AInv'
  BY <1>2, LoadQuiet, CallQuiet, SaveQuiet, KeepEnds
<1>3. CASE \E id \in Ids : Prune(id)
  BY <1>3 DEF Prune, browserVars, appVars, history, IInv, TypeOK, AInv, Alone, EndedStaysEnded, NoCopy
<1>4. CASE Tick \/ Deploy \/ UNCHANGED vars
  BY <1>4 DEF Tick, Deploy, vars, browserVars, appVars, history, AInv, Alone, EndedStaysEnded, NoCopy
<1>. QED
  BY <1>1, <1>2, <1>3, <1>4 DEF Next

LEMMA AloneInv == Spec => []AInv
<1>1. Init => AInv
  <2>1. ASSUME Init PROVE \A r \in Requests : req[r].pc = "idle"
    BY <2>1 DEF Init, Idle
  <2>2. ASSUME Init PROVE ended = {} /\ passers \subseteq Requests
    BY <2>2, SessionAssumption DEF Init, SessionAssumption
  <2>. QED
    BY <2>1, <2>2 DEF AInv, Passive, NoCopy, EndedStaysEnded
<1>2. IInv /\ AInv /\ [Next]_vars => AInv'
  BY AStepInv, SessionAssumption
<1>. QED
  BY <1>1, <1>2, Inv, PTL DEF Spec

-----------------------------------------------------------------------------
(* What a request that may write, alone, finds.                            *)

\* A row is kept for Refresh longer than its session lasts, and that's a while.
RowsOk(rs) ==
    \A id \in Ids : rs[id] # None =>
        rs[id].until = rs[id].expires + Refresh /\ rs[id].wrote < rs[id].expires

\* The row under cookie c's ID lasts as long, from when it was written, as c does.
Lasts(c, rs) ==
    c.id # None /\ rs[c.id] # None => rs[c.id].expires = rs[c.id].wrote + LifetimeOf(c)

\* Until Refresh before c expires, and a second, who comes with c finds the session is.
Holds(c, is, rs, now) ==
    /\ c.id = None => c.is = is
    /\ c.id # None /\ now + Refresh <= c.expires + 1 =>
          rs[c.id] # None /\ rs[c.id].is = is /\ c.expires < rs[c.id].expires + Refresh

\* So it is of the browser's cookie j, but as another is on its way.
JarOk(sets, j, l, k, rs, now) ==
    /\ j # None /\ j.id # None => k
    /\ ~ sets /\ j # None => Lasts(j, rs) /\ (l # None => Holds(j, l, rs, now))

\* What a request read is in the row still, as long as it may leave that as it is.
ReadOk(q, rs, now) ==
    q.s.id # None =>
        /\ q.keeps
        /\ q.s.wrote >= 0 /\ now < q.s.wrote + Refresh =>
              /\ rs[q.s.id] # None /\ rs[q.s.id].wrote = q.s.wrote
              /\ ~ q.s.changed =>
                    /\ rs[q.s.id].is = Found(q.s)
                    /\ rs[q.s.id].expires = q.s.wrote + LifetimeOf(q.s)

\* Where the request is, the cookie it has, or the row it's to write, is right.
WriterOk(q, j, k, rs, now) ==
    /\ q.pc = "sent" => q.cookie \in {j, None}
    /\ q.pc = "handle" => ReadOk(q, rs, now)
    /\ q.keeps => k
    /\ q.pc = "write" =>
          /\ q.leaves = Payload(q.s) /\ q.at <= now /\ q.s.id # None /\ k
          /\ q.s.id # q.old /\ j # None => j.id # q.s.id
    /\ q.pc = "drop" => q.sets /\ q.cookie.id # q.old
    /\ q.sets => q.pc \in {"drop", "answer"}
    /\ q.sets /\ q.cookie # None =>
          /\ Lasts(q.cookie, rs) /\ Holds(q.cookie, q.leaves, rs, now)
          /\ q.cookie.id # None => k

\* With no lifetime but the Store's, all have that.
PlainRequest(q) == q.s.lifetime = 0 /\ (q.cookie # None => q.cookie.lifetime = 0)
PlainRows(rs) == \A id \in Ids : rs[id] # None => rs[id].expires = rs[id].wrote + Lifetime

PlainInv ==
    Lifetimes = {} =>
        /\ PlainRows(rows)
        /\ jar # None => jar.lifetime = 0
        /\ \A r \in Requests : PlainRequest(req[r])

\* Who only passes sets no cookie.
SetsNone == \A r \in passers : ~ req[r].sets

AloneOk ==
    \A r \in Requests \ passers :
        /\ JarOk(req[r].sets, jar, left, keeper, rows, clock)
        /\ WriterOk(req[r], jar, keeper, rows, clock)

FInv == SetsNone /\ RowsOk(rows) /\ (Alone => AloneOk)

-----------------------------------------------------------------------------
(* Lifetimes.                                                              *)

\* A step of r that has the Store's lifetime, as the rows it leaves have.
LEMMA PlainStep ==
    ASSUME IInv, PlainInv, NEW r \in Requests, NEW q, req' = [req EXCEPT ![r] = q],
           Lifetimes = {} => PlainRequest(q) /\ PlainRows(rows') /\ (jar' # None => jar'.lifetime = 0)
    PROVE  PlainInv'
<1>1. \A x \in Requests : req'[x] = IF x = r THEN q ELSE req[x]
  BY DEF IInv, TypeOK
<1>. QED
  BY <1>1 DEF PlainInv

LEMMA CallsPlain ==
    ASSUME NEW s \in Sessions, NEW t \in Calls(s), Lifetimes = {}, s.lifetime = 0
    PROVE  t.lifetime = 0
<1> USE DEF Sessions
<1>1. CASE \E v \in Values : t \in {[s EXCEPT !.values = @ \cup {v}, !.changed = TRUE],
                                    [s EXCEPT !.values = @ \ {v}, !.changed = TRUE]}
  BY <1>1
<1>2. CASE \E f \in Flashes : t \in {[s EXCEPT !.next = @ \cup {f}], [s EXCEPT !.next = @ \ {f}]}
  BY <1>2
<1>3. CASE t \in {[s EXCEPT !.passed = TRUE], Reflash(s), Rotate(s), Clear(s)}
  BY <1>3 DEF Reflash, Rotate, Clear
<1>4. CASE \E u \in Users : t = Login(s, u)
  BY <1>4 DEF Login, Rotate
<1>. QED
  BY <1>1, <1>2, <1>3, <1>4 DEF Calls

LEMMA PlainLoad == ASSUME SessionAssumption, IInv, PlainInv, NEW r \in Requests, Load(r) PROVE PlainInv'
<1>1. Lifetimes = {} /\ Open(r) => Came(r).lifetime = 0
  BY DEF Open, Carried, Came, NewSession, PlainInv, PlainRequest
<1>2. PICK s : Loads(r, s) /\ (Lifetimes = {} => s.lifetime = 0)
  <2>1. CASE LoadNew(r)
    BY <2>1 DEF LoadNew, NewSession
  <2>2. CASE LoadCookie(r)
    <3> DEFINE s == Filled(Came(r), req[r].cookie.is)
    <3>1. Loads(r, s) /\ s.lifetime = Came(r).lifetime /\ Open(r)
      BY <2>2 DEF LoadCookie, Filled, Came, NewSession
    <3>. QED
      BY <1>1, <3>1
  <2>3. CASE LoadRow(r)
    <3> DEFINE id == req[r].cookie.id
               s == [Filled(Came(r), rows[id].is) EXCEPT !.id = id, !.wrote = rows[id].wrote]
    <3>1. s.lifetime = Came(r).lifetime /\ Open(r)
      BY <2>3 DEF LoadRow, Filled, Came, NewSession
    <3>2. Loads(r, s) \/ Loads(r, Came(r))
      BY <2>3 DEF LoadRow
    <3>. QED
      BY <1>1, <3>1, <3>2
  <2>4. CASE LoadLost(r)
    <3> DEFINE s == [Came(r) EXCEPT !.lost = TRUE]
    <3>1. Loads(r, s) /\ s.lifetime = Came(r).lifetime /\ Open(r)
      BY <2>4 DEF LoadLost, Came, NewSession
    <3>. QED
      BY <1>1, <3>1
  <2>. QED
    BY <2>1, <2>2, <2>3, <2>4 DEF Load
<1> DEFINE q == [Idle EXCEPT !.pc = "handle", !.s = s, !.keeps = keeper]
<1>3. q.s = s /\ q.cookie = None
  BY DEF Idle
<1>. QED
  BY <1>2, <1>3, PlainStep DEF Loads, PlainInv, PlainRequest, PlainRows, appVars

LEMMA PlainIdle == Lifetimes = {} => PlainRequest(Idle) /\ PlainRequest(Unanswered)
BY DEF PlainRequest, Idle, Unanswered, NewSession

LEMMA PlainAnswer ==
    ASSUME NEW c, NEW leaves, c # None => c.lifetime = 0
    PROVE  PlainRequest(Answered(c, leaves))
BY DEF PlainRequest, Answered, Idle, NewSession

LEMMA PlainSave == ASSUME SessionAssumption, IInv, PlainInv, NEW r \in Requests, Save(r) PROVE PlainInv'
<1> DEFINE s == req[r].s
<1>1. s \in Sessions /\ (Lifetimes = {} => s.lifetime = 0)
  BY RequestKnown DEF PlainInv, PlainRequest
<1>2. Lifetimes = {} => Saved(s).lifetime = 0
  BY <1>1 DEF Saved, Reflash, Sessions
<1>3. UNCHANGED <<rows, jar>>
  BY DEF Save, SaveNothing, SaveEmptied, SaveCookie, SaveUnchanged, SaveRow, browserVars, appVars
<1>4. PICK q : req' = [req EXCEPT ![r] = q] /\ (Lifetimes = {} => PlainRequest(q))
  <2>1. CASE SaveNothing(r)
    BY <2>1, PlainIdle DEF SaveNothing
  <2>2. CASE SaveEmptied(r)
    <3>1. Lifetimes = {} => /\ PlainRequest(Answered(None, Empty))
                            /\ PlainRequest([Idle EXCEPT !.pc = "forget", !.old = s.id])
      BY PlainAnswer DEF PlainRequest, Idle, NewSession
    <3>. QED
      BY <2>2, <3>1 DEF SaveEmptied
  <2>3. ASSUME NEW keeps \in BOOLEAN
        PROVE  Lifetimes = {} => PlainRequest(Answered(CookieOf(Saved(s), clock, keeps), Leaves(s)))
    BY <1>2, PlainAnswer DEF CookieOf
  <2>4. CASE SaveCookie(r)
    BY <2>3, <2>4, PlainIdle DEF SaveCookie
  <2>5. CASE SaveUnchanged(r)
    BY <2>3, <2>5 DEF SaveUnchanged
  <2>6. CASE SaveRow(r)
    <3>1. PICK id : req' = [req EXCEPT ![r] =
                        [Idle EXCEPT !.pc = "write", !.s = ToWrite(Saved(s), id), !.old = Saved(s).id,
                                     !.at = clock, !.leaves = Leaves(s)]]
      BY <2>6 DEF SaveRow
    <3>2. Lifetimes = {} =>
             PlainRequest([Idle EXCEPT !.pc = "write", !.s = ToWrite(Saved(s), id), !.old = Saved(s).id,
                                       !.at = clock, !.leaves = Leaves(s)])
      BY <1>2 DEF PlainRequest, Idle, ToWrite, NewSession
    <3>. QED
      BY <3>1, <3>2
  <2>. QED
    BY <2>1, <2>2, <2>4, <2>5, <2>6 DEF Save
<1>. QED
  BY <1>3, <1>4, PlainStep DEF PlainInv, PlainRows

LEMMA PlainWritten ==
    ASSUME IInv, PlainInv, NEW r \in Requests, Lifetimes = {}
    PROVE  /\ PlainRows([rows EXCEPT ![req[r].s.id] = RowOf(req[r])])
           /\ \A id : PlainRows([rows EXCEPT ![id] = None])
           /\ CookieOf(req[r].s, req[r].at, TRUE).lifetime = 0
<1>1. RowOf(req[r]).expires = RowOf(req[r]).wrote + Lifetime
  BY DEF PlainInv, PlainRequest, RowOf, LifetimeOf
<1>2. CookieOf(req[r].s, req[r].at, TRUE).lifetime = 0
  BY DEF PlainInv, PlainRequest, CookieOf
<1>3. rows = [id \in Ids |-> rows[id]]
  BY DEF IInv, TypeOK
<1>. QED
  BY <1>1, <1>2, <1>3 DEF PlainInv, PlainRows

LEMMA PlainKeep == ASSUME SessionAssumption, IInv, PlainInv, NEW r \in Requests, Keep(r) PROVE PlainInv'
<1>1. req[r] \in Request
  BY RequestKnown
<1>2. jar' = jar
  BY DEF Keep, Write, WriteFails, Drop, Forget, browserVars, appVars
<1>3. Lifetimes = {} => PlainRows(rows')
  BY PlainWritten DEF Keep, Write, WriteFails, Drop, Forget, Deletes, PlainInv
<1>4. PICK q : req' = [req EXCEPT ![r] = q] /\ (Lifetimes = {} => PlainRequest(q))
  <2>1. CASE Write(r)
    <3> DEFINE answer == Answered(CookieOf(req[r].s, req[r].at, TRUE), req[r].leaves)
               drop == [answer EXCEPT !.pc = "drop", !.old = req[r].old]
    <3>1. Lifetimes = {} => PlainRequest(answer)
      BY PlainWritten, PlainAnswer
    <3>2. drop.s = answer.s /\ drop.cookie = answer.cookie
      BY DEF Answered, Idle
    <3>3. Lifetimes = {} => PlainRequest(drop)
      BY <3>1, <3>2 DEF PlainRequest
    <3>4. req' = [req EXCEPT ![r] = answer] \/ req' = [req EXCEPT ![r] = drop]
      BY <2>1 DEF Write
    <3>. QED
      BY <3>1, <3>3, <3>4
  <2>2. CASE WriteFails(r)
    BY <2>2, PlainIdle DEF WriteFails
  <2>3. CASE Drop(r)
    <3> DEFINE d == [req[r] EXCEPT !.pc = "answer", !.old = None]
    <3>1. req' = [req EXCEPT ![r] = d] /\ d.s = req[r].s /\ d.cookie = req[r].cookie
      BY <1>1, <2>3 DEF Drop, Request, IInv, TypeOK
    <3>. QED
      BY <3>1 DEF PlainInv, PlainRequest
  <2>4. CASE Forget(r)
    BY <2>4, PlainAnswer DEF Forget
  <2>. QED
    BY <2>1, <2>2, <2>3, <2>4 DEF Keep
<1>. QED
  BY <1>2, <1>3, <1>4, PlainStep DEF PlainInv

LEMMA PlainStepInv == ASSUME SessionAssumption, IInv, PlainInv, [Next]_vars PROVE PlainInv'
<1>1. ASSUME NEW r \in Requests, Send(r) PROVE PlainInv'
  <2>1. PICK c : /\ c \in {jar, None}
                 /\ req' = [req EXCEPT ![r] = [Idle EXCEPT !.pc = "sent", !.cookie = c]]
                 /\ UNCHANGED <<rows, jar>>
    BY <1>1 DEF Send, browserVars, appVars
  <2> DEFINE q == [Idle EXCEPT !.pc = "sent", !.cookie = c]
  <2>2. q.s.lifetime = 0 /\ q.cookie = c
    BY DEF Idle, NewSession
  <2>. QED
    BY <2>1, <2>2, PlainStep DEF PlainInv, PlainRequest
<1>2. ASSUME NEW r \in Requests, Call(r) PROVE PlainInv'
  <2>1. req[r] \in Request /\ req[r].s \in Sessions
    BY RequestKnown
  <2>2. PICK t : /\ req' = [req EXCEPT ![r].s = t]
                 /\ Lifetimes = {} => t.lifetime = 0
                 /\ UNCHANGED <<rows, jar>>
    <3>1. UNCHANGED <<rows, jar>>
      BY <1>2 DEF Call, browserVars, appVars
    <3>2. CASE r \in passers
      <4>1. PICK t : t = [req[r].s EXCEPT !.passed = TRUE] /\ req' = [req EXCEPT ![r].s = t]
        BY <1>2, <3>2 DEF Call
      <4>2. t.lifetime = req[r].s.lifetime
        BY <2>1, <4>1 DEF Sessions
      <4>. QED
        BY <3>1, <4>1, <4>2 DEF PlainInv, PlainRequest
    <3>3. CASE r \notin passers
      BY <1>2, <2>1, <3>1, <3>3, CallsPlain DEF Call, PlainInv, PlainRequest
    <3>. QED
      BY <3>2, <3>3
  <2> DEFINE q == [req[r] EXCEPT !.s = t]
  <2>3. req' = [req EXCEPT ![r] = q] /\ q.s = t /\ q.cookie = req[r].cookie
    BY <2>1, <2>2 DEF Request, IInv, TypeOK
  <2>. QED
    BY <2>2, <2>3, PlainStep DEF PlainInv, PlainRequest
<1>3. ASSUME NEW r \in Requests, Aborts(r) \/ Arrive(r) \/ Lose(r) PROVE PlainInv'
  <2>1. req' = [req EXCEPT ![r] = Idle] /\ jar' \in {jar, req[r].cookie} /\ rows' = rows
    BY <1>3 DEF Aborts, Arrive, Lose, browserVars, appVars
  <2>. QED
    BY <2>1, PlainIdle, PlainStep DEF PlainInv, PlainRequest
<1>4. ASSUME NEW r \in Requests, Load(r) \/ Save(r) \/ Keep(r) PROVE PlainInv'
  BY <1>4, PlainLoad, PlainSave, PlainKeep
<1>5. CASE \E id \in Ids : Prune(id)
  BY <1>5 DEF Prune, browserVars, appVars, PlainInv, PlainRows, IInv, TypeOK
<1>6. CASE Tick \/ Deploy \/ UNCHANGED vars
  BY <1>6 DEF Tick, Deploy, vars, browserVars, appVars, PlainInv
<1>. QED
  BY <1>1, <1>2, <1>3, <1>4, <1>5, <1>6 DEF Next

-----------------------------------------------------------------------------
(* Those who only pass.                                                    *)

\* A step of one that may write.
LEMMA WriterStep ==
    ASSUME IInv, FInv, NEW r \in Requests, r \notin passers, NEW q, req' = [req EXCEPT ![r] = q],
           passers' = passers, RowsOk(rows'),
           Alone => /\ JarOk(q.sets, jar', left', keeper', rows', clock')
                    /\ WriterOk(q, jar', keeper', rows', clock')
    PROVE  FInv'
<1>1. \A x \in Requests : req'[x] = IF x = r THEN q ELSE req[x]
  BY DEF IInv, TypeOK
<1>2. passers \subseteq Requests
  BY DEF IInv, TypeOK
<1>3. SetsNone'
  BY <1>1, <1>2 DEF FInv, SetsNone
<1>4. Alone' = Alone
  BY DEF Alone
<1>5. ASSUME Alone PROVE AloneOk'
  <2>1. \A x \in Requests \ passers : x = r
    BY <1>5 DEF Alone
  <2>. QED
    BY <1>1, <1>5, <2>1 DEF AloneOk
<1>. QED
  BY <1>3, <1>4, <1>5 DEF FInv

\* A step of one that passes.
LEMMA PasserStep ==
    ASSUME IInv, FInv, NEW r \in passers, NEW q, req' = [req EXCEPT ![r] = q], ~ q.sets,
           UNCHANGED <<clock, keeper, rows, jar, passers, left>>
    PROVE  FInv'
<1>1. \A x \in Requests : req'[x] = IF x = r THEN q ELSE req[x]
  BY DEF IInv, TypeOK
<1>2. passers \subseteq Requests
  BY DEF IInv, TypeOK
<1>. QED
  BY <1>1, <1>2 DEF FInv, SetsNone, Alone, AloneOk

LEMMA PasserKeeps ==
    ASSUME IInv, AInv, FInv, NEW r \in passers,
           \/ Send(r) \/ Load(r) \/ Call(r) \/ Aborts(r) \/ Save(r) \/ Keep(r)
           \/ Arrive(r) \/ Lose(r)
    PROVE  FInv'
<1>1. ~ req[r].sets /\ Passive(req[r]) /\ r \in Requests /\ req[r] \in Request
  BY DEF FInv, SetsNone, AInv, IInv, TypeOK
<1>2. ~ Idle.sets /\ ~ Unanswered.sets
  BY DEF Idle, Unanswered
<1>3. CASE Send(r)
  <2>1. PICK c : req' = [req EXCEPT ![r] = [Idle EXCEPT !.pc = "sent", !.cookie = c]]
    BY <1>3 DEF Send
  <2>2. ~ [Idle EXCEPT !.pc = "sent", !.cookie = c].sets
    BY DEF Idle
  <2>. QED
    BY <1>3, <2>1, <2>2, PasserStep DEF Send, browserVars, appVars, history
<1>4. CASE Load(r)
  <2>1. PICK s : Loads(r, s)
    BY <1>4 DEF Load, LoadNew, LoadCookie, LoadRow, LoadLost
  <2>2. ~ [Idle EXCEPT !.pc = "handle", !.s = s, !.keeps = keeper].sets
    BY DEF Idle
  <2>. QED
    BY <2>1, <2>2, PasserStep DEF Loads, appVars, history
<1>5. CASE Call(r)
  <2>1. PICK t : req' = [req EXCEPT ![r].s = t]
    BY <1>5 DEF Call
  <2> DEFINE q == [req[r] EXCEPT !.s = t]
  <2>2. req' = [req EXCEPT ![r] = q] /\ ~ q.sets
    BY <1>1, <2>1 DEF Request, IInv, TypeOK
  <2>. QED
    BY <1>5, <2>2, PasserStep DEF Call, browserVars, appVars, history
<1>6. CASE Aborts(r)
  BY <1>2, <1>6, PasserStep DEF Aborts, browserVars, appVars, history
<1>7. CASE Save(r)
  <2>1. SaveNothing(r)
    BY <1>1, <1>7 DEF Save, SaveEmptied, SaveCookie, SaveUnchanged, SaveRow, Keeping, Saving,
                      LeavesAlone, Passive, At
  <2>. QED
    BY <1>2, <2>1, PasserStep DEF SaveNothing, browserVars, appVars, history
<1>8. CASE Keep(r)
  BY <1>1, <1>8 DEF Keep, Write, WriteFails, Drop, Forget, At, Passive
<1>9. CASE Arrive(r) \/ Lose(r)
  BY <1>1, <1>2, <1>9, PasserStep DEF Arrive, Lose, appVars
<1>. QED
  BY <1>3, <1>4, <1>5, <1>6, <1>7, <1>8, <1>9

-----------------------------------------------------------------------------
(* The one that may write, step by step.                                   *)

\* What's known of it, as it's alone.
LEMMA WriterKnown ==
    ASSUME FInv, NEW r \in Requests, r \notin passers, Alone
    PROVE  /\ JarOk(req[r].sets, jar, left, keeper, rows, clock)
           /\ WriterOk(req[r], jar, keeper, rows, clock)
BY DEF FInv, AloneOk

\* Until its response sets a cookie, and where it has no row to write, there's little
\* to show.
LEMMA PlainlyOk ==
    ASSUME NEW j, NEW k, NEW rs, NEW now, NEW q, ~ q.sets, ~ q.keeps,
           q.pc \in {"idle", "forget", "answer"}
    PROVE  WriterOk(q, j, k, rs, now)
BY DEF WriterOk

LEMMA IdleOk ==
    ASSUME NEW j, NEW k, NEW rs, NEW now
    PROVE  WriterOk(Idle, j, k, rs, now) /\ WriterOk(Unanswered, j, k, rs, now)
BY PlainlyOk DEF Idle, Unanswered

LEMMA WriterSends ==
    ASSUME IInv, FInv, NEW r \in Requests, r \notin passers, Send(r) \/ Aborts(r) \/ SaveNothing(r)
    PROVE  FInv'
<1>1. UNCHANGED <<clock, keeper, rows, jar, left, passers>> /\ RowsOk(rows')
  BY DEF Send, Aborts, SaveNothing, browserVars, appVars, history, FInv
<1>2. Alone => ~ req[r].sets
  BY WriterKnown DEF WriterOk, Send, Aborts, SaveNothing, Saving, At
<1>3. PICK q : req' = [req EXCEPT ![r] = q] /\ ~ q.sets /\ WriterOk(q, jar, keeper, rows, clock)
  <2>1. CASE Send(r)
    <3>1. PICK c \in {jar, None} : req' = [req EXCEPT ![r] = [Idle EXCEPT !.pc = "sent", !.cookie = c]]
      BY <2>1 DEF Send
    <3>2. /\ WriterOk([Idle EXCEPT !.pc = "sent", !.cookie = c], jar, keeper, rows, clock)
          /\ ~ [Idle EXCEPT !.pc = "sent", !.cookie = c].sets
      BY <3>1 DEF WriterOk, Idle
    <3>. QED
      BY <3>1, <3>2
  <2>2. CASE Aborts(r) \/ SaveNothing(r)
    BY <2>2, IdleOk DEF Aborts, SaveNothing, Idle, Unanswered
  <2>. QED
    BY <2>1, <2>2
<1>4. Alone => JarOk(q.sets, jar, left, keeper, rows, clock)
  BY <1>2, <1>3, WriterKnown DEF JarOk
<1>. QED
  BY <1>1, <1>3, <1>4, WriterStep

\* The session a request reads from the row of its cookie's ID.
IdOf(r) == req[r].cookie.id
RowRead(r) ==
    [Filled(Came(r), rows[IdOf(r)].is) EXCEPT !.id = IdOf(r), !.wrote = rows[IdOf(r)].wrote]

LEMMA Reading ==
    ASSUME IInv, NEW r \in Requests, LoadRow(r), Reads(IdOf(r))
    PROVE  /\ IdOf(r) \in Ids /\ rows[IdOf(r)] \in Rows /\ rows[IdOf(r)] # None
           /\ Loads(r, RowRead(r)) /\ RowRead(r).id = IdOf(r)
           /\ RowRead(r).wrote = rows[IdOf(r)].wrote
           /\ Found(RowRead(r)) = rows[IdOf(r)].is
           /\ RowRead(r).lifetime = req[r].cookie.lifetime
<1> DEFINE id == IdOf(r)
           s == RowRead(r)
<1>1. req[r].cookie \in Cookies /\ id # None
  BY RequestKnown DEF LoadRow, Open, Carried, Request, IdOf
<1>2. id \in Ids /\ rows[id] \in Rows /\ rows[id] # None
  BY <1>1 DEF Cookies, Reads, IInv, TypeOK, IdOf
<1>3. Loads(r, s)
  BY DEF LoadRow, RowRead, IdOf
<1>4. /\ s.id = id /\ s.wrote = rows[id].wrote /\ s.lifetime = req[r].cookie.lifetime
      /\ s.user = rows[id].is.user /\ s.values = rows[id].is.values /\ s.now = rows[id].is.flash
  BY DEF RowRead, Filled, Came, NewSession
<1>5. rows[id].is \in Contents
  BY <1>2 DEF Rows
<1>. QED
  BY <1>2, <1>3, <1>4, <1>5 DEF Found, Contents

LEMMA WriterLoads ==
    ASSUME SessionAssumption, IInv, FInv, NEW r \in Requests, r \notin passers, Load(r)
    PROVE  FInv'
<1>1. At(r, "sent")
  BY DEF Load, LoadNew, LoadCookie, LoadRow, LoadLost, Open, Carried
<1>2. Alone => /\ ~ req[r].sets /\ req[r].cookie \in {jar, None}
               /\ JarOk(FALSE, jar, left, keeper, rows, clock)
  BY <1>1, WriterKnown DEF WriterOk, At, JarOk
<1>3. PICK s : Loads(r, s) /\ (Alone /\ s.id # None =>
                  /\ keeper /\ rows[s.id] # None /\ rows[s.id].wrote = s.wrote
                  /\ rows[s.id].is = Found(s)
                  /\ rows[s.id].expires = s.wrote + LifetimeOf(s))
  <2>1. CASE LoadNew(r)
    BY <2>1 DEF LoadNew, NewSession
  <2>2. CASE LoadCookie(r)
    <3> DEFINE s == Filled(Came(r), req[r].cookie.is)
    <3>1. Loads(r, s) /\ s.id = None
      BY <2>2 DEF LoadCookie, Filled, Came, NewSession
    <3>. QED
      BY <3>1
  <2>3. CASE LoadRow(r) /\ Reads(IdOf(r))
    <3>1. keeper /\ IdOf(r) # None /\ req[r].cookie # None
      BY <2>3 DEF LoadRow, Open, Carried, IdOf
    <3>2. Alone => rows[IdOf(r)].expires = rows[IdOf(r)].wrote + LifetimeOf(req[r].cookie)
      BY <1>2, <2>3, <3>1, Reading DEF JarOk, Lasts, IdOf
    <3>3. LifetimeOf(RowRead(r)) = LifetimeOf(req[r].cookie)
      BY <2>3, Reading DEF LifetimeOf
    <3>. QED
      BY <2>3, <3>1, <3>2, <3>3, Reading
  <2>4. CASE LoadRow(r) /\ ~ Reads(IdOf(r))
    BY <2>4 DEF LoadRow, Came, NewSession, IdOf
  <2>5. CASE LoadLost(r)
    <3> DEFINE s == [Came(r) EXCEPT !.lost = TRUE]
    <3>1. Loads(r, s) /\ s.id = None
      BY <2>5 DEF LoadLost, Came, NewSession
    <3>. QED
      BY <3>1
  <2>. QED
    BY <2>1, <2>2, <2>3, <2>4, <2>5 DEF Load
<1> DEFINE q == [Idle EXCEPT !.pc = "handle", !.s = s, !.keeps = keeper]
<1>4. req' = [req EXCEPT ![r] = q] /\ UNCHANGED <<clock, keeper, rows, jar, left, passers>>
  BY <1>3 DEF Loads, appVars, history
<1>5. ~ q.sets /\ q.pc = "handle" /\ q.s = s /\ q.keeps = keeper
  BY DEF Idle
<1>6. Alone => WriterOk(q, jar, keeper, rows, clock)
  BY <1>3, <1>5 DEF WriterOk, ReadOk
<1>7. Alone => JarOk(q.sets, jar, left, keeper, rows, clock)
  BY <1>2, <1>5 DEF JarOk
<1>8. RowsOk(rows')
  BY <1>4 DEF FInv
<1> HIDE DEF q
<1>. QED
  BY <1>4, <1>6, <1>7, <1>8, WriterStep

\* A call that leaves the session as it is, or says it hasn't.
LEMMA CallsTell ==
    ASSUME NEW s \in Sessions, NEW t \in Calls(s)
    PROVE  /\ t.id = s.id /\ t.wrote = s.wrote
           /\ ~ t.changed => ~ s.changed /\ Found(t) = Found(s) /\ t.lifetime = s.lifetime
<1> USE DEF Sessions
<1>1. CASE \E v \in Values : t \in {[s EXCEPT !.values = @ \cup {v}, !.changed = TRUE],
                                    [s EXCEPT !.values = @ \ {v}, !.changed = TRUE]}
  BY <1>1
<1>2. CASE \E f \in Flashes : t \in {[s EXCEPT !.next = @ \cup {f}], [s EXCEPT !.next = @ \ {f}]}
  BY <1>2 DEF Found
<1>3. CASE t \in {[s EXCEPT !.passed = TRUE], Reflash(s)}
  BY <1>3 DEF Reflash, Found
<1>4. CASE t \in {Rotate(s), Clear(s)}
  BY <1>4 DEF Rotate, Clear
<1>5. CASE \E u \in Users : t = Login(s, u)
  BY <1>5 DEF Login, Rotate
<1>6. CASE \E d \in Lifetimes : t = [s EXCEPT !.lifetime = d, !.changed = TRUE]
  BY <1>6
<1>. QED
  BY <1>1, <1>2, <1>3, <1>4, <1>5, <1>6 DEF Calls

LEMMA WriterCalls ==
    ASSUME IInv, FInv, NEW r \in Requests, r \notin passers, Call(r)
    PROVE  FInv'
<1>1. req[r] \in Request /\ req[r].s \in Sessions /\ At(r, "handle")
  BY RequestKnown DEF Call
<1>2. PICK t \in Calls(req[r].s) : req' = [req EXCEPT ![r].s = t]
  BY DEF Call
<1> DEFINE q == [req[r] EXCEPT !.s = t]
<1>3. /\ req' = [req EXCEPT ![r] = q] /\ q.s = t /\ q.pc = "handle"
      /\ q.keeps = req[r].keeps /\ q.sets = req[r].sets
  BY <1>1, <1>2 DEF Request, IInv, TypeOK, At
<1>4. UNCHANGED <<clock, keeper, rows, jar, left, passers>>
  BY DEF Call, browserVars, appVars, history
<1>5. ASSUME Alone PROVE WriterOk(q, jar, keeper, rows, clock)
  <2>1. ReadOk(req[r], rows, clock) /\ ~ req[r].sets /\ (q.keeps => keeper)
    BY <1>1, <1>3, <1>5, WriterKnown DEF WriterOk, At
  <2>2. LifetimeOf(t) = LifetimeOf(req[r].s) \/ t.changed
    BY <1>1, <1>2, CallsTell DEF LifetimeOf
  <2>3. ReadOk(q, rows, clock)
    BY <1>1, <1>2, <1>3, <2>1, <2>2, CallsTell DEF ReadOk
  <2>. QED
    BY <1>3, <2>1, <2>3 DEF WriterOk
<1>. QED
  BY <1>3, <1>4, <1>5, WriterKnown, WriterStep DEF FInv

\* What save makes of the session s is what its response leaves.
LEMMA LeavesSaved ==
    ASSUME NEW s \in Sessions
    PROVE  /\ Payload(Saved(s)) = Leaves(s) /\ Saved(s) \in Sessions
           /\ Saved(s).id = s.id /\ Saved(s).wrote = s.wrote /\ Saved(s).changed = s.changed
           /\ Saved(s).rotated = s.rotated /\ Saved(s).lifetime = s.lifetime
           /\ Found(Saved(s)) = Found(s)
<1>1. CASE s.passed
  <2>1. Saved(s) = [s EXCEPT !.next = s.next \cup s.now]
    BY <1>1 DEF Saved, Reflash
  <2>2. Leaves(s) = [user |-> s.user, values |-> s.values, flash |-> s.next \cup s.now]
    <3>1. Leaves(s) = [Payload(s) EXCEPT !.flash = Payload(s).flash \cup s.now]
      BY <1>1 DEF Leaves
    <3>. QED
      BY <3>1 DEF Payload
  <2>. QED
    BY <2>1, <2>2 DEF Sessions, Payload, Found
<1>2. CASE ~ s.passed
  <2>1. Saved(s) = s /\ Leaves(s) = Payload(s)
    BY <1>2 DEF Saved, Leaves, Payload
  <2>. QED
    BY <2>1
<1>. QED
  BY <1>1, <1>2

\* An answer that sets a cookie whose session is found where it says.
LEMMA AnsweredOk ==
    ASSUME NEW c, NEW leaves, NEW j, NEW l, NEW k, NEW rs, NEW now,
           j # None /\ j.id # None => k,
           c # None => Lasts(c, rs) /\ Holds(c, leaves, rs, now) /\ (c.id # None => k)
    PROVE  /\ JarOk(Answered(c, leaves).sets, j, l, k, rs, now)
           /\ WriterOk(Answered(c, leaves), j, k, rs, now)
<1>1. /\ Answered(c, leaves).pc = "answer" /\ Answered(c, leaves).sets
      /\ Answered(c, leaves).cookie = c /\ Answered(c, leaves).leaves = leaves
      /\ ~ Answered(c, leaves).keeps
  BY DEF Answered, Idle
<1>. QED
  BY <1>1 DEF JarOk, WriterOk

LEMMA WriterSaves ==
    ASSUME SessionAssumption, IInv, FInv, NEW r \in Requests, r \notin passers, Save(r)
    PROVE  FInv'
<1> DEFINE s == req[r].s
           z == Saved(s)
<1>1. CASE SaveNothing(r)
  BY <1>1, WriterSends
<1>2. /\ s \in Sessions /\ req[r] \in Request /\ clock \in Nat
      /\ Payload(z) = Leaves(s) /\ z \in Sessions
      /\ z.id = s.id /\ z.wrote = s.wrote /\ z.changed = s.changed
      /\ z.rotated = s.rotated /\ z.lifetime = s.lifetime /\ Found(z) = Found(s)
  BY RequestKnown, LeavesSaved
<1>3. UNCHANGED <<clock, keeper, rows, jar, left, passers>> /\ RowsOk(rows') /\ At(r, "handle")
  BY DEF Save, SaveNothing, SaveEmptied, SaveCookie, SaveUnchanged, SaveRow, Keeping, Saving,
         browserVars, appVars, history, FInv
<1>4. Alone => /\ ~ req[r].sets /\ ReadOk(req[r], rows, clock) /\ (req[r].keeps => keeper)
               /\ JarOk(FALSE, jar, left, keeper, rows, clock)
               /\ (jar # None /\ jar.id # None => keeper)
  BY <1>3, WriterKnown DEF WriterOk, JarOk, At
<1>5. ASSUME NEW q, req' = [req EXCEPT ![r] = q],
             Alone => JarOk(q.sets, jar, left, keeper, rows, clock) /\ WriterOk(q, jar, keeper, rows, clock)
      PROVE  FInv'
  BY <1>3, <1>5, WriterStep
<1>6. CASE SaveEmptied(r)
  <2> DEFINE q == [Idle EXCEPT !.pc = "forget", !.old = s.id]
  <2>1. ~ q.sets /\ ~ q.keeps /\ q.pc = "forget"
    BY DEF Idle
  <2>2. Alone => JarOk(q.sets, jar, left, keeper, rows, clock)
    BY <1>4, <2>1 DEF JarOk
  <2>3. WriterOk(q, jar, keeper, rows, clock)
    BY <2>1, PlainlyOk
  <2>4. Alone => /\ JarOk(Answered(None, Empty).sets, jar, left, keeper, rows, clock)
                 /\ WriterOk(Answered(None, Empty), jar, keeper, rows, clock)
    BY <1>4, AnsweredOk
  <2> HIDE DEF q
  <2>5. req' = [req EXCEPT ![r] = q] \/ req' = [req EXCEPT ![r] = Answered(None, Empty)]
    BY <1>6 DEF SaveEmptied, q
  <2>. QED
    BY <1>5, <2>2, <2>3, <2>4, <2>5
<1>7. CASE SaveCookie(r)
  <2> DEFINE c == CookieOf(z, clock, FALSE)
  <2>1. c.id = None /\ c.is = Leaves(s)
    BY <1>2 DEF CookieOf
  <2>2. Alone => /\ JarOk(Answered(c, Leaves(s)).sets, jar, left, keeper, rows, clock)
                 /\ WriterOk(Answered(c, Leaves(s)), jar, keeper, rows, clock)
    BY <1>4, <2>1, AnsweredOk DEF Lasts, Holds
  <2>3. Alone => /\ JarOk(Unanswered.sets, jar, left, keeper, rows, clock)
                 /\ WriterOk(Unanswered, jar, keeper, rows, clock)
    BY <1>4, IdleOk DEF JarOk, Unanswered, Idle
  <2>4. \/ req' = [req EXCEPT ![r] = Answered(c, Leaves(s))]
        \/ req' = [req EXCEPT ![r] = Unanswered]
    BY <1>7 DEF SaveCookie
  <2>. QED
    BY <1>5, <2>2, <2>3, <2>4
<1>8. CASE SaveUnchanged(r)
  <2> DEFINE c == CookieOf(z, clock, TRUE)
  <2>1. c.id = s.id /\ c.expires = clock + LifetimeOf(s) /\ c.lifetime = s.lifetime
    BY <1>2 DEF CookieOf, LifetimeOf
  <2>2. /\ s.id # None /\ ~ s.changed /\ z.next = {} /\ z.now = {}
        /\ s.wrote >= 0 /\ clock - s.wrote < Refresh /\ req[r].keeps
    BY <1>2, <1>8 DEF SaveUnchanged, Unchanged, Keeping
  <2>3. s.wrote \in Nat /\ LifetimeOf(s) \in Nat /\ s.id \in Ids /\ Refresh \in Nat
    BY <1>2, <2>2, LifetimeType DEF Sessions, SessionAssumption
  <2>4. Found(s) = Leaves(s)
    BY <1>2, <2>2 DEF Found, Payload
  <2>5. Alone => /\ rows[s.id] # None /\ rows[s.id].wrote = s.wrote
                 /\ rows[s.id].is = Leaves(s) /\ rows[s.id].expires = s.wrote + LifetimeOf(s)
                 /\ keeper
    <3>1. clock < s.wrote + Refresh
      BY <1>2, <2>2, <2>3
    <3>. QED
      BY <1>4, <2>2, <2>4, <3>1 DEF ReadOk
  <2>6. LifetimeOf(c) = LifetimeOf(s)
    BY <2>1 DEF LifetimeOf
  <2>7. Alone => Lasts(c, rows)
    BY <2>1, <2>5, <2>6 DEF Lasts
  <2>8. Alone => Holds(c, Leaves(s), rows, clock)
    <3>1. clock + LifetimeOf(s) < s.wrote + LifetimeOf(s) + Refresh
      BY <1>2, <2>2, <2>3
    <3> HIDE DEF c
    <3>. QED
      BY <2>1, <2>2, <2>5, <3>1 DEF Holds
  <2>9. req' = [req EXCEPT ![r] = Answered(c, Leaves(s))]
    BY <1>8 DEF SaveUnchanged
  <2> HIDE DEF c
  <2>10. Alone => /\ JarOk(Answered(c, Leaves(s)).sets, jar, left, keeper, rows, clock)
                  /\ WriterOk(Answered(c, Leaves(s)), jar, keeper, rows, clock)
    BY <1>4, <2>5, <2>7, <2>8, AnsweredOk
  <2>. QED
    BY <1>5, <2>9, <2>10
<1>9. CASE SaveRow(r)
  <2>1. PICK id \in IF z.id = None \/ z.rotated THEN {i \in Ids : owner[i] = {}} ELSE {z.id} :
           req' = [req EXCEPT ![r] = [Idle EXCEPT !.pc = "write", !.s = ToWrite(z, id), !.old = z.id,
                                                  !.at = clock, !.leaves = Leaves(s)]]
    BY <1>9 DEF SaveRow
  <2> DEFINE q == [Idle EXCEPT !.pc = "write", !.s = ToWrite(z, id), !.old = z.id,
                               !.at = clock, !.leaves = Leaves(s)]
  <2>2. /\ q.pc = "write" /\ q.s = ToWrite(z, id) /\ q.old = s.id /\ q.at = clock
        /\ q.leaves = Leaves(s) /\ ~ q.sets /\ ~ q.keeps
    BY <1>2 DEF Idle
  <2>3. Payload(q.s) = Leaves(s) /\ q.s.id = id
    <3>1. LET w == ToWrite(z, id) IN
             w.user = z.user /\ w.values = z.values /\ w.next = z.next /\ w.id = id
      BY DEF ToWrite, NewSession
    <3>2. Payload(ToWrite(z, id)) = Payload(z)
      BY <3>1 DEF Payload
    <3>. QED
      BY <1>2, <2>2, <3>1, <3>2
  <2>4. id # None /\ (id # s.id => id \in Ids /\ owner[id] = {})
    BY <1>2, <2>1 DEF SessionAssumption
  <2>5. jar # None /\ jar.id # None => owner[jar.id] # {}
    BY DEF IInv, TypeOK
  <2>6. req[r].keeps
    BY <1>9 DEF SaveRow, Keeping
  <2>7. Alone => WriterOk(q, jar, keeper, rows, clock)
    BY <1>2, <1>4, <2>2, <2>3, <2>4, <2>5, <2>6 DEF WriterOk
  <2>8. Alone => JarOk(q.sets, jar, left, keeper, rows, clock)
    BY <1>4, <2>2 DEF JarOk
  <2> HIDE DEF q
  <2>. QED
    BY <1>5, <2>1, <2>7, <2>8 DEF q
<1>. QED
  BY <1>1, <1>6, <1>7, <1>8, <1>9 DEF Save

\* The row that's written, and the cookie that goes out for it.
LEMMA Written ==
    ASSUME SessionAssumption, IInv, FInv, NEW r \in Requests, At(r, "write"),
           NEW rs, rs = [rows EXCEPT ![req[r].s.id] = RowOf(req[r])],
           NEW c, c = CookieOf(req[r].s, req[r].at, TRUE)
    PROVE  /\ req[r].s.id \in Ids /\ RowsOk(rs)
           /\ c.id = req[r].s.id /\ Lasts(c, rs)
           /\ req[r].leaves = Payload(req[r].s) => Holds(c, req[r].leaves, rs, clock)
<1> DEFINE id == req[r].s.id
           row == RowOf(req[r])
           L == LifetimeOf(req[r].s)
<1>1. req[r].s \in Sessions /\ req[r].at \in Nat /\ id \in Ids /\ row \in Rows
  BY RequestKnown, RowType DEF At, GoodRequest, GoodCopy, Sessions
<1>2. L \in Nat /\ L > 0 /\ Refresh \in Nat /\ Refresh > 0
  BY <1>1, LifetimeType DEF LifetimeOf, SessionAssumption, Sessions
<1>3. /\ row.is = Payload(req[r].s) /\ row.expires = req[r].at + L
      /\ row.until = req[r].at + L + Refresh /\ row.wrote = req[r].at /\ row # None
  BY <1>1, NoRowAssumption DEF RowOf
<1>4. rs[id] = row /\ \A i \in Ids : i # id => rs[i] = rows[i]
  BY <1>1 DEF IInv, TypeOK
<1>5. c.id = id /\ c.expires = req[r].at + L /\ LifetimeOf(c) = L
  BY DEF CookieOf, LifetimeOf
<1> HIDE DEF id, row, L
<1>6. RowsOk(rs)
  BY <1>1, <1>2, <1>3, <1>4 DEF FInv, RowsOk
<1>7. Lasts(c, rs)
  BY <1>3, <1>4, <1>5 DEF Lasts
<1>8. req[r].leaves = Payload(req[r].s) => Holds(c, req[r].leaves, rs, clock)
  <2>1. c.expires < rs[id].expires + Refresh
    <3>1. req[r].at + L < req[r].at + L + Refresh
      BY <1>1, <1>2
    <3>. QED
      BY <1>3, <1>4, <1>5, <3>1
  <2>2. rs[c.id] = row /\ c.id = id /\ row # None
    BY <1>3, <1>4, <1>5
  <2>3. c.id # None
    BY <1>1, <1>5 DEF SessionAssumption
  <2>. QED
    BY <1>3, <2>1, <2>2, <2>3 DEF Holds
<1>. QED
  BY <1>1, <1>5, <1>6, <1>7, <1>8 DEF id

LEMMA WriterWrites ==
    ASSUME SessionAssumption, IInv, FInv, NEW r \in Requests, r \notin passers, Write(r)
    PROVE  FInv'
<1> DEFINE c == CookieOf(req[r].s, req[r].at, TRUE)
           leaves == req[r].leaves
           answer == Answered(c, leaves)
           drop == [answer EXCEPT !.pc = "drop", !.old = req[r].old]
           rs == [rows EXCEPT ![req[r].s.id] = RowOf(req[r])]
<1>1. /\ At(r, "write") /\ rows' = rs
      /\ UNCHANGED <<clock, keeper, jar, left, passers>>
  BY DEF Write, browserVars, appVars, history
<1>2. Alone => leaves = Payload(req[r].s) /\ keeper /\ (jar # None /\ jar.id # None => keeper)
  BY <1>1, WriterKnown DEF WriterOk, JarOk, At
<1>3. RowsOk(rs) /\ c.id = req[r].s.id /\ Lasts(c, rs) /\ (Alone => Holds(c, leaves, rs, clock))
  BY <1>1, <1>2, Written
<1>4. Alone => JarOk(answer.sets, jar, left, keeper, rs, clock) /\ WriterOk(answer, jar, keeper, rs, clock)
  BY <1>2, <1>3, AnsweredOk
<1>5. /\ drop.pc = "drop" /\ drop.sets /\ answer.sets /\ drop.cookie = c /\ drop.leaves = leaves
      /\ ~ drop.keeps
  BY DEF Answered, Idle
<1>6. Alone /\ req[r].old # req[r].s.id =>
         JarOk(drop.sets, jar, left, keeper, rs, clock) /\ WriterOk(drop, jar, keeper, rs, clock)
  <2>1. drop.old = req[r].old
    BY DEF Answered, Idle
  <2>. QED
    BY <1>2, <1>3, <1>5, <2>1 DEF JarOk, WriterOk
<1>7. \/ req' = [req EXCEPT ![r] = answer]
      \/ req' = [req EXCEPT ![r] = drop] /\ req[r].old # req[r].s.id
  BY DEF Write
<1> HIDE DEF answer, drop, rs
<1>. QED
  BY <1>1, <1>3, <1>4, <1>6, <1>7, WriterStep

\* With faults no lifetimes are but the Store's; one that's written again lasts as
\* long as the cookie for it.
LEMMA WriterFails ==
    ASSUME SessionAssumption, IInv, PlainInv, FInv, Lifetimes = {} \/ MaxFaults = 0,
           NEW r \in Requests, r \notin passers, WriteFails(r)
    PROVE  FInv'
<1> DEFINE rs == [rows EXCEPT ![req[r].s.id] = RowOf(req[r])]
<1>1. /\ At(r, "write") /\ req' = [req EXCEPT ![r] = Unanswered] /\ rows' \in {rows, rs}
      /\ UNCHANGED <<clock, keeper, jar, passers>>
      /\ left' = IF rows' # rows /\ req[r].s.id = req[r].old THEN None ELSE left
  BY DEF WriteFails, appVars
<1>2. Lifetimes = {}
  BY DEF WriteFails, Fault, IInv, TypeOK
<1>3. RowsOk(rs) /\ req[r].s.id \in Ids
  BY <1>1, Written
<1>4. RowsOk(rows')
  BY <1>1, <1>3 DEF FInv
<1>5. PlainRows(rows)' /\ (jar # None => LifetimeOf(jar) = Lifetime)
  <2>1. PlainRows(rows')
    BY <1>1, <1>2, PlainWritten DEF PlainInv
  <2>. QED
    BY <1>2, <2>1 DEF PlainInv, LifetimeOf, PlainRows
<1>6. ASSUME Alone PROVE JarOk(FALSE, jar, left', keeper, rows', clock)
  <2>1. /\ JarOk(FALSE, jar, left, keeper, rows, clock)
        /\ req[r].s.id # req[r].old /\ jar # None => jar.id # req[r].s.id
    BY <1>1, <1>6, WriterKnown DEF WriterOk, JarOk, At
  <2>2. jar # None /\ jar.id # None => jar.id \in Ids
    BY DEF IInv, TypeOK, Cookies
  <2>3. jar # None => Lasts(jar, rows')
    BY <1>5, <2>2 DEF PlainRows, Lasts
  <2>4. CASE rows' # rows /\ req[r].s.id = req[r].old
    BY <1>1, <2>1, <2>3, <2>4 DEF JarOk
  <2>5. CASE rows' = rows
    BY <1>1, <2>1, <2>5 DEF JarOk
  <2>6. CASE rows' = rs /\ req[r].s.id # req[r].old
    <3>1. left' = left
      BY <1>1, <2>6
    <3>2. jar # None /\ jar.id # None => rs[jar.id] = rows[jar.id]
      BY <2>1, <2>2, <2>6 DEF IInv, TypeOK
    <3>. QED
      BY <2>1, <2>3, <2>6, <3>1, <3>2 DEF JarOk, Holds
  <2>. QED
    BY <1>1, <2>4, <2>5, <2>6
<1>7. ~ Unanswered.sets
  BY DEF Unanswered, Idle
<1>8. Alone => JarOk(Unanswered.sets, jar, left', keeper, rows', clock)
  BY <1>6, <1>7 DEF JarOk
<1>. QED
  BY <1>1, <1>4, <1>8, IdleOk, WriterStep

LEMMA WriterDrops ==
    ASSUME SessionAssumption, IInv, FInv, NEW r \in Requests, r \notin passers, Drop(r) \/ Forget(r)
    PROVE  FInv'
<1>1. rows' \in {rows, [rows EXCEPT ![req[r].old] = None]}
  BY DEF Drop, Forget, Deletes
<1>2. \A id \in Ids : rows'[id] # None => rows'[id] = rows[id]
  BY <1>1 DEF IInv, TypeOK
<1>3. RowsOk(rows')
  BY <1>2 DEF FInv, RowsOk
<1>4. UNCHANGED <<clock, keeper, jar, passers, left>>
  BY DEF Drop, Forget, appVars
<1>5. CASE Drop(r)
  <2> DEFINE d == [req[r] EXCEPT !.pc = "answer", !.old = None]
  <2>1. req[r] \in Request /\ req[r].old \in Ids
    BY <1>5, RequestKnown DEF Drop, At, GoodRequest, GoodCopy, Request
  <2>2. req' = [req EXCEPT ![r] = d]
    BY <1>5, <2>1 DEF Drop, Request, IInv, TypeOK
  <2>3. /\ d.pc = "answer" /\ d.sets = req[r].sets /\ d.cookie = req[r].cookie
        /\ d.leaves = req[r].leaves /\ d.keeps = req[r].keeps
    BY <2>1 DEF Request
  <2>4. ASSUME Alone
        PROVE  JarOk(d.sets, jar, left, keeper, rows', clock) /\ WriterOk(d, jar, keeper, rows', clock)
    <3>1. /\ req[r].sets /\ req[r].cookie.id # req[r].old
          /\ JarOk(req[r].sets, jar, left, keeper, rows, clock)
          /\ WriterOk(req[r], jar, keeper, rows, clock)
      BY <1>5, <2>4, WriterKnown DEF WriterOk, Drop, At
    <3>2. JarOk(d.sets, jar, left, keeper, rows', clock)
      BY <2>3, <3>1 DEF JarOk
    <3>3. req[r].cookie # None /\ req[r].cookie.id # None =>
             rows'[req[r].cookie.id] = rows[req[r].cookie.id]
      BY <1>1, <2>1, <3>1 DEF IInv, TypeOK, Request, Cookies
    <3>. QED
      BY <2>3, <3>1, <3>2, <3>3 DEF WriterOk, Lasts, Holds
  <2> HIDE DEF d
  <2>. QED
    BY <1>3, <1>4, <2>2, <2>4, WriterStep
<1>6. CASE Forget(r)
  <2>1. Alone => (jar # None /\ jar.id # None => keeper)
    BY WriterKnown DEF JarOk
  <2>2. req' = [req EXCEPT ![r] = Answered(None, Empty)]
    BY <1>6 DEF Forget
  <2>. QED
    BY <1>3, <1>4, <2>1, <2>2, AnsweredOk, WriterStep
<1>. QED
  BY <1>5, <1>6

\* The response comes, or is lost with what's left of the session.
LEMMA WriterArrives ==
    ASSUME SessionAssumption, IInv, PlainInv, FInv, Lifetimes = {} \/ MaxFaults = 0,
           NEW r \in Requests, r \notin passers, Arrive(r) \/ Lose(r)
    PROVE  FInv'
<1>1. /\ req' = [req EXCEPT ![r] = Idle]
      /\ UNCHANGED <<clock, keeper, rows, passers>> /\ RowsOk(rows')
  BY DEF Arrive, Lose, appVars, FInv
<1>2. ASSUME Alone PROVE JarOk(FALSE, jar', left', keeper, rows, clock)
  <2>1. /\ JarOk(req[r].sets, jar, left, keeper, rows, clock)
        /\ WriterOk(req[r], jar, keeper, rows, clock)
    BY <1>2, WriterKnown
  <2>2. CASE ~ req[r].sets
    <3>1. UNCHANGED <<jar, left>>
      BY <2>2 DEF Arrive, Lose, appVars
    <3>. QED
      BY <2>1, <2>2, <3>1 DEF JarOk
  <2>3. CASE req[r].sets /\ Arrive(r)
    <3>1. jar' = req[r].cookie /\ left' = req[r].leaves
      BY <2>3 DEF Arrive
    <3>. QED
      BY <2>1, <2>3, <3>1 DEF JarOk, WriterOk
  <2>4. CASE req[r].sets /\ Lose(r)
    <3>1. jar' = jar /\ left' = None
      BY <2>4 DEF Lose, appVars
    <3>2. Lifetimes = {}
      BY <2>4 DEF Lose, Fault, IInv, TypeOK
    <3>3. jar # None => Lasts(jar, rows)
      BY <3>2 DEF PlainInv, PlainRows, LifetimeOf, Lasts, IInv, TypeOK, Cookies
    <3>. QED
      BY <2>1, <3>1, <3>3 DEF JarOk
  <2>. QED
    BY <2>2, <2>3, <2>4
<1>3. ~ Idle.sets
  BY DEF Idle
<1>4. Alone => JarOk(Idle.sets, jar', left', keeper', rows', clock')
  BY <1>1, <1>2, <1>3 DEF JarOk
<1>. QED
  BY <1>1, <1>4, IdleOk, WriterStep

LEMMA PrunedOk ==
    ASSUME SessionAssumption, IInv, FInv, NEW id \in Ids, Prune(id)
    PROVE  FInv'
<1>1. /\ rows' = [rows EXCEPT ![id] = None] /\ rows[id].until <= clock /\ rows[id] # None
      /\ UNCHANGED <<clock, keeper, jar, passers, left, req>>
  BY DEF Prune, browserVars, appVars, history
<1>2. /\ \A i \in Ids : rows'[i] = IF i = id THEN None ELSE rows[i]
      /\ rows[id] \in Rows /\ clock \in Nat /\ Refresh \in Nat \ {0}
  BY <1>1 DEF IInv, TypeOK, SessionAssumption
<1>3. RowsOk(rows')
  BY <1>2 DEF FInv, RowsOk
<1>4. rows[id].expires \in Nat /\ rows[id].wrote \in Nat /\ rows[id].until = rows[id].expires + Refresh
      /\ rows[id].wrote < rows[id].expires
  BY <1>1, <1>2 DEF Rows, FInv, RowsOk
<1>5. ASSUME NEW c \in Cookies PROVE Lasts(c, rows) => Lasts(c, rows')
  BY <1>2 DEF Lasts, Cookies
<1>6. ASSUME NEW c \in Cookies, NEW is, Holds(c, is, rows, clock) PROVE Holds(c, is, rows', clock)
  <2>1. c.expires \in Nat /\ c.id \in Ids \cup {None}
    BY DEF Cookies
  <2>2. c.id = id /\ c.id # None => ~ (clock + Refresh <= c.expires + 1)
    BY <1>1, <1>2, <1>4, <1>6, <2>1 DEF Holds
  <2>. QED
    BY <1>2, <1>6, <2>1, <2>2 DEF Holds
<1>7. ASSUME NEW q \in Request, ReadOk(q, rows, clock) PROVE ReadOk(q, rows', clock)
  <2>1. q.s.id \in Ids \cup {None}
    BY DEF Request, Sessions
  <2>2. q.s.id = id /\ q.s.id # None /\ q.s.wrote >= 0 => ~ (clock < q.s.wrote + Refresh)
    BY <1>1, <1>2, <1>4, <1>7 DEF ReadOk
  <2>. QED
    BY <1>2, <1>7, <2>1, <2>2 DEF ReadOk
<1>8. ASSUME Alone PROVE AloneOk'
  <2> SUFFICES ASSUME NEW r \in Requests, r \notin passers
               PROVE  /\ JarOk(req[r].sets, jar, left, keeper, rows', clock)
                      /\ WriterOk(req[r], jar, keeper, rows', clock)
    BY <1>1 DEF AloneOk
  <2>1. /\ JarOk(req[r].sets, jar, left, keeper, rows, clock)
        /\ WriterOk(req[r], jar, keeper, rows, clock)
    BY <1>8, WriterKnown
  <2>2. req[r] \in Request /\ jar \in Cookies \cup {None} /\ req[r].cookie \in Cookies \cup {None}
    BY DEF IInv, TypeOK, Request
  <2>3. JarOk(req[r].sets, jar, left, keeper, rows', clock)
    BY <1>5, <1>6, <2>1, <2>2 DEF JarOk
  <2>4. WriterOk(req[r], jar, keeper, rows', clock)
    BY <1>5, <1>6, <1>7, <2>1, <2>2 DEF WriterOk
  <2>. QED
    BY <2>3, <2>4
<1>. QED
  BY <1>1, <1>3, <1>8 DEF FInv, SetsNone, Alone

LEMMA TickedOk ==
    ASSUME SessionAssumption, IInv, FInv, Tick \/ Deploy \/ UNCHANGED vars
    PROVE  FInv'
<1>1. /\ UNCHANGED <<rows, jar, passers, left, req>>
      /\ clock' \in {clock, clock + 1} /\ (keeper => keeper')
  BY DEF Tick, Deploy, vars, browserVars, appVars, history, IInv, TypeOK
<1>2. clock \in Nat /\ Refresh \in Nat
  BY DEF IInv, TypeOK, SessionAssumption
<1>3. ASSUME NEW c \in Cookies, NEW is, Holds(c, is, rows, clock) PROVE Holds(c, is, rows, clock')
  <2>1. c.expires \in Nat
    BY DEF Cookies
  <2>2. clock' + Refresh <= c.expires + 1 => clock + Refresh <= c.expires + 1
    BY <1>1, <1>2, <2>1
  <2>. QED
    BY <1>3, <2>2 DEF Holds
<1>4. ASSUME NEW q \in Request, ReadOk(q, rows, clock) PROVE ReadOk(q, rows, clock')
  <2>1. q.s.wrote \in Int
    BY DEF Request, Sessions
  <2>2. clock' < q.s.wrote + Refresh => clock < q.s.wrote + Refresh
    BY <1>1, <1>2, <2>1
  <2>. QED
    BY <1>4, <2>2 DEF ReadOk
<1>5. ASSUME Alone PROVE AloneOk'
  <2> SUFFICES ASSUME NEW r \in Requests, r \notin passers
               PROVE  /\ JarOk(req[r].sets, jar, left, keeper', rows, clock')
                      /\ WriterOk(req[r], jar, keeper', rows, clock')
    BY <1>1 DEF AloneOk
  <2>1. /\ JarOk(req[r].sets, jar, left, keeper, rows, clock)
        /\ WriterOk(req[r], jar, keeper, rows, clock)
    BY <1>5, WriterKnown
  <2>2. /\ req[r] \in Request /\ jar \in Cookies \cup {None}
        /\ req[r].cookie \in Cookies \cup {None} /\ req[r].at \in Nat
    BY DEF IInv, TypeOK, Request
  <2>3. JarOk(req[r].sets, jar, left, keeper', rows, clock')
    BY <1>1, <1>3, <2>1, <2>2 DEF JarOk
  <2>4. req[r].at <= clock => req[r].at <= clock'
    BY <1>1, <1>2, <2>2
  <2>5. WriterOk(req[r], jar, keeper', rows, clock')
    BY <1>1, <1>3, <1>4, <2>1, <2>2, <2>4 DEF WriterOk
  <2>. QED
    BY <2>3, <2>5
<1>. QED
  BY <1>1, <1>5 DEF FInv, SetsNone, Alone

LEMMA FStepInv ==
    ASSUME SessionAssumption, IInv, AInv, PlainInv, FInv, Lifetimes = {} \/ MaxFaults = 0, [Next]_vars
    PROVE  FInv'
<1>1. ASSUME NEW r \in Requests,
             \/ Send(r) \/ Load(r) \/ Call(r) \/ Aborts(r) \/ Save(r) \/ Keep(r)
             \/ Arrive(r) \/ Lose(r)
      PROVE  FInv'
  <2>1. CASE r \in passers
    BY <1>1, <2>1, PasserKeeps
  <2>2. CASE r \notin passers
    BY <1>1, <2>2, WriterSends, WriterLoads, WriterCalls, WriterSaves, WriterWrites, WriterFails,
       WriterDrops, WriterArrives DEF Keep
  <2>. QED
    BY <2>1, <2>2
<1>. QED
  BY <1>1, PrunedOk, TickedOk DEF Next

\* What it finds, as it comes.
LEMMA Finding ==
    ASSUME SessionAssumption, IInv, FInv, NEW r \in Requests, r \notin passers, Load(r),
           Open(r), ~ req'[r].s.lost, clock + (Refresh - 1) <= req[r].cookie.expires,
           Alone, left # None
    PROVE  Found(req'[r].s) = left
<1> DEFINE c == req[r].cookie
<1>1. At(r, "sent") /\ c # None /\ clock <= c.expires
  BY DEF Open, Carried
<1>2. c = jar /\ JarOk(FALSE, jar, left, keeper, rows, clock)
  BY <1>1, WriterKnown DEF WriterOk, JarOk, At
<1>3. Holds(c, left, rows, clock) /\ (c.id # None => keeper)
  BY <1>1, <1>2 DEF JarOk
<1>4. /\ c \in Cookies /\ c.expires \in Nat /\ c.id \in Ids \cup {None} /\ c.is \in Contents
      /\ clock \in Nat /\ Refresh \in Nat
  BY <1>1, RequestKnown DEF Request, Cookies, SessionAssumption
<1>5. ASSUME NEW s, Loads(r, s) PROVE req'[r].s = s
  BY <1>5 DEF Loads, IInv, TypeOK, Idle
<1>6. CASE c.id = None
  <2> DEFINE s == Filled(Came(r), c.is)
  <2>1. CASE LoadCookie(r)
    <3>1. Loads(r, s)
      BY <2>1 DEF LoadCookie
    <3>2. s.user = c.is.user /\ s.values = c.is.values /\ s.now = c.is.flash
      BY DEF Filled, Came, NewSession
    <3>3. Found(s) = c.is
      BY <1>4, <3>2 DEF Found, Contents
    <3>. QED
      BY <1>3, <1>5, <1>6, <3>1, <3>3 DEF Holds
  <2>. QED
    BY <1>6, <2>1 DEF Load, LoadNew, LoadRow, LoadLost
<1>7. CASE c.id # None
  <2>1. clock + Refresh <= c.expires + 1
    BY <1>4
  <2>2. /\ rows[c.id] # None /\ rows[c.id].is = left
        /\ c.expires < rows[c.id].expires + Refresh
        /\ rows[c.id].until = rows[c.id].expires + Refresh
        /\ rows[c.id].expires \in Nat
    BY <1>3, <1>4, <1>7, <2>1 DEF Holds, FInv, RowsOk, IInv, TypeOK, Rows
  <2>3. Reads(IdOf(r))
    BY <1>1, <1>4, <2>1, <2>2 DEF Reads, IdOf
  <2>4. CASE LoadRow(r)
    BY <1>5, <2>2, <2>3, <2>4, Reading DEF IdOf
  <2>5. CASE LoadLost(r)
    <3>1. req'[r].s = [Came(r) EXCEPT !.lost = TRUE]
      BY <1>5, <2>5 DEF LoadLost
    <3>2. [Came(r) EXCEPT !.lost = TRUE].lost
      BY DEF Came, NewSession
    <3>. QED
      BY <3>1, <3>2
  <2>. QED
    BY <1>3, <1>7, <2>4, <2>5 DEF Load, LoadNew, LoadCookie
<1>. QED
  BY <1>6, <1>7

\* A step of x is of its record alone.
LEMMA OneStep ==
    ASSUME IInv, NEW x \in Requests,
           \/ Send(x) \/ Load(x) \/ Call(x) \/ Aborts(x) \/ Save(x) \/ Keep(x)
           \/ Arrive(x) \/ Lose(x)
    PROVE  \E q : req' = [req EXCEPT ![x] = q]
<1>1. req \in [Requests -> Request]
  BY DEF IInv, TypeOK
<1>2. CASE Send(x) \/ Load(x) \/ Aborts(x) \/ Arrive(x) \/ Lose(x)
  BY <1>2 DEF Send, Load, LoadNew, LoadCookie, LoadRow, LoadLost, Loads, Aborts, Arrive, Lose
<1>3. CASE Call(x)
  <2>1. PICK t : req' = [req EXCEPT ![x].s = t]
    BY <1>3 DEF Call
  <2>2. req' = [req EXCEPT ![x] = [req[x] EXCEPT !.s = t]]
    BY <1>1, <2>1 DEF Request
  <2>. QED
    BY <2>2
<1>4. CASE Save(x)
  BY <1>4 DEF Save, SaveNothing, SaveEmptied, SaveCookie, SaveUnchanged, SaveRow
<1>5. CASE Drop(x)
  <2>1. req' = [req EXCEPT ![x] = [req[x] EXCEPT !.pc = "answer", !.old = None]]
    BY <1>1, <1>5 DEF Drop, Request
  <2>. QED
    BY <2>1
<1>6. CASE Write(x) \/ WriteFails(x) \/ Forget(x)
  BY <1>6 DEF Write, WriteFails, Forget
<1>. QED
  BY <1>2, <1>3, <1>4, <1>5, <1>6 DEF Keep

LEMMA StepFinds ==
    ASSUME SessionAssumption, IInv, FInv, [Next]_vars
    PROVE  [Finds(Refresh - 1)]_vars
<1> SUFFICES ASSUME Next, NEW r \in Requests, r \notin passers,
                    Open(r), req'[r].pc = "handle", ~ req'[r].s.lost,
                    clock + (Refresh - 1) <= req[r].cookie.expires, Alone, left # None
             PROVE  Found(req'[r].s) = left
  BY DEF Finds
<1>1. At(r, "sent")
  BY DEF Open, Carried
<1>2. req' # req /\ req'[r] # req[r]
  BY <1>1 DEF At
<1>3. PICK x \in Requests : \/ Send(x) \/ Load(x) \/ Call(x) \/ Aborts(x) \/ Save(x) \/ Keep(x)
                           \/ Arrive(x) \/ Lose(x)
  BY <1>2 DEF Next, Prune, Tick, Deploy
<1>4. PICK q : req' = [req EXCEPT ![x] = q]
  BY <1>3, OneStep
<1>5. x = r
  BY <1>2, <1>4 DEF IInv, TypeOK
<1>6. Load(r)
  BY <1>1, <1>2, <1>3, <1>5 DEF Send, Call, Aborts, Save, SaveNothing, SaveEmptied, SaveCookie, SaveUnchanged,
       SaveRow, Keeping, Saving, Keep, Write, WriteFails, Drop, Forget, Arrive, Lose, At
<1>. QED
  BY <1>6, Finding

-----------------------------------------------------------------------------
(* The theorems.                                                           *)

\* The types hold, and a cookie never has a session beside an ID (save).
THEOREM SessionTypeCorrect == Spec => []TypeOK
<1>1. IInv => TypeOK
  BY DEF IInv
<1>. QED
  BY <1>1, Inv, PTL

\* An ID is never two users', nor a visitor's and then a user's: Login rotates, Clear
\* does, and a request that was on its way writes its copy back under an ID that was
\* of the same user as it read it (session.go, save and keep).
THEOREM Owners == Spec => []OneOwner
<1>1. IInv => OneOwner
  BY DEF IInv
<1>. QED
  BY <1>1, Inv, PTL

\* A session logged out, or given another ID, isn't there again under the ID it had, for
\* a browser whose other requests only pass (Clear, Rotate, and save of one that passes).
THEOREM Ends == Spec => []EndedWhenAlone
<1>1. AInv => EndedWhenAlone
  BY DEF AInv, EndedWhenAlone
<1>. QED
  BY <1>1, AloneInv, PTL

\* Who may write, alone, finds the session as the last response left it, whatever passes
\* beside it, by a cookie with Refresh to go, less a second: keep leaves a row that was
\* written less than Refresh ago, though the cookie goes out anew, and an ID that's
\* given for another, or a Keeper that came, changes nothing of it (read, save, keep).  It's
\* so where SetLifetime isn't called, or where nothing fails; with both it's not.
THEOREM FoundAsLeft == Lifetimes = {} \/ MaxFaults = 0 => (Spec => FindsWhatWasLeft)
<1> SUFFICES ASSUME Lifetimes = {} \/ MaxFaults = 0 PROVE Spec => FindsWhatWasLeft
  OBVIOUS
<1>1. Init => PlainInv /\ FInv
  <2> SUFFICES ASSUME Init PROVE PlainInv /\ FInv
    OBVIOUS
  <2>1. /\ \A r \in Requests : req[r] = Idle
        /\ jar = None /\ \A id \in Ids : rows[id] = None
        /\ passers \subseteq Requests
    BY SessionAssumption DEF Init, SessionAssumption
  <2>2. PlainInv
    BY <2>1, PlainIdle DEF PlainInv, PlainRows
  <2>3. ~ Idle.sets
    BY DEF Idle
  <2>4. SetsNone /\ RowsOk(rows)
    BY <2>1, <2>3 DEF SetsNone, RowsOk
  <2>5. AloneOk
    BY <2>1, IdleOk DEF AloneOk, JarOk
  <2>. QED
    BY <2>2, <2>4, <2>5 DEF FInv
<1>2. IInv /\ AInv /\ (PlainInv /\ FInv) /\ [Next]_vars => (PlainInv /\ FInv)'
  BY PlainStepInv, FStepInv, SessionAssumption
<1>3. IInv /\ FInv /\ [Next]_vars => [Finds(Refresh - 1)]_vars
  BY StepFinds, SessionAssumption
<1>. QED
  BY <1>1, <1>2, <1>3, Inv, AloneInv, PTL DEF Spec, FindsWhatWasLeft
=============================================================================
