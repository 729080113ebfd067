------------------------------ MODULE Presence ------------------------------
(***************************************************************************)
(* Who's on a channel: Hub.Enter, what it leaves as a page goes, and the   *)
(* lease an instance keeps for its pages, in the hub's own memory or in    *)
(* the starters' presences table; and a page that shows who's here, which  *)
(* reads it again as an event of it comes.                                 *)
(***************************************************************************)
EXTENDS Clock

CONSTANTS
    Conns,         \* the pages' connections, each with a key of its own
    Hubs,          \* the instances' hubs
    MemberOf,      \* MemberOf[c]: the member of connection c
    HubOf,         \* HubOf[c]: the hub c enters through
    Lease,         \* how long a member stays, in the ticks keepHere keeps at
    Stores,        \* of "memory" and "table", where it may be kept
    MaxFaults      \* bound: how often the table or a Publish fails, or a hub is killed

ASSUME PresenceAssumption ==
    /\ HubOf \in [Conns -> Hubs]
    /\ Lease \in Nat /\ Lease >= 3   \* keepHere keeps at a third of it, or sooner
    /\ MaxFaults \in Nat
    /\ Stores \subseteq {"memory", "table"}

VARIABLES
    store,         \* where who's here is kept
    until,         \* until[c]: when the lease of c's row ends, 0 of no row
    conn,          \* conn[c]: where c is
    kept,          \* the hubs that have kept their members' leases this tick
    failing,       \* the hubs whose last Keep failed
    faults,        \* how often the table or a Publish failed, or a hub was killed
    news,          \* whether an event is on its way to the page
    shown,         \* the members the page shows
    untold,        \* history: those of whose coming or going a Publish failed to
                   \* tell since the page read who's here
    lapsed,        \* history: the members one of whose rows wasn't kept or left
    crossed        \* history: those who entered as a page of theirs left

presenceVars ==
    <<clock, store, until, conn, kept, failing, faults, news, shown, untold, lapsed, crossed>>

-----------------------------------------------------------------------------

Members == {MemberOf[c] : c \in Conns}

\* Where a connection is: out, in Enter as the table has told who is there,
\* in Enter with its row, in, leaving, in leave with its row deleted.
ConnStates == [at : {"out", "looked", "written", "in", "leaving", "deleted"}, arrived : BOOLEAN]

Move(c, at, arrived) == conn' = [conn EXCEPT ![c] = [at |-> at, arrived |-> arrived]]

\* Whether m has a connection other than c here, one whose lease lasts.
HasOther(m, c) == \E d \in Conns \ {c} : MemberOf[d] = m /\ until[d] > clock

Here == {MemberOf[c] : c \in {d \in Conns : until[d] > clock}}

\* The channel is told of m, if that's new: a Publish that fails is logged, and
\* no more.
Tells(m, new) ==
    \/ news' = (news \/ new) /\ UNCHANGED <<faults, untold>>
    \/ /\ new /\ faults < MaxFaults
       /\ faults' = faults + 1 /\ untold' = untold \cup {m} /\ UNCHANGED news

\* Enter in memory: who's there is looked at and c's row written at once.
EnterAtOnce(c) ==
    /\ store = "memory" /\ conn[c].at = "out" /\ until[c] = 0
    /\ until' = [until EXCEPT ![c] = clock + Lease]
    /\ Move(c, "written", ~HasOther(MemberOf[c], c))
    /\ UNCHANGED <<clock, store, kept, failing, faults, news, shown, untold, lapsed, crossed>>

\* Enter in the table: it looks,
EnterLooks(c) ==
    /\ store = "table" /\ conn[c].at = "out" /\ until[c] = 0
    /\ Move(c, "looked", ~HasOther(MemberOf[c], c))
    /\ UNCHANGED <<clock, store, until, kept, failing, faults, news, shown, untold, lapsed, crossed>>

\* and then writes.
EnterWrites(c) ==
    /\ conn[c].at = "looked"
    /\ until' = [until EXCEPT ![c] = clock + Lease]
    /\ Move(c, "written", conn[c].arrived)
    /\ UNCHANGED <<clock, store, kept, failing, faults, news, shown, untold, lapsed, crossed>>

\* Either statement fails, the write with its row there or not, and Enter.
EnterFails(c) ==
    /\ conn[c].at = "looked" /\ faults < MaxFaults
    /\ \/ UNCHANGED <<until, lapsed>>
       \/ until' = [until EXCEPT ![c] = clock + Lease] /\ lapsed' = lapsed \cup {MemberOf[c]}
    /\ Move(c, "out", FALSE)
    /\ faults' = faults + 1
    /\ UNCHANGED <<clock, store, kept, failing, news, shown, untold, crossed>>

\* mutant: no one is told of an arrival.
EnterUntold(c) ==
    /\ conn[c].at = "written"
    /\ Move(c, "in", FALSE)
    /\ UNCHANGED <<clock, store, until, kept, failing, faults, news, shown, untold, lapsed, crossed>>

\* The hub keeps c's lease from now on, and an arrival is told.
EnterEnds(c) ==
    /\ conn[c].at = "written"
    /\ Move(c, "in", FALSE)
    /\ Tells(MemberOf[c], conn[c].arrived)
    /\ UNCHANGED <<clock, store, until, kept, failing, shown, lapsed, crossed>>

\* c's page goes, and the hub no longer keeps its lease.
Leave(c) ==
    /\ conn[c].at = "in"
    /\ Move(c, "leaving", FALSE)
    /\ UNCHANGED <<clock, store, until, kept, failing, faults, news, shown, untold, lapsed, crossed>>

\* Its row is deleted. One that was pruned is no one's: nobody left. In
\* memory, whether it was the member's last is looked at along with that.
LeaveDeletes(c) ==
    /\ conn[c].at = "leaving"
    /\ until' = [until EXCEPT ![c] = 0]
    /\ IF until[c] # 0 /\ store = "table"
       THEN Move(c, "deleted", FALSE) /\ UNCHANGED <<news, faults, untold>>
       ELSE /\ Move(c, "out", FALSE)
            /\ Tells(MemberOf[c], until[c] # 0 /\ ~HasOther(MemberOf[c], c))
    /\ crossed' = IF \E d \in Conns : conn[d].at = "looked" /\ MemberOf[d] = MemberOf[c]
                  THEN crossed \cup {MemberOf[c]} ELSE crossed
    /\ UNCHANGED <<clock, store, kept, failing, shown, lapsed>>

\* The table is asked whether it was the last, and then that's told.
LeaveTells(c) ==
    /\ conn[c].at = "deleted"
    /\ Move(c, "out", FALSE)
    /\ Tells(MemberOf[c], ~HasOther(MemberOf[c], c))
    /\ UNCHANGED <<clock, store, until, kept, failing, shown, lapsed, crossed>>

\* The table fails, at either statement, and nothing more is tried.
LeaveFails(c) ==
    /\ store = "table" /\ conn[c].at \in {"leaving", "deleted"} /\ faults < MaxFaults
    /\ Move(c, "out", FALSE)
    /\ faults' = faults + 1
    /\ lapsed' = lapsed \cup {MemberOf[c]}
    /\ UNCHANGED <<clock, store, until, kept, failing, news, shown, untold, crossed>>

-----------------------------------------------------------------------------
(* The leases                                                              *)

\* The connections whose keys hub h has.
Keys(h) == {c \in Conns : HubOf[c] = h /\ conn[c].at = "in"}

\* mutant: a lease is moved on by less than it's for.
KeepShort(h) ==
    /\ h \notin kept
    /\ until' = [c \in Conns |-> IF c \in Keys(h) /\ until[c] > 0 THEN clock + 1 ELSE until[c]]
    /\ kept' = kept \cup {h} /\ failing' = failing \ {h}
    /\ UNCHANGED <<clock, store, conn, faults, news, shown, untold, lapsed, crossed>>

\* keepHere moves the lease of each row of its keys that's there.
Keep(h) ==
    /\ h \notin kept
    /\ until' = [c \in Conns |-> IF c \in Keys(h) /\ until[c] > 0 THEN clock + Lease ELSE until[c]]
    /\ kept' = kept \cup {h} /\ failing' = failing \ {h}
    /\ UNCHANGED <<clock, store, conn, faults, news, shown, untold, lapsed, crossed>>

\* The table fails: it's tried again at the next tick.
KeepFails(h) ==
    /\ store = "table" /\ h \notin kept /\ faults < MaxFaults
    /\ kept' = kept \cup {h} /\ failing' = failing \cup {h}
    /\ faults' = faults + 1
    /\ lapsed' = IF h \in failing THEN lapsed \cup {MemberOf[c] : c \in Keys(h)} ELSE lapsed
    /\ UNCHANGED <<clock, store, until, conn, news, shown, untold, crossed>>

\* The job of every minute, in the table.
PrunePresence ==
    /\ store = "table" /\ \E c \in Conns : until[c] \in 1..clock
    /\ until' = [c \in Conns |-> IF until[c] > clock THEN until[c] ELSE 0]
    /\ UNCHANGED <<clock, store, conn, kept, failing, faults, news, shown, untold, lapsed, crossed>>

\* h is killed, and started again with no pages.
KillHub(h) ==
    /\ store = "table" /\ faults < MaxFaults
    /\ conn' = [c \in Conns |-> IF HubOf[c] = h THEN [at |-> "out", arrived |-> FALSE] ELSE conn[c]]
    /\ faults' = faults + 1
    /\ lapsed' = lapsed \cup {MemberOf[c] : c \in {d \in Conns : HubOf[d] = h /\ conn[d].at # "out"}}
    /\ kept' = kept \cup {h} /\ failing' = failing \ {h}
    /\ UNCHANGED <<clock, store, until, news, shown, untold, crossed>>

\* A tick is a third of the lease: keepHere keeps up with it, and Enter and
\* leave take less.
PresenceTick ==
    /\ Tick
    /\ kept = Hubs /\ \A c \in Conns : conn[c].at \in {"out", "in"}
    /\ kept' = {}
    /\ UNCHANGED <<store, until, conn, failing, faults, news, shown, untold, lapsed, crossed>>

\* The page is told, and reads who's here.
Look ==
    /\ news
    /\ news' = FALSE /\ shown' = Here /\ untold' = {}
    /\ UNCHANGED <<clock, store, until, conn, kept, failing, faults, lapsed, crossed>>

PresenceInit ==
    /\ clock = 0
    /\ store \in Stores
    /\ until = [c \in Conns |-> 0]
    /\ conn = [c \in Conns |-> [at |-> "out", arrived |-> FALSE]]
    /\ kept = {} /\ failing = {} /\ faults = 0
    /\ news = FALSE /\ shown = {}
    /\ untold = {} /\ lapsed = {} /\ crossed = {}

Entering(c) == EnterAtOnce(c) \/ EnterLooks(c) \/ EnterWrites(c) \/ EnterFails(c) \/ EnterEnds(c)

Leaving(c) == Leave(c) \/ LeaveDeletes(c) \/ LeaveTells(c) \/ LeaveFails(c)

PresenceNext ==
    \/ \E c \in Conns : Entering(c) \/ Leaving(c)
    \/ \E h \in Hubs : Keep(h) \/ KeepFails(h) \/ KillHub(h)
    \/ PrunePresence \/ PresenceTick \/ Look

PresenceSpec == PresenceInit /\ [][PresenceNext]_presenceVars

-----------------------------------------------------------------------------
(* Properties                                                              *)

PresenceTypeOK ==
    /\ clock \in 0..MaxTime
    /\ store \in Stores
    /\ until \in [Conns -> 0..(MaxTime + Lease)]
    /\ conn \in [Conns -> ConnStates]
    /\ kept \subseteq Hubs /\ failing \subseteq Hubs /\ faults \in 0..MaxFaults
    /\ news \in BOOLEAN
    /\ shown \subseteq Members /\ untold \subseteq Members
    /\ lapsed \subseteq Members /\ crossed \subseteq Members

\* A page that's open is on its channel: its lease doesn't run out, nor is its
\* row pruned, unless its hub failed to keep it twice running (keepHere, Keep,
\* prune).
OpenIsHere ==
    \A c \in Conns : conn[c].at = "in" /\ MemberOf[c] \notin lapsed => until[c] > clock

\* Those whose connections are all in or out.
Settled == {m \in Members : \A c \in Conns : MemberOf[c] = m => conn[c].at \in {"out", "in"}}

\* The page shows m, or not, as m has a page open, or not.
ShownRight(m) == m \in shown <=> \E c \in Conns : MemberOf[c] = m /\ conn[c].at = "in"

\* "Those on the channel hear presence.joined as a member arrives that wasn't
\* there, and presence.left as the last page of one goes, so a page that shows
\* who's here reloads it then" (docs/broadcasting.md): once it has read what it
\* was told of, it shows a member just as the member has a page open; not of
\* one of whom a Publish failed to tell since the page last read, which Enter
\* and leave only log, of one whose lease ran out, or of one who entered as a
\* page of theirs left.
ShowsWhosHere ==
    ~news => \A m \in Settled \ (untold \cup lapsed \cup crossed) : ShownRight(m)

\* What Enter says of pages of one member at the same moment: "an event too
\* many, which has a page read who's here again, and not a page left wrong".
NoPageLeftWrong ==
    ~news => \A m \in Settled \ (untold \cup lapsed) : ShownRight(m)
=============================================================================
