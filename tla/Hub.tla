-------------------------------- MODULE Hub --------------------------------
(***************************************************************************)
(* broadcast.Hub on the instances of an app, through a Store that listens  *)
(* as Postgres does, and the pages that follow a channel of it: each shows *)
(* what it last read of the app, and reads it again as an event comes, or  *)
(* as its stream, which ended, is opened again.                            *)
(***************************************************************************)
EXTENDS Integers, Sequences

CONSTANTS
    Pages,       \* the pages open in browsers
    Instances,
    On,          \* On[p]: the instance p's stream is on
    Room,        \* the events a subscriber may have waiting
    MaxVersion,  \* bound: how often the app changes what the pages show
    MaxFails     \* bound: how often an instance's Listen fails

ASSUME HubAssumption ==
    /\ On \in [Pages -> Instances]
    /\ Room \in Nat \ {0} /\ MaxVersion \in Nat /\ MaxFails \in Nat

VARIABLES
    version,     \* what the pages show, by how often it has changed
    told,        \* the version the last event published was of
    run,         \* run[i]: where instance i's Run is
    wire,        \* wire[i]: the events on their way to instance i's Listen
    subs,        \* subs[p]: p's subscriber, and the events it has waiting
    page,        \* page[p]: what p shows, and where its stream is
    fails,       \* how often Listen has failed
    sure         \* history: the pages that read the app as Listen and they followed

hubVars == <<version, told, run, wire, subs, page, fails, sure>>

-----------------------------------------------------------------------------
(* Publish, and what an instance does with an event                        *)

Subscribers == [open : BOOLEAN, events : Seq(1..MaxVersion)]

Closed == [open |-> FALSE, events |-> <<>>]

\* The pages with a subscriber on instance i.
Following(i) == {p \in Pages : On[p] = i /\ subs[p].open}

\* drop closes the subscriber: those waiting are still taken.
Dropped(s) == [s EXCEPT !.open = FALSE]

\* The app changes, and publishes an event of it as the change commits, which
\* goes to every connection that listens.
Change ==
    /\ version < MaxVersion
    /\ version' = version + 1
    /\ told' = version'
    /\ wire' = [i \in Instances |->
                   IF run[i] = "listening" THEN Append(wire[i], version') ELSE wire[i]]
    /\ UNCHANGED <<run, subs, page, fails, sure>>

\* The app changes, and its publish fails, which it logs: "a page sees it as
\* it next reloads" (docs/broadcasting.md).
ChangeUntold ==
    /\ version < MaxVersion
    /\ version' = version + 1
    /\ UNCHANGED <<told, run, wire, subs, page, fails, sure>>

\* mutant: events wait past the room there is for them.
HandedOn(s, e) == [s EXCEPT !.events = Append(@, e)]

\* What deliver leaves of a subscriber: the event waits, or it's behind.
Handed(s, e) ==
    IF Len(s.events) < Room THEN [s EXCEPT !.events = Append(@, e)] ELSE Dropped(s)

\* Listen hands deliver the next event.
Deliver(i) ==
    /\ run[i] = "listening" /\ wire[i] # <<>>
    /\ wire' = [wire EXCEPT ![i] = Tail(@)]
    /\ subs' = [p \in Pages |->
                   IF p \in Following(i) THEN Handed(subs[p], Head(wire[i])) ELSE subs[p]]
    /\ UNCHANGED <<version, told, run, page, fails, sure>>

\* The connection that listens is lost, with what was on its way.
ListenFails(i) ==
    /\ run[i] = "listening" /\ fails < MaxFails
    /\ run' = [run EXCEPT ![i] = "failed"]
    /\ wire' = [wire EXCEPT ![i] = <<>>]
    /\ fails' = fails + 1
    /\ UNCHANGED <<version, told, subs, page, sure>>

\* mutant: Run listens again and leaves the subscribers be.
KeepAll(i) ==
    /\ run[i] = "failed"
    /\ run' = [run EXCEPT ![i] = "waiting"]
    /\ UNCHANGED <<version, told, wire, subs, page, fails, sure>>

\* Run closes every subscriber, "as each may have missed an event",
DropAll(i) ==
    /\ run[i] = "failed"
    /\ run' = [run EXCEPT ![i] = "waiting"]
    /\ subs' = [p \in Pages |-> IF p \in Following(i) THEN Dropped(subs[p]) ELSE subs[p]]
    /\ UNCHANGED <<version, told, wire, page, fails, sure>>

\* and listens, at first, or again after a while.
Listen(i) ==
    /\ run[i] = "waiting"
    /\ run' = [run EXCEPT ![i] = "listening"]
    /\ UNCHANGED <<version, told, wire, subs, page, fails, sure>>

-----------------------------------------------------------------------------
(* A page and its stream                                                   *)

\* opened is whether the EventSource has been open before, wants whether the
\* page is to read the app again.
PageStates == [shows : 0..MaxVersion, at : {"out", "opening", "open"},
               opened : BOOLEAN, wants : BOOLEAN]

Go(p, is) == page' = [page EXCEPT ![p] = is]

\* The browser is at another page, and this one is loaded anew.
Load(p) ==
    /\ Go(p, [shows |-> version, at |-> "out", opened |-> FALSE, wants |-> FALSE])
    /\ subs' = [subs EXCEPT ![p] = Closed]
    /\ sure' = sure \ {p}
    /\ UNCHANGED <<version, told, run, wire, fails>>

\* The stream is opened: its header is sent before its handler subscribes. A
\* page whose stream was open before reads the app again.
Open(p) ==
    /\ page[p].at = "out"
    /\ Go(p, [page[p] EXCEPT !.at = "opening", !.opened = TRUE,
                             !.wants = page[p].wants \/ page[p].opened])
    /\ UNCHANGED <<version, told, run, wire, subs, fails, sure>>

\* The stream's handler subscribes.
Subscribe(p) ==
    /\ page[p].at = "opening"
    /\ Go(p, [page[p] EXCEPT !.at = "open"])
    /\ subs' = [subs EXCEPT ![p] = [open |-> TRUE, events |-> <<>>]]
    /\ UNCHANGED <<version, told, run, wire, fails, sure>>

\* The handler sends an event that waits, and the page is to read the app.
Send(p) ==
    /\ page[p].at = "open" /\ subs[p].events # <<>>
    /\ subs' = [subs EXCEPT ![p].events = Tail(@)]
    /\ Go(p, [page[p] EXCEPT !.wants = TRUE])
    /\ UNCHANGED <<version, told, run, wire, fails, sure>>

\* The stream ends: the hub closed the subscriber, and what waited is sent; or
\* the connection is lost, and the stream's context done.
End(p) ==
    /\ page[p].at # "out"
    /\ Go(p, [page[p] EXCEPT !.at = "out"])
    /\ subs' = [subs EXCEPT ![p] = Closed]
    /\ sure' = sure \ {p}
    /\ UNCHANGED <<version, told, run, wire, fails>>

\* The page reads the app.
Reload(p) ==
    /\ page[p].wants
    /\ Go(p, [page[p] EXCEPT !.wants = FALSE, !.shows = version])
    /\ sure' = IF subs[p].open /\ run[On[p]] = "listening" THEN sure \cup {p} ELSE sure
    /\ UNCHANGED <<version, told, run, wire, subs, fails>>

-----------------------------------------------------------------------------

HubInit ==
    /\ version = 0 /\ told = 0
    /\ run = [i \in Instances |-> "waiting"]
    /\ wire = [i \in Instances |-> <<>>]
    /\ subs = [p \in Pages |-> Closed]
    /\ page = [p \in Pages |-> [shows |-> 0, at |-> "out", opened |-> FALSE, wants |-> FALSE]]
    /\ fails = 0
    /\ sure = {}

Step(p) == Subscribe(p) \/ Send(p) \/ Reload(p)

RunStep(i) == Deliver(i) \/ DropAll(i) \/ Listen(i)

HubNext ==
    \/ Change \/ ChangeUntold
    \/ \E i \in Instances : RunStep(i) \/ ListenFails(i)
    \/ \E p \in Pages : Load(p) \/ Open(p) \/ End(p) \/ Step(p)

HubSpec == HubInit /\ [][HubNext]_hubVars

-----------------------------------------------------------------------------
(* Properties                                                              *)

HubTypeOK ==
    /\ version \in 0..MaxVersion /\ told \in 0..version
    /\ run \in [Instances -> {"waiting", "listening", "failed"}]
    /\ wire \in [Instances -> Seq(1..MaxVersion)]
    /\ subs \in [Pages -> Subscribers] /\ \A p \in Pages : Len(subs[p].events) <= Room
    /\ page \in [Pages -> PageStates]
    /\ fails \in 0..MaxFails
    /\ sure \subseteq Pages

\* p is to have what was published last: it's to read the app, or an event is
\* on its way to it, or its stream is to be opened again.
IsToSee(p) ==
    \/ page[p].shows >= told
    \/ page[p].wants \/ subs[p].events # <<>> \/ wire[On[p]] # <<>>
    \/ page[p].opened /\ (page[p].at = "out" \/ ~subs[p].open)

\* What was published is never missed in silence by a page that has read the
\* app since it follows, on an instance that listens: it reads it again, or an
\* event is on its way, or its stream ends, which has it read it again
\* (deliver, Run, Subscribe).
MissesNothing ==
    \A p \in sure : run[On[p]] = "listening" => IsToSee(p)
=============================================================================
