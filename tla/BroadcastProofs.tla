--------------------------- MODULE BroadcastProofs ---------------------------
(***************************************************************************)
(* What is proved of the broadcast's two ends, Hub and Listening. Of Hub,  *)
(* for any number of pages, instances, events and failures, and any room   *)
(* for events: no page that follows misses what was published in silence.  *)
(* Of Listening, for any number of IDs, times to wait for a missing one,  *)
(* and calls of Listen: an event is handed on once, and none that came in  *)
(* time is passed over.                                                    *)
(***************************************************************************)
EXTENDS Hub, Listening, SequenceTheorems, WellFoundedInduction, TLAPS

-----------------------------------------------------------------------------
(* Hub                                                                     *)

USE HubAssumption

-----------------------------------------------------------------------------
(* The invariant                                                           *)

\* A page's subscriber is open only as its stream is, and a stream that isn't
\* out has been opened.
StreamsInv ==
    \A p \in Pages :
        /\ subs[p].open => page[p].at = "open"
        /\ page[p].at # "out" => page[p].opened

\* A page that's sure has its stream, and no open subscriber once Run has
\* closed those of its instance and waits to listen again.
SureInv ==
    \A p \in sure :
        /\ page[p].at = "open"
        /\ run[On[p]] = "waiting" => ~subs[p].open

HInv == HubTypeOK /\ StreamsInv /\ SureInv /\ MissesNothing

-----------------------------------------------------------------------------
(* The types                                                               *)

\* What the next event leaves of a subscriber, whose room it is within.
LEMMA HandedType ==
    ASSUME NEW s \in Subscribers, NEW e \in 1..MaxVersion, Len(s.events) <= Room
    PROVE  /\ Handed(s, e) \in Subscribers
           /\ Len(Handed(s, e).events) <= Room
           /\ Handed(s, e).open => s.open /\ Handed(s, e).events # <<>>
<1>1. s.events \in Seq(1..MaxVersion) /\ s.open \in BOOLEAN
  BY DEF Subscribers
<1>2. CASE Len(s.events) < Room
  <2>1. Append(s.events, e) \in Seq(1..MaxVersion)
    BY <1>1
  <2>2. Len(Append(s.events, e)) = Len(s.events) + 1 /\ Append(s.events, e) # <<>>
    BY <1>1
  <2>3. Handed(s, e) = [open |-> s.open, events |-> Append(s.events, e)]
    BY <1>2 DEF Handed, Subscribers
  <2>4. Len(s.events) + 1 <= Room
    BY <1>1, <1>2
  <2>. QED
    BY <1>1, <2>1, <2>2, <2>3, <2>4 DEF Subscribers
<1>3. CASE ~(Len(s.events) < Room)
  <2>1. Handed(s, e) = [s EXCEPT !.open = FALSE]
    BY <1>3 DEF Handed, Dropped
  <2>. QED
    BY <1>1, <2>1 DEF Subscribers
<1>. QED
  BY <1>2, <1>3

LEMMA DroppedType ==
    ASSUME NEW s \in Subscribers
    PROVE  /\ Dropped(s) \in Subscribers
           /\ Dropped(s).events = s.events /\ ~Dropped(s).open
BY DEF Subscribers, Dropped

LEMMA HubInitInv ==
    ASSUME HubInit
    PROVE  HInv
<1>1. HubTypeOK
  BY DEF HubInit, HubTypeOK, Subscribers, Closed, PageStates
<1>2. StreamsInv
  BY DEF HubInit, StreamsInv, Closed
<1>. QED
  BY <1>1, <1>2 DEF HubInit, HInv, SureInv, MissesNothing

-----------------------------------------------------------------------------
(* The app changes                                                         *)

\* A change told of is on its way to every page of an instance that listens.
LEMMA ChangeKeeps ==
    ASSUME HInv, Change
    PROVE  HInv'
<1>1. version' = version + 1 /\ told' = version' /\ version' \in 1..MaxVersion
  BY DEF Change, HInv, HubTypeOK
<1>2. UNCHANGED <<run, subs, page, fails, sure>>
  BY DEF Change
<1>3. ASSUME NEW i \in Instances
      PROVE  /\ wire'[i] \in Seq(1..MaxVersion)
             /\ run[i] = "listening" => wire'[i] # <<>>
  <2>1. wire[i] \in Seq(1..MaxVersion)
    BY DEF HInv, HubTypeOK
  <2>2. Append(wire[i], version') \in Seq(1..MaxVersion) /\ Append(wire[i], version') # <<>>
    BY <1>1, <2>1, AppendProperties
  <2>3. wire'[i] = IF run[i] = "listening" THEN Append(wire[i], version') ELSE wire[i]
    BY DEF Change
  <2>. QED
    BY <2>1, <2>2, <2>3
<1>4. wire' \in [Instances -> Seq(1..MaxVersion)]
  BY <1>3 DEF Change
<1>5. HubTypeOK'
  BY <1>1, <1>2, <1>4 DEF HInv, HubTypeOK
<1>6. StreamsInv' /\ SureInv'
  BY <1>2 DEF HInv, StreamsInv, SureInv
<1>7. MissesNothing'
  BY <1>2, <1>3 DEF HInv, HubTypeOK, MissesNothing, IsToSee
<1>. QED
  BY <1>5, <1>6, <1>7 DEF HInv

LEMMA ChangeUntoldKeeps ==
    ASSUME HInv, ChangeUntold
    PROVE  HInv'
<1>1. version' = version + 1 /\ version' \in 1..MaxVersion /\ version' >= told
  BY DEF ChangeUntold, HInv, HubTypeOK
<1>2. UNCHANGED <<told, run, wire, subs, page, fails, sure>>
  BY DEF ChangeUntold
<1>3. HubTypeOK'
  BY <1>1, <1>2 DEF HInv, HubTypeOK
<1>. QED
  BY <1>2, <1>3 DEF HInv, StreamsInv, SureInv, MissesNothing, IsToSee

-----------------------------------------------------------------------------
(* An instance's Run                                                       *)

\* An event comes to a subscriber, or closes it; one that was closed is to have
\* its stream opened again.
LEMMA DeliverKeeps ==
    ASSUME HInv, NEW i \in Instances, Deliver(i)
    PROVE  HInv'
<1>1. run[i] = "listening" /\ wire[i] # <<>> /\ wire[i] \in Seq(1..MaxVersion)
  BY DEF Deliver, HInv, HubTypeOK
<1>2. Head(wire[i]) \in 1..MaxVersion /\ Tail(wire[i]) \in Seq(1..MaxVersion)
  BY <1>1, HeadTailProperties
<1>3. UNCHANGED <<version, told, run, page, fails, sure>>
      /\ wire' = [wire EXCEPT ![i] = Tail(@)]
  BY DEF Deliver
<1>4. subs' = [p \in Pages |->
                 IF p \in Following(i) THEN Handed(subs[p], Head(wire[i])) ELSE subs[p]]
  BY DEF Deliver
<1>5. ASSUME NEW p \in Pages
      PROVE  /\ subs'[p] \in Subscribers /\ Len(subs'[p].events) <= Room
             /\ subs'[p].open => subs[p].open
             /\ On[p] # i => subs'[p] = subs[p]
             /\ On[p] = i => ~subs'[p].open \/ subs'[p].events # <<>>
  <2>1. subs[p] \in Subscribers /\ Len(subs[p].events) <= Room
    BY DEF HInv, HubTypeOK
  <2>2. CASE p \in Following(i)
    BY <1>2, <1>4, <2>1, <2>2, HandedType DEF Following
  <2>3. CASE p \notin Following(i)
    BY <1>4, <2>1, <2>3 DEF Following
  <2>. QED
    BY <2>2, <2>3
<1>6. HubTypeOK'
  <2>1. wire' \in [Instances -> Seq(1..MaxVersion)]
    BY <1>2, <1>3 DEF HInv, HubTypeOK
  <2>2. subs' \in [Pages -> Subscribers] /\ \A p \in Pages : Len(subs'[p].events) <= Room
    BY <1>4, <1>5
  <2>. QED
    BY <1>3, <2>1, <2>2 DEF HInv, HubTypeOK
<1>7. sure \subseteq Pages
  BY DEF HInv, HubTypeOK
<1>8. StreamsInv' /\ SureInv'
  BY <1>3, <1>5, <1>7 DEF HInv, StreamsInv, SureInv
<1>9. MissesNothing'
  <2> SUFFICES ASSUME NEW p \in sure, run[On[p]] = "listening"
               PROVE  IsToSee(p)'
    BY <1>3 DEF MissesNothing
  <2>1. IsToSee(p) /\ p \in Pages /\ page[p].opened
    BY <1>7 DEF HInv, MissesNothing, SureInv, StreamsInv
  <2>2. CASE On[p] = i
    BY <1>3, <1>5, <2>1, <2>2 DEF IsToSee
  <2>3. CASE On[p] # i
    <3>1. subs'[p] = subs[p] /\ wire'[On[p]] = wire[On[p]]
      BY <1>3, <1>5, <2>1, <2>3 DEF HInv, HubTypeOK
    <3>. QED
      BY <1>3, <2>1, <3>1 DEF IsToSee
  <2>. QED
    BY <2>2, <2>3
<1>. QED
  BY <1>6, <1>8, <1>9 DEF HInv

LEMMA ListenFailsKeeps ==
    ASSUME HInv, NEW i \in Instances, ListenFails(i)
    PROVE  HInv'
<1>1. /\ run' = [run EXCEPT ![i] = "failed"] /\ wire' = [wire EXCEPT ![i] = <<>>]
      /\ fails < MaxFails /\ fails' = fails + 1
      /\ UNCHANGED <<version, told, subs, page, sure>>
  BY DEF ListenFails
<1>2. HubTypeOK'
  BY <1>1 DEF HInv, HubTypeOK
<1>3. sure \subseteq Pages /\ On \in [Pages -> Instances]
  BY DEF HInv, HubTypeOK
<1>4. StreamsInv' /\ SureInv'
  BY <1>1, <1>3 DEF HInv, HubTypeOK, StreamsInv, SureInv
<1>5. MissesNothing'
  <2> SUFFICES ASSUME NEW p \in sure, run'[On[p]] = "listening"
               PROVE  IsToSee(p)'
    BY <1>1 DEF MissesNothing
  <2>1. On[p] # i /\ wire'[On[p]] = wire[On[p]] /\ run[On[p]] = "listening"
    BY <1>1, <1>3 DEF HInv, HubTypeOK
  <2>. QED
    BY <1>1, <2>1 DEF HInv, MissesNothing, IsToSee
<1>. QED
  BY <1>2, <1>4, <1>5 DEF HInv

\* From here to Listen, who is sure has no open subscriber.
LEMMA DropAllKeeps ==
    ASSUME HInv, NEW i \in Instances, DropAll(i)
    PROVE  HInv'
<1>1. /\ run[i] = "failed" /\ run' = [run EXCEPT ![i] = "waiting"]
      /\ UNCHANGED <<version, told, wire, page, fails, sure>>
      /\ subs' = [p \in Pages |-> IF p \in Following(i) THEN Dropped(subs[p]) ELSE subs[p]]
  BY DEF DropAll
<1>2. ASSUME NEW p \in Pages
      PROVE  /\ subs'[p] \in Subscribers /\ Len(subs'[p].events) <= Room
             /\ subs'[p].events = subs[p].events
             /\ subs'[p].open => subs[p].open /\ On[p] # i
  BY <1>1, DroppedType DEF HInv, HubTypeOK, Following
<1>3. HubTypeOK'
  <2>1. subs' \in [Pages -> Subscribers] /\ \A p \in Pages : Len(subs'[p].events) <= Room
    BY <1>1, <1>2
  <2>. QED
    BY <1>1, <2>1 DEF HInv, HubTypeOK
<1>4. sure \subseteq Pages /\ On \in [Pages -> Instances]
  BY DEF HInv, HubTypeOK
<1>5. StreamsInv' /\ SureInv'
  BY <1>1, <1>2, <1>4 DEF HInv, HubTypeOK, StreamsInv, SureInv
<1>6. MissesNothing'
  <2> SUFFICES ASSUME NEW p \in sure, run'[On[p]] = "listening"
               PROVE  IsToSee(p)'
    BY <1>1 DEF MissesNothing
  <2>1. run[On[p]] = "listening" /\ p \in Pages
    BY <1>1, <1>4 DEF HInv, HubTypeOK
  <2>2. IsToSee(p)
    BY <2>1 DEF HInv, MissesNothing
  <2>. QED
    BY <1>1, <1>2, <2>1, <2>2 DEF IsToSee
<1>. QED
  BY <1>3, <1>5, <1>6 DEF HInv

LEMMA ListenKeeps ==
    ASSUME HInv, NEW i \in Instances, Listen(i)
    PROVE  HInv'
<1>1. /\ run[i] = "waiting" /\ run' = [run EXCEPT ![i] = "listening"]
      /\ UNCHANGED <<version, told, wire, subs, page, fails, sure>>
  BY DEF Listen
<1>2. HubTypeOK'
  BY <1>1 DEF HInv, HubTypeOK
<1>3. sure \subseteq Pages /\ On \in [Pages -> Instances] /\ DOMAIN run = Instances
  BY DEF HInv, HubTypeOK
<1>4. StreamsInv' /\ SureInv'
  BY <1>1, <1>3 DEF HInv, StreamsInv, SureInv
<1>5. MissesNothing'
  <2> SUFFICES ASSUME NEW p \in sure
               PROVE  run'[On[p]] = "listening" => IsToSee(p)'
    BY <1>1 DEF MissesNothing
  <2>1. CASE On[p] = i
    BY <1>1, <1>3, <2>1 DEF HInv, SureInv, StreamsInv, IsToSee
  <2>2. CASE On[p] # i
    BY <1>1, <1>3, <2>2 DEF HInv, MissesNothing, IsToSee
  <2>. QED
    BY <2>1, <2>2
<1>. QED
  BY <1>2, <1>4, <1>5 DEF HInv

-----------------------------------------------------------------------------
(* A page                                                                  *)

\* A step of one page that leaves it as is: what's left to see to is p's own.
LEMMA PageKeeps ==
    ASSUME HInv, NEW p \in Pages, NEW is \in PageStates, NEW s \in Subscribers,
           Len(s.events) <= Room,
           page' = [page EXCEPT ![p] = is], subs' = [subs EXCEPT ![p] = s],
           UNCHANGED <<version, told, run, wire, fails>>,
           sure' \subseteq sure \cup {p},
           s.open => is.at = "open", is.at # "out" => is.opened,
           p \in sure' => /\ is.at = "open"
                          /\ run[On[p]] = "waiting" => ~s.open
                          /\ run[On[p]] = "listening" => IsToSee(p)'
    PROVE  HInv'
<1>1. sure \subseteq Pages /\ page \in [Pages -> PageStates] /\ subs \in [Pages -> Subscribers]
  BY DEF HInv, HubTypeOK
<1>2. page'[p] = is /\ subs'[p] = s
  BY <1>1
<1>3. ASSUME NEW q \in Pages \ {p} PROVE page'[q] = page[q] /\ subs'[q] = subs[q]
  BY <1>1, <1>3
<1>4. HubTypeOK'
  <2>1. page' \in [Pages -> PageStates] /\ subs' \in [Pages -> Subscribers]
    BY <1>1
  <2>2. \A q \in Pages : Len(subs'[q].events) <= Room
    BY <1>2, <1>3 DEF HInv, HubTypeOK
  <2>. QED
    BY <1>1, <2>1, <2>2 DEF HInv, HubTypeOK
<1>5. StreamsInv'
  BY <1>2, <1>3 DEF HInv, StreamsInv
<1>6. ASSUME NEW q \in sure', q # p PROVE q \in sure /\ q \in Pages
  BY <1>1, <1>6
<1>7. SureInv'
  BY <1>2, <1>3, <1>6 DEF HInv, SureInv
<1>8. MissesNothing'
  <2>1. ASSUME NEW q \in sure', q # p, run[On[q]] = "listening" PROVE IsToSee(q)'
    BY <1>3, <1>6, <2>1 DEF HInv, MissesNothing, IsToSee
  <2>. QED
    BY <2>1 DEF MissesNothing
<1>. QED
  BY <1>4, <1>5, <1>7, <1>8 DEF HInv

\* Load and End take the page from those that are sure.
LEMMA GoneKeeps ==
    ASSUME HInv, NEW p \in Pages, Load(p) \/ End(p)
    PROVE  HInv'
<1>1. page[p] \in PageStates /\ version \in 0..MaxVersion
  BY DEF HInv, HubTypeOK
<1>2. PICK is \in PageStates : is.at = "out" /\ page' = [page EXCEPT ![p] = is]
  <2>1. CASE Load(p)
    BY <1>1, <2>1 DEF Load, Go, PageStates
  <2>2. CASE End(p)
    BY <1>1, <2>2 DEF End, Go, PageStates
  <2>. QED
    BY <2>1, <2>2
<1>3. subs' = [subs EXCEPT ![p] = Closed] /\ sure' = sure \ {p}
      /\ UNCHANGED <<version, told, run, wire, fails>>
  BY DEF Load, End
<1>4. Closed \in Subscribers /\ Len(Closed.events) <= Room /\ ~Closed.open
  BY DEF Closed, Subscribers
<1>5. sure' \subseteq sure \cup {p} /\ p \notin sure'
  BY <1>3
<1>. HIDE DEF Closed
<1>. QED
  BY <1>2, <1>3, <1>4, <1>5, PageKeeps

\* A stream opens, and its handler subscribes: the page isn't sure before it
\* has read the app.
LEMMA OpensKeeps ==
    ASSUME HInv, NEW p \in Pages, Open(p) \/ Subscribe(p)
    PROVE  HInv'
<1>1. page[p] \in PageStates /\ subs[p] \in Subscribers /\ Len(subs[p].events) <= Room
  BY DEF HInv, HubTypeOK
<1>2. subs \in [Pages -> Subscribers]
  BY DEF HInv, HubTypeOK
<1>3. page[p].at # "open" /\ p \notin sure /\ ~subs[p].open
  BY DEF Open, Subscribe, HInv, SureInv, StreamsInv
<1>4. CASE Open(p)
  <2>. DEFINE new == [page[p] EXCEPT !.at = "opening", !.opened = TRUE,
                                     !.wants = page[p].wants \/ page[p].opened]
  <2>0. page' = [page EXCEPT ![p] = new]
    BY <1>4 DEF Open, Go
  <2>4. new \in PageStates /\ new.at = "opening" /\ new.opened
    BY <1>1 DEF PageStates
  <2>. HIDE DEF new
  <2>1. PICK is \in PageStates : is.at = "opening" /\ is.opened /\ page' = [page EXCEPT ![p] = is]
    BY <2>0, <2>4
  <2>2. subs' = [subs EXCEPT ![p] = subs[p]]
    BY <1>2, <1>4 DEF Open
  <2>3. sure' = sure /\ UNCHANGED <<version, told, run, wire, fails>>
    BY <1>4 DEF Open
  <2>. QED
    BY <1>1, <1>3, <2>1, <2>2, <2>3, PageKeeps
<1>5. CASE Subscribe(p)
  <2>. DEFINE s == [open |-> TRUE, events |-> <<>>]
              is == [page[p] EXCEPT !.at = "open"]
  <2>1. is \in PageStates /\ is.at = "open" /\ is.opened
    BY <1>1, <1>5 DEF Subscribe, HInv, StreamsInv, PageStates
  <2>2. s \in Subscribers /\ Len(s.events) <= Room
    BY DEF Subscribers
  <2>3. page' = [page EXCEPT ![p] = is] /\ subs' = [subs EXCEPT ![p] = s]
        /\ sure' = sure /\ UNCHANGED <<version, told, run, wire, fails>>
    BY <1>5 DEF Subscribe, Go
  <2>4. sure' \subseteq sure \cup {p} /\ p \notin sure'
    BY <1>3, <2>3
  <2>. HIDE DEF s, is
  <2>. QED
    BY <2>4, <1>3, <2>1, <2>2, <2>3, PageKeeps
<1>. QED
  BY <1>4, <1>5

\* An event that's sent has the page read the app.
LEMMA SendKeeps ==
    ASSUME HInv, NEW p \in Pages, Send(p)
    PROVE  HInv'
<1>. DEFINE s == [subs[p] EXCEPT !.events = Tail(@)]
            is == [page[p] EXCEPT !.wants = TRUE]
<1>1. page[p] \in PageStates /\ subs[p] \in Subscribers /\ Len(subs[p].events) <= Room
      /\ page \in [Pages -> PageStates]
  BY DEF HInv, HubTypeOK
<1>2. page[p].at = "open" /\ page[p].opened /\ subs[p].events # <<>>
  BY DEF Send, HInv, StreamsInv
<1>3. subs[p].events \in Seq(1..MaxVersion) /\ subs[p].open \in BOOLEAN
  BY <1>1 DEF Subscribers
<1>4. Tail(subs[p].events) \in Seq(1..MaxVersion) /\ Len(Tail(subs[p].events)) <= Room
  <2>1. Tail(subs[p].events) \in Seq(1..MaxVersion)
        /\ Len(Tail(subs[p].events)) = Len(subs[p].events) - 1
    BY <1>2, <1>3, HeadTailProperties
  <2>2. Len(subs[p].events) \in Nat
    BY <1>3, LenProperties
  <2>. QED
    BY <1>1, <2>1, <2>2
<1>5. s \in Subscribers /\ Len(s.events) <= Room /\ s.open = subs[p].open
  BY <1>1, <1>3, <1>4 DEF Subscribers
<1>6. is \in PageStates /\ is.at = "open" /\ is.opened /\ is.wants
  BY <1>1, <1>2 DEF PageStates
<1>7. page' = [page EXCEPT ![p] = is] /\ subs' = [subs EXCEPT ![p] = s]
      /\ sure' = sure /\ UNCHANGED <<version, told, run, wire, fails>>
  BY DEF Send, Go
<1>8. p \in sure => (run[On[p]] = "waiting" => ~s.open)
  BY <1>5 DEF HInv, SureInv
<1>. HIDE DEF s, is
<1>9. IsToSee(p)'
  BY <1>1, <1>6, <1>7 DEF IsToSee
<1>. QED
  BY <1>5, <1>6, <1>7, <1>8, <1>9, PageKeeps

\* A page that reads the app shows what was published last.
LEMMA ReloadKeeps ==
    ASSUME HInv, NEW p \in Pages, Reload(p)
    PROVE  HInv'
<1>. DEFINE is == [page[p] EXCEPT !.wants = FALSE, !.shows = version]
<1>1. /\ page[p] \in PageStates /\ page \in [Pages -> PageStates]
      /\ subs \in [Pages -> Subscribers] /\ Len(subs[p].events) <= Room
      /\ version \in 0..MaxVersion /\ told \in 0..version
  BY DEF HInv, HubTypeOK
<1>2. is \in PageStates /\ is.at = page[p].at /\ is.opened = page[p].opened /\ is.shows = version
  BY <1>1 DEF PageStates
<1>3. page' = [page EXCEPT ![p] = is] /\ subs' = [subs EXCEPT ![p] = subs[p]]
      /\ UNCHANGED <<version, told, run, wire, fails>>
  BY <1>1 DEF Reload, Go
<1>4. sure' \subseteq sure \cup {p}
      /\ (p \in sure' => p \in sure \/ (subs[p].open /\ run[On[p]] = "listening"))
  BY DEF Reload
<1>5. p \in sure' => page[p].at = "open" /\ (run[On[p]] = "waiting" => ~subs[p].open)
  BY <1>4 DEF HInv, SureInv, StreamsInv
<1>6. (subs[p].open => page[p].at = "open") /\ (page[p].at # "out" => page[p].opened)
  BY DEF HInv, StreamsInv
<1>. HIDE DEF is
<1>7. IsToSee(p)'
  BY <1>1, <1>2, <1>3 DEF IsToSee
<1>. QED
  BY <1>1, <1>2, <1>3, <1>4, <1>5, <1>6, <1>7, PageKeeps

-----------------------------------------------------------------------------

LEMMA HubStepKeeps ==
    ASSUME HInv, [HubNext]_hubVars
    PROVE  HInv'
<1>1. CASE Change \/ ChangeUntold
  BY <1>1, ChangeKeeps, ChangeUntoldKeeps
<1>2. ASSUME NEW i \in Instances, RunStep(i) \/ ListenFails(i) PROVE HInv'
  BY <1>2, DeliverKeeps, DropAllKeeps, ListenKeeps, ListenFailsKeeps DEF RunStep
<1>3. ASSUME NEW p \in Pages, Load(p) \/ Open(p) \/ End(p) \/ Step(p) PROVE HInv'
  BY <1>3, GoneKeeps, OpensKeeps, SendKeeps, ReloadKeeps DEF Step
<1>4. CASE UNCHANGED hubVars
  BY <1>4 DEF hubVars, HInv, HubTypeOK, StreamsInv, SureInv, MissesNothing, IsToSee
<1>. QED
  BY <1>1, <1>2, <1>3, <1>4 DEF HubNext

\* Hub's types hold: no subscriber has more events waiting than there's room.
THEOREM HubTypeCorrect == HubSpec => []HubTypeOK
<1>1. HInv => HubTypeOK
  BY DEF HInv
<1>. QED
  BY <1>1, HubInitInv, HubStepKeeps, PTL DEF HubSpec

\* A page that has read the app since it follows isn't left with what's old,
\* however far behind it is, whatever the Store's listener misses, and whenever
\* its stream is lost (deliver, Run, Subscribe).
THEOREM FollowersMissNothing == HubSpec => []MissesNothing
<1>1. HInv => MissesNothing
  BY DEF HInv
<1>. QED
  BY <1>1, HubInitInv, HubStepKeeps, PTL DEF HubSpec

-----------------------------------------------------------------------------
(* Listening                                                               *)

HIDE HubAssumption
USE ListeningAssumption, ClockAssumption

-----------------------------------------------------------------------------
(* The IDs looked for: the least, and the highest, of some.                *)

LEMMA Least ==
    ASSUME NEW S \in SUBSET Nat, S # {}
    PROVE  \E m \in S : \A k \in S : m <= k
<1>. DEFINE R == {ss \in Nat \X Nat : ss[1] < ss[2]}
<1>1. IsWellFoundedOn(R, Nat)
  BY NatLessThanWellFounded DEF OpToRel
<1>2. PICK m \in S : \A k \in S : ~ (<<k, m>> \in R)
  BY <1>1, WFMin
<1>3. \A k \in S : ~ (k < m)
  BY <1>2
<1>. QED
  BY <1>3

LEMMA Greatest ==
    ASSUME NEW n \in Nat, NEW S \in SUBSET (0..n), S # {}
    PROVE  \E m \in S : \A k \in S : k <= m
<1>. DEFINE T == {n - k : k \in S}
<1>1. T \in SUBSET Nat /\ T # {}
  <2>1. \A k \in S : n - k \in Nat
    OBVIOUS
  <2>2. PICK k \in S : TRUE
    OBVIOUS
  <2>3. n - k \in T
    OBVIOUS
  <2>. QED
    BY <2>1, <2>3
<1>2. PICK t \in T : \A k \in T : t <= k
  BY <1>1, Least
<1>3. PICK m \in S : t = n - m
  OBVIOUS
<1>4. \A k \in S : n - m <= n - k
  BY <1>2, <1>3
<1>. QED
  BY <1>4

LEMMA HighestType ==
    ASSUME NEW ids \in SUBSET Ids, NEW least \in 0..MaxId
    PROVE  /\ HighestOf(ids, least) \in 0..MaxId
           /\ HighestOf(ids, least) >= least
           /\ HighestOf(ids, least) = least \/ HighestOf(ids, least) \in ids
           /\ \A id \in ids : id <= HighestOf(ids, least)
<1>1. CASE ids = {}
  BY <1>1 DEF HighestOf
<1>2. CASE ids # {}
  <2>. DEFINE m == CHOOSE id \in ids : \A k \in ids : k <= id
  <2>1. \E id \in ids : \A k \in ids : k <= id
    <3>1. ids \in SUBSET (0..MaxId)
      BY DEF Ids
    <3>. QED
      BY <1>2, <3>1, Greatest
  <2>2. m \in ids /\ \A k \in ids : k <= m
    BY <2>1
  <2>3. HighestOf(ids, least) = IF m > least THEN m ELSE least
    BY <1>2 DEF HighestOf
  <2>. HIDE DEF m
  <2>4. m \in 1..MaxId /\ ids \subseteq 1..MaxId
    BY <2>2 DEF Ids
  <2>. QED
    BY <2>2, <2>3, <2>4
<1>. QED
  BY <1>1, <1>2

\* What a poll moves last to is below what it waits for, and no less than it was.
LEMMA ReachedType ==
    ASSUME listen \in Listens, listen.last <= listen.highest, NEW missing
    PROVE  /\ Reached(missing) \in 0..MaxId
           /\ listen.last <= Reached(missing) /\ Reached(missing) <= listen.highest
           /\ \A id \in Waited(missing) : id > Reached(missing)
<1>1. listen.last \in 0..MaxId /\ listen.highest \in 0..MaxId
  BY DEF Listens
<1>2. CASE Waited(missing) = {}
  BY <1>1, <1>2 DEF Reached
<1>3. CASE Waited(missing) # {}
  <2>. DEFINE m == CHOOSE id \in Waited(missing) : \A k \in Waited(missing) : id <= k
  <2>1. Waited(missing) \in SUBSET Nat
    BY DEF Waited, Ids
  <2>2. m \in Waited(missing) /\ \A k \in Waited(missing) : m <= k
    BY <1>3, <2>1, Least
  <2>3. Reached(missing) = m - 1
    BY <1>3 DEF Reached
  <2>. HIDE DEF m
  <2>4. m \in Nat /\ m > listen.last /\ m <= listen.highest
    BY <2>1, <2>2 DEF Waited
  <2>. QED
    BY <1>1, <2>1, <2>2, <2>3, <2>4
<1>. QED
  BY <1>2, <1>3

-----------------------------------------------------------------------------
(* The invariant                                                           *)

\* IDs are handed out in order.
TableInv ==
    \A id \in Ids : table[id].is # "none" => \A k \in 1..(id - 1) : table[k].is # "none"

\* An event is handed on at most once, of a row that was there.
HeardInv ==
    \A id \in Ids :
        heard[id] = 0 \/ (heard[id] = 1 /\ table[id].is \in {"there", "gone"})

\* What Listen keeps tells what it has handed on, and what it has missed.
KeptInv ==
    /\ listen.start <= listen.last /\ listen.last <= listen.highest
    /\ listen.highest = 0 \/ table[listen.highest].is # "none"
    /\ listen.highest = listen.start \/ heard[listen.highest] = 1
    /\ \A id \in Ids :
          /\ heard[id] = 1 /\ table[id].is = "there" => id <= listen.last \/ id \in listen.seen
          /\ id \in listen.seen => heard[id] = 1
          /\ listen.missing[id] >= 0 =>
                missedAt[id] = listen.missing[id] /\ table[id].is # "none"
          /\ id > listen.last /\ listen.missing[id] < 0 /\ id \notin listen.seen =>
                missedAt[id] < 0

\* An event that's due and not yet handed on is there for the next poll, which
\* comes before it's pruned; and one last went past without is of a transaction
\* that's open past its time.
DueOf(id) ==
    /\ id > listen.last /\ table[id].is = "there"
    /\ clock - table[id].created < Kept
    /\ polled \/ listen.at = "read" => clock - table[id].created < Kept - 1
    /\ listen.at = "read" /\ listen.missing[id] >= 0 => clock - listen.missing[id] < GapWait

LateOf(id) == missedAt[id] >= 0 /\ clock - missedAt[id] >= GapWait

DueInv ==
    \A id \in Ids : id > listen.start =>
        /\ id \in due /\ heard[id] = 0 => DueOf(id)
        /\ id <= listen.last /\ table[id].is = "open" => LateOf(id)

LInv ==
    /\ ListeningTypeOK /\ TableInv /\ HeardInv
    /\ listen.at # "off" => KeptInv /\ DueInv

LEMMA LInvInit == ListeningInit => LInv
<1> SUFFICES ASSUME ListeningInit PROVE LInv
  OBVIOUS
<1>1. NoneYet \in Rows /\ NotMissing \in [Ids -> -1..MaxTime]
  BY DEF NoneYet, Rows, NotMissing
<1>2. listen \in Listens
  BY <1>1 DEF ListeningInit, Listens
<1>3. ListeningTypeOK
  <2>1. clock = 0 /\ listens = 0 /\ polled = FALSE /\ due = {} /\ missedAt = NotMissing
    BY DEF ListeningInit
  <2>2. table \in [Ids -> Rows] /\ heard \in [Ids -> Nat]
    BY <1>1 DEF ListeningInit
  <2>3. clock \in 0..MaxTime /\ listens \in 0..MaxListens
    BY <2>1
  <2>4. polled \in BOOLEAN /\ due \subseteq Ids
    BY <2>1
  <2>. QED
    BY <1>1, <1>2, <2>1, <2>2, <2>3, <2>4 DEF ListeningTypeOK
<1>4. TableInv /\ HeardInv
  BY DEF ListeningInit, TableInv, HeardInv, NoneYet, Ids
<1>. QED
  BY <1>3, <1>4 DEF LInv, ListeningInit

LEMMA LInvGives == LInv => ListeningTypeOK /\ HeardOnce /\ NonePassedOver
<1> SUFFICES ASSUME LInv PROVE HeardOnce /\ NonePassedOver
  BY DEF LInv
<1>1. HeardOnce
  BY DEF LInv, HeardInv, HeardOnce
<1>2. NonePassedOver
  BY DEF LInv, HeardInv, DueInv, DueOf, NonePassedOver, ListeningTypeOK
<1>. QED
  BY <1>1, <1>2

LEMMA ListeningTypes ==
    ASSUME ListeningTypeOK, NEW id \in Ids
    PROVE  /\ id \in Nat /\ id >= 1 /\ id <= MaxId
           /\ table[id].is \in {"none", "open", "there", "gone"}
           /\ table[id].created \in Nat
           /\ heard[id] \in Nat
           /\ listen.missing[id] \in Int /\ missedAt[id] \in Int
           /\ listen.start \in Nat /\ listen.last \in Nat /\ listen.highest \in Nat
           /\ clock \in Nat
BY DEF ListeningTypeOK, Listens, Rows, Ids

\* An ID that none was handed out as isn't below the highest read.
LEMMA NoneIsAbove ==
    ASSUME LInv, KeptInv, NEW id \in Ids, table[id].is = "none"
    PROVE  id > listen.highest /\ id > listen.last
<1>1. listen.highest \in 0..MaxId /\ listen.last \in 0..MaxId /\ id \in 1..MaxId
  BY DEF LInv, ListeningTypeOK, Listens, Ids
<1>2. CASE listen.highest = 0
  BY <1>1, <1>2 DEF KeptInv
<1>3. CASE listen.highest # 0
  <2>1. listen.highest \in Ids /\ table[listen.highest].is # "none"
    BY <1>1, <1>3 DEF KeptInv, Ids
  <2>2. \A k \in 1..(listen.highest - 1) : table[k].is # "none"
    BY <2>1 DEF LInv, TableInv
  <2>3. ~ (id <= listen.highest)
    BY <1>1, <2>1, <2>2
  <2>. QED
    BY <1>1, <2>3 DEF KeptInv
<1>. QED
  BY <1>2, <1>3

-----------------------------------------------------------------------------
(* The steps of the table                                                  *)

LEMMA PublishKeeps ==
    ASSUME LInv, NEW id \in Ids, NEW is \in {"open", "there", "gone"}, Publish(id, is)
    PROVE  LInv'
<1>1. /\ table[id].is = "none"
      /\ \A k \in 1..(id - 1) : table[k].is # "none"
      /\ UNCHANGED <<clock, listen, listens, polled, heard, missedAt>>
  BY DEF Publish
<1>2. PICK row \in Rows : /\ row.is = is /\ (is # "gone" => row.created = clock)
                          /\ table' = [table EXCEPT ![id] = row]
  <2>1. Gone \in Rows /\ Gone.is = "gone"
    BY DEF Gone, Rows
  <2>2. is # "gone" => [is |-> is, created |-> clock] \in Rows
    BY DEF Rows, LInv, ListeningTypeOK
  <2>. QED
    BY <2>1, <2>2 DEF Publish
<1>3. (due' = due \cup {id} /\ is = "there") \/ due' = due
  BY DEF Publish
<1>4. table'[id] = row /\ \A k \in Ids \ {id} : table'[k] = table[k]
  BY <1>2 DEF LInv, ListeningTypeOK
<1>5. ListeningTypeOK'
  BY <1>1, <1>2, <1>3 DEF LInv, ListeningTypeOK
<1>6. TableInv'
  <2> SUFFICES ASSUME NEW j \in Ids, table'[j].is # "none", NEW k \in 1..(j - 1)
               PROVE  table'[k].is # "none"
    BY DEF TableInv
  <2>1. k \in Ids
    BY DEF Ids
  <2>2. table[j].is # "none" \/ j = id
    BY <1>4
  <2>3. k = id \/ table[k].is # "none"
    BY <1>1, <2>2 DEF LInv, TableInv
  <2>. QED
    BY <1>2, <1>4, <2>1, <2>3
<1>7. heard[id] = 0
  BY <1>1 DEF LInv, HeardInv
<1>8. HeardInv'
  BY <1>1, <1>4, <1>7 DEF LInv, HeardInv
<1>9. ASSUME listen'.at # "off" PROVE KeptInv'
  <2>1. KeptInv
    BY <1>1, <1>9 DEF LInv
  <2>2. listen.highest # id
    BY <1>1, <2>1, NoneIsAbove, ListeningTypes DEF LInv
  <2>3. listen.highest = 0 \/ listen.highest \in Ids
    BY DEF LInv, ListeningTypeOK, Listens, Ids
  <2>. QED
    BY <1>1, <1>2, <1>4, <1>7, <2>1, <2>2, <2>3 DEF KeptInv
<1>10. ASSUME listen'.at # "off" PROVE DueInv'
  <2>1. KeptInv /\ DueInv
    BY <1>1, <1>10 DEF LInv
  <2>2. id > listen.last /\ listen.missing[id] < 0 /\ ~ (id <= listen.last)
    BY <1>1, <2>1, NoneIsAbove, ListeningTypes DEF LInv, KeptInv
  <2> SUFFICES ASSUME NEW j \in Ids, j > listen'.start
               PROVE  /\ j \in due' /\ heard'[j] = 0 => DueOf(j)'
                      /\ j <= listen'.last /\ table'[j].is = "open" => LateOf(j)'
    BY DEF DueInv
  <2>3. CASE j # id
    BY <1>1, <1>3, <1>4, <2>1, <2>3 DEF DueInv, DueOf, LateOf
  <2>4. CASE j = id
    <3>1. j \in due' /\ heard'[j] = 0 => DueOf(j)'
      <4> SUFFICES ASSUME id \in due', heard'[id] = 0 PROVE DueOf(id)'
        BY <2>4
      <4>1. id \notin due
        BY <1>1, <1>7, <2>1, <2>4 DEF DueInv, DueOf
      <4>2. is = "there" /\ table'[id].is = "there" /\ table'[id].created = clock
        BY <1>2, <1>3, <1>4, <4>1
      <4>. QED
        BY <1>1, <2>2, <4>2, ListeningTypes DEF DueOf, LInv
    <3>. QED
      BY <1>1, <2>2, <2>4, <3>1
  <2>. QED
    BY <2>3, <2>4
<1>. QED
  BY <1>5, <1>6, <1>8, <1>9, <1>10 DEF LInv

\* A step of the table that changes one row that was open, and nothing else.
LEMMA ClosedKeeps ==
    ASSUME LInv, NEW id \in Ids, table[id].is = "open", NEW is \in {"there", "gone"},
           NEW row \in Rows, row.is = is, table' = [table EXCEPT ![id] = row],
           is = "there" => row.created = table[id].created,
           \/ due' = due
           \/ is = "there" /\ due' = due \cup {id} /\ InTime(id),
           UNCHANGED <<clock, listen, listens, polled, heard, missedAt>>
    PROVE  LInv'
<1>1. table'[id] = row /\ \A k \in Ids \ {id} : table'[k] = table[k]
  BY DEF LInv, ListeningTypeOK
<1>2. ListeningTypeOK'
  BY DEF LInv, ListeningTypeOK
<1>3. \A k \in Ids : table'[k].is = "none" <=> table[k].is = "none"
  BY <1>1
<1>4. TableInv'
  <2>1. \A k \in Ids : 1..(k - 1) \subseteq Ids
    BY DEF Ids
  <2>. QED
    BY <1>3, <2>1 DEF LInv, TableInv
<1>5. heard[id] = 0
  BY DEF LInv, HeardInv
<1>6. HeardInv'
  BY <1>1, <1>5 DEF LInv, HeardInv
<1>7. ASSUME listen'.at # "off" PROVE KeptInv'
  <2>1. KeptInv
    BY <1>7 DEF LInv
  <2>2. listen.highest = 0 \/ listen.highest \in Ids
    BY DEF LInv, ListeningTypeOK, Listens, Ids
  <2>. QED
    BY <1>1, <1>3, <1>5, <2>1, <2>2 DEF KeptInv
<1>8. ASSUME listen'.at # "off" PROVE DueInv'
  <2>1. KeptInv /\ DueInv
    BY <1>8 DEF LInv
  <2> SUFFICES ASSUME NEW j \in Ids, j > listen'.start
               PROVE  /\ j \in due' /\ heard'[j] = 0 => DueOf(j)'
                      /\ j <= listen'.last /\ table'[j].is = "open" => LateOf(j)'
    BY DEF DueInv
  <2>2. CASE j # id
    BY <1>1, <2>1, <2>2 DEF DueInv, DueOf, LateOf
  <2>3. CASE j = id
    <3>1. id \notin due
      BY <1>5, <2>1, <2>3 DEF DueInv, DueOf
    <3>2. ASSUME id \in due' PROVE DueOf(id)'
      <4>1. is = "there" /\ InTime(id)
        BY <3>1, <3>2
      <4>2. id > listen.last
        <5>1. id <= listen.last => LateOf(id)
          BY <2>1, <2>3 DEF DueInv
        <5>. QED
          BY <4>1, <5>1, ListeningTypes DEF LateOf, InTime, LInv
      <4>3. listen.missing[id] >= 0 => clock - listen.missing[id] < GapWait
        BY <2>1, <4>1, ListeningTypes DEF KeptInv, InTime, LInv
      <4>4. clock - table[id].created < Kept - 1
        BY <4>1 DEF InTime
      <4>. QED
        BY <1>1, <4>1, <4>2, <4>3, <4>4, ListeningTypes DEF DueOf, LInv
    <3>. QED
      BY <1>1, <2>3, <3>2
  <2>. QED
    BY <2>2, <2>3
<1>. QED
  BY <1>2, <1>4, <1>6, <1>7, <1>8 DEF LInv

LEMMA CommitKeeps ==
    ASSUME LInv, NEW id \in Ids, Commit(id) \/ RollBack(id)
    PROVE  LInv'
<1>1. CASE Commit(id)
  <2>. DEFINE row == [table[id] EXCEPT !.is = "there"]
  <2>1. row \in Rows /\ row.is = "there" /\ row.created = table[id].created
    BY DEF LInv, ListeningTypeOK, Rows
  <2>2. table' = [table EXCEPT ![id] = row]
    BY <1>1 DEF Commit
  <2>. QED
    BY <1>1, <2>1, <2>2, ClosedKeeps DEF Commit
<1>2. CASE RollBack(id)
  <2>1. Gone \in Rows /\ Gone.is = "gone"
    BY DEF Gone, Rows
  <2>. QED
    BY <1>2, <2>1, ClosedKeeps DEF RollBack
<1>. QED
  BY <1>1, <1>2

\* What's pruned was handed on, or isn't due.
LEMMA TablePruneKeeps ==
    ASSUME LInv, PruneEvents
    PROVE  LInv'
<1>1. UNCHANGED <<clock, listen, listens, polled, heard, due, missedAt>>
  BY DEF PruneEvents
<1>2. \A id \in Ids :
          \/ table'[id] = table[id]
          \/ table[id].is = "there" /\ clock - table[id].created >= Kept /\ table'[id] = Gone
  BY DEF PruneEvents
<1>3. Gone \in Rows /\ Gone.is = "gone"
  BY DEF Gone, Rows
<1>4. ListeningTypeOK'
  <2>1. table' \in [Ids -> Rows]
    BY <1>2, <1>3 DEF PruneEvents, LInv, ListeningTypeOK
  <2>. QED
    BY <1>1, <2>1 DEF LInv, ListeningTypeOK
<1>5. \A k \in Ids : table'[k].is = "none" <=> table[k].is = "none"
  BY <1>2, <1>3
<1>6. TableInv'
  <2>1. \A k \in Ids : 1..(k - 1) \subseteq Ids
    BY DEF Ids
  <2>. QED
    BY <1>5, <2>1 DEF LInv, TableInv
<1>7. HeardInv'
  BY <1>1, <1>2, <1>3 DEF LInv, HeardInv
<1>8. ASSUME listen'.at # "off" PROVE KeptInv'
  <2>1. KeptInv
    BY <1>1, <1>8 DEF LInv
  <2>2. listen.highest = 0 \/ listen.highest \in Ids
    BY DEF LInv, ListeningTypeOK, Listens, Ids
  <2>. QED
    BY <1>1, <1>2, <1>3, <1>5, <2>1, <2>2 DEF KeptInv
<1>9. ASSUME listen'.at # "off" PROVE DueInv'
  <2>1. DueInv
    BY <1>1, <1>9 DEF LInv
  <2>2. \A id \in Ids : DueOf(id) => table'[id] = table[id]
    BY <1>2, ListeningTypes DEF DueOf, LInv
  <2>3. \A id \in Ids : table'[id].is = "open" => table[id].is = "open"
    BY <1>2, <1>3
  <2>. QED
    BY <1>1, <2>1, <2>2, <2>3 DEF DueInv, DueOf, LateOf
<1>. QED
  BY <1>4, <1>6, <1>7, <1>8, <1>9 DEF LInv

-----------------------------------------------------------------------------
(* The steps of Listen                                                     *)

LEMMA BeginKeeps ==
    ASSUME LInv, Begin
    PROVE  LInv'
<1>. DEFINE from == HighestOf(There(Ids), 0)
<1>1. from \in 0..MaxId /\ (from = 0 \/ from \in There(Ids)) /\ \A id \in There(Ids) : id <= from
  BY HighestType DEF There
<1>2. /\ listen' = [at |-> "polls", start |-> from, last |-> from, highest |-> from,
                    seen |-> {}, missing |-> NotMissing]
      /\ polled' = TRUE /\ due' = {} /\ missedAt' = NotMissing /\ listens' = listens + 1
      /\ listens < MaxListens /\ UNCHANGED <<clock, table, heard>>
  BY DEF Begin
<1>. HIDE DEF from
<1>3. NotMissing \in [Ids -> -1..MaxTime] /\ \A id \in Ids : NotMissing[id] = -1
  BY DEF NotMissing
<1>4. listen' \in Listens
  BY <1>1, <1>2, <1>3 DEF Listens
<1>5. ListeningTypeOK'
  BY <1>2, <1>3, <1>4 DEF LInv, ListeningTypeOK
<1>6. KeptInv'
  <2>1. from # 0 => table[from].is = "there"
    BY <1>1 DEF There
  <2>2. \A id \in Ids : table[id].is = "there" => id <= from
    BY <1>1 DEF There
  <2>. QED
    BY <1>1, <1>2, <1>3, <2>1, <2>2 DEF KeptInv
<1>7. DueInv'
  BY <1>1, <1>2 DEF DueInv, Ids
<1>8. TableInv' /\ HeardInv'
  BY <1>2 DEF LInv, TableInv, HeardInv
<1>. QED
  BY <1>5, <1>6, <1>7, <1>8 DEF LInv

LEMMA PollKeeps ==
    ASSUME LInv, Poll
    PROVE  LInv'
<1>. DEFINE read == There({id \in Ids : id > listen.last})
            new == read \ listen.seen
<1>1. listen.at = "polls" /\ KeptInv /\ DueInv /\ UNCHANGED <<clock, table, listens, polled, due, missedAt>>
  BY DEF Poll, LInv
<1>2. read \in SUBSET Ids /\ \A id \in Ids : id \in read <=> table[id].is = "there" /\ id > listen.last
  BY DEF There
<1>3. heard' = [id \in Ids |-> heard[id] + (IF id \in new THEN 1 ELSE 0)]
  BY DEF Poll
<1>4. listen' = [listen EXCEPT
          !.at = "read", !.highest = HighestOf(read, listen.highest),
          !.seen = @ \cup new,
          !.missing = [id \in Ids |-> IF id \in new THEN -1 ELSE @[id]]]
  BY DEF Poll
<1>5. /\ HighestOf(read, listen.highest) \in 0..MaxId
      /\ HighestOf(read, listen.highest) >= listen.highest
      /\ HighestOf(read, listen.highest) = listen.highest \/ HighestOf(read, listen.highest) \in read
  <2>1. listen.highest \in 0..MaxId
    BY DEF LInv, ListeningTypeOK, Listens
  <2>. QED
    BY <1>2, <2>1, HighestType
<1>. HIDE DEF read
<1>6. \A id \in new : heard[id] = 0
  BY <1>1, <1>2, ListeningTypes DEF LInv, HeardInv, KeptInv
<1>7. \A id \in Ids : heard'[id] = IF id \in new THEN 1 ELSE heard[id]
  BY <1>3, <1>6, ListeningTypes DEF LInv
<1>8. /\ listen'.at = "read" /\ listen'.start = listen.start /\ listen'.last = listen.last
      /\ listen'.highest = HighestOf(read, listen.highest)
      /\ listen'.seen = listen.seen \cup new
      /\ \A id \in Ids : listen'.missing[id] = IF id \in new THEN -1 ELSE listen.missing[id]
  BY <1>4 DEF LInv, ListeningTypeOK, Listens
<1>9. ListeningTypeOK'
  <2>1. listen' \in Listens
    <3>1. listen.seen \cup new \in SUBSET Ids
      BY <1>2 DEF LInv, ListeningTypeOK, Listens
    <3>2. [id \in Ids |-> IF id \in new THEN -1 ELSE listen.missing[id]] \in [Ids -> -1..MaxTime]
      BY DEF LInv, ListeningTypeOK, Listens
    <3>. QED
      BY <1>4, <1>5, <3>1, <3>2 DEF LInv, ListeningTypeOK, Listens
  <2>2. heard' \in [Ids -> Nat]
    BY <1>3 DEF LInv, ListeningTypeOK
  <2>. QED
    BY <1>1, <2>1, <2>2 DEF LInv, ListeningTypeOK
<1>10. HeardInv'
  BY <1>1, <1>2, <1>7 DEF LInv, HeardInv
<1>11. TableInv'
  BY <1>1 DEF LInv, TableInv
<1>12. KeptInv'
  <2>1. /\ listen'.start <= listen'.last /\ listen'.last <= listen'.highest
    BY <1>1, <1>5, <1>8 DEF KeptInv, LInv, ListeningTypeOK, Listens
  <2>2. /\ listen'.highest = 0 \/ table'[listen'.highest].is # "none"
        /\ listen'.highest = listen'.start \/ heard'[listen'.highest] = 1
    <3>1. CASE listen'.highest = listen.highest
      <4>1. heard[listen.highest] = 1 /\ listen.highest \in Ids => heard'[listen.highest] = 1
        BY <1>6, <1>7
      <4>2. listen.highest \in Ids \/ listen.highest = 0
        BY DEF LInv, ListeningTypeOK, Listens, Ids
      <4>3. listen.highest = 0 => listen.start = 0
        BY <1>1 DEF KeptInv, LInv, ListeningTypeOK, Listens
      <4>. QED
        BY <1>1, <1>8, <3>1, <4>1, <4>2, <4>3 DEF KeptInv
    <3>2. CASE listen'.highest \in read
      <4>1. heard'[listen'.highest] = 1
        BY <1>1, <1>2, <1>7, <3>2 DEF KeptInv
      <4>2. table[listen'.highest].is = "there"
        BY <1>2, <3>2
      <4>. QED
        BY <1>1, <4>1, <4>2
    <3>. QED
      BY <1>5, <1>8, <3>1, <3>2
  <2>3. ASSUME NEW id \in Ids
        PROVE  /\ heard'[id] = 1 /\ table'[id].is = "there" => id <= listen'.last \/ id \in listen'.seen
               /\ id \in listen'.seen => heard'[id] = 1
               /\ listen'.missing[id] >= 0 =>
                     missedAt'[id] = listen'.missing[id] /\ table'[id].is # "none"
               /\ id > listen'.last /\ listen'.missing[id] < 0 /\ id \notin listen'.seen =>
                     missedAt'[id] < 0
    BY <1>1, <1>2, <1>7, <1>8, ListeningTypes DEF KeptInv, LInv
  <2>. QED
    BY <2>1, <2>2, <2>3 DEF KeptInv
<1>13. DueInv'
  <2> SUFFICES ASSUME NEW j \in Ids, j > listen'.start
               PROVE  /\ j \in due' /\ heard'[j] = 0 => DueOf(j)'
                      /\ j <= listen'.last /\ table'[j].is = "open" => LateOf(j)'
    BY DEF DueInv
  <2>1. j \in due' => heard'[j] # 0
    <3>1. j \in due /\ heard[j] = 0 => j \in read
      BY <1>1, <1>2, <1>8 DEF DueInv, DueOf
    <3>2. heard[j] = 0 => j \notin listen.seen
      BY <1>1 DEF KeptInv
    <3>. QED
      BY <1>1, <1>7, <3>1, <3>2
  <2>. QED
    BY <1>1, <1>8, <2>1 DEF DueInv, LateOf
<1>. QED
  BY <1>9, <1>10, <1>11, <1>12, <1>13 DEF LInv

\* last moves past no event that's due, and past no transaction that's in time.
LEMMA PassOverKeeps ==
    ASSUME LInv, PassOver
    PROVE  LInv'
<1>. DEFINE missing == Missing
            to == Reached(missing)
<1>1. /\ listen.at = "read" /\ KeptInv /\ DueInv
      /\ polled' = TRUE /\ UNCHANGED <<clock, table, listens, heard, due>>
  BY DEF PassOver, LInv
<1>2. /\ listen' = [listen EXCEPT
            !.at = "polls", !.last = to,
            !.seen = {id \in @ : id > to},
            !.missing = [id \in Ids |-> IF id > to THEN missing[id] ELSE -1]]
      /\ missedAt' = [id \in Ids |-> IF missedAt[id] < 0 THEN missing[id] ELSE missedAt[id]]
  BY DEF PassOver
<1>3. /\ to \in 0..MaxId /\ listen.last <= to /\ to <= listen.highest
      /\ \A id \in Waited(missing) : id > to
  BY <1>1, ReachedType DEF KeptInv, LInv, ListeningTypeOK
<1>4. \A id \in Ids : missing[id] =
          IF id > listen.last /\ id < listen.highest /\ listen.missing[id] < 0 /\ id \notin listen.seen
          THEN clock ELSE listen.missing[id]
  BY DEF Missing
<1>5. \A id \in Waited(missing) : id \in Ids
  BY DEF Waited
<1>6. \A id \in Ids : id \in Waited(missing) <=>
          id > listen.last /\ id <= listen.highest /\ missing[id] >= 0 /\ clock - missing[id] < GapWait
  BY DEF Waited
<1>. HIDE DEF missing, to
<1>7. \A id \in Ids : missing[id] \in -1..MaxTime
  BY <1>4 DEF LInv, ListeningTypeOK, Listens
<1>8. /\ listen'.at = "polls" /\ listen'.start = listen.start /\ listen'.last = to
      /\ listen'.highest = listen.highest
      /\ listen'.seen = {id \in listen.seen : id > to}
      /\ \A id \in Ids : listen'.missing[id] = IF id > to THEN missing[id] ELSE -1
      /\ \A id \in Ids : missedAt'[id] = IF missedAt[id] < 0 THEN missing[id] ELSE missedAt[id]
  BY <1>2 DEF LInv, ListeningTypeOK, Listens
<1>9. ListeningTypeOK'
  <2>1. listen' \in Listens
    <3>1. [id \in Ids |-> IF id > to THEN missing[id] ELSE -1] \in [Ids -> -1..MaxTime]
      BY <1>7
    <3>. QED
      BY <1>2, <1>3, <3>1 DEF LInv, ListeningTypeOK, Listens
  <2>2. missedAt' \in [Ids -> -1..MaxTime]
    BY <1>2, <1>7 DEF LInv, ListeningTypeOK
  <2>. QED
    BY <1>1, <2>1, <2>2 DEF LInv, ListeningTypeOK
<1>10. TableInv' /\ HeardInv'
  BY <1>1 DEF LInv, TableInv, HeardInv
\* What's missed now is of an ID below the highest, which was handed out.
<1>11. ASSUME NEW id \in Ids, missing[id] >= 0
       PROVE  table[id].is # "none" /\ missedAt'[id] = missing[id]
  <2>1. CASE listen.missing[id] >= 0
    BY <1>1, <1>4, <1>8, <1>11, <2>1 DEF KeptInv
  <2>2. CASE ~ (listen.missing[id] >= 0)
    <3>1. id > listen.last /\ id < listen.highest /\ id \notin listen.seen
      BY <1>4, <1>11, <2>2
    <3>2. missedAt[id] < 0
      BY <1>1, <2>2, <3>1, ListeningTypes DEF KeptInv, LInv
    <3>3. table[id].is # "none"
      BY <1>1, <3>1, NoneIsAbove, ListeningTypes DEF LInv
    <3>. QED
      BY <1>8, <3>2, <3>3
  <2>. QED
    BY <2>1, <2>2
<1>12. KeptInv'
  <2>1. /\ listen'.start <= listen'.last /\ listen'.last <= listen'.highest
        /\ listen'.highest = 0 \/ table'[listen'.highest].is # "none"
        /\ listen'.highest = listen'.start \/ heard'[listen'.highest] = 1
    BY <1>1, <1>3, <1>8 DEF KeptInv, LInv, ListeningTypeOK, Listens
  <2>2. ASSUME NEW id \in Ids
        PROVE  /\ heard'[id] = 1 /\ table'[id].is = "there" => id <= listen'.last \/ id \in listen'.seen
               /\ id \in listen'.seen => heard'[id] = 1
    BY <1>1, <1>3, <1>8, ListeningTypes DEF KeptInv, LInv
  <2>3. ASSUME NEW id \in Ids, listen'.missing[id] >= 0
        PROVE  missedAt'[id] = listen'.missing[id] /\ table'[id].is # "none"
    BY <1>1, <1>8, <1>11, <2>3
  <2>4. ASSUME NEW id \in Ids, id > listen'.last, listen'.missing[id] < 0, id \notin listen'.seen
        PROVE  missedAt'[id] < 0
    <3>1. missing[id] < 0 /\ id > to
      BY <1>8, <2>4
    <3>2. listen.missing[id] < 0
      BY <1>4, <1>7, <3>1, ListeningTypes DEF LInv
    <3>3. id \notin listen.seen /\ id > listen.last
      BY <1>3, <1>8, <2>4, <3>1, ListeningTypes DEF LInv
    <3>4. missedAt[id] < 0
      BY <1>1, <3>2, <3>3 DEF KeptInv
    <3>. QED
      BY <1>8, <3>1, <3>4
  <2>. QED
    BY <2>1, <2>2, <2>3, <2>4 DEF KeptInv
\* What last moves past, and wasn't handed on, was missed too long.
<1>13. ASSUME NEW id \in Ids, id > listen.start, heard[id] = 0, id > listen.last, id <= to
       PROVE  missing[id] >= 0 /\ clock - missing[id] >= GapWait
  <2>1. id # listen.highest
    BY <1>1, <1>13, ListeningTypes DEF KeptInv, LInv
  <2>2. id < listen.highest
    BY <1>3, <1>13, <2>1, ListeningTypes DEF LInv
  <2>3. id \notin listen.seen
    BY <1>1, <1>13 DEF KeptInv
  <2>4. missing[id] >= 0
    BY <1>4, <1>13, <2>2, <2>3, ListeningTypes DEF LInv
  <2>5. id \notin Waited(missing)
    BY <1>3, <1>13, ListeningTypes DEF LInv
  <2>. QED
    BY <1>6, <1>7, <1>13, <2>2, <2>4, <2>5, ListeningTypes DEF LInv
<1>14. DueInv'
  <2> SUFFICES ASSUME NEW j \in Ids, j > listen'.start
               PROVE  /\ j \in due' /\ heard'[j] = 0 => DueOf(j)'
                      /\ j <= listen'.last /\ table'[j].is = "open" => LateOf(j)'
    BY DEF DueInv
  <2>1. j > listen.start
    BY <1>8
  <2>2. ASSUME j \in due', heard'[j] = 0 PROVE DueOf(j)'
    <3>1. DueOf(j) /\ heard[j] = 0
      BY <1>1, <2>1, <2>2 DEF DueInv
    <3>2. j > to
      <4>1. missing[j] >= 0 => clock - missing[j] < GapWait
        BY <1>1, <1>4, <3>1, ListeningTypes DEF DueOf, LInv
      <4>. QED
        BY <1>3, <1>7, <1>13, <2>1, <3>1, <4>1, ListeningTypes DEF DueOf, LInv
    <3>. QED
      BY <1>1, <1>8, <3>1, <3>2 DEF DueOf
  <2>3. ASSUME j <= listen'.last, table'[j].is = "open" PROVE LateOf(j)'
    <3>1. table[j].is = "open" /\ heard[j] = 0
      BY <1>1, <2>3 DEF LInv, HeardInv
    <3>2. CASE j <= listen.last
      <4>1. LateOf(j)
        BY <1>1, <2>1, <3>1, <3>2 DEF DueInv
      <4>. QED
        BY <1>1, <1>8, <4>1, ListeningTypes DEF LateOf, LInv
    <3>3. CASE ~ (j <= listen.last)
      <4>1. missing[j] >= 0 /\ clock - missing[j] >= GapWait
        BY <1>8, <1>13, <2>1, <2>3, <3>1, <3>3, ListeningTypes DEF LInv
      <4>. QED
        BY <1>1, <1>11, <4>1 DEF LateOf
    <3>. QED
      BY <3>2, <3>3
  <2>. QED
    BY <2>2, <2>3
<1>. QED
  BY <1>9, <1>10, <1>12, <1>14 DEF LInv

LEMMA EndsKeeps ==
    ASSUME LInv, ListenEnds \/ UNCHANGED listeningVars
    PROVE  LInv'
<1>1. CASE ListenEnds
  <2>1. listen' \in Listens /\ listen'.at = "off"
    BY <1>1 DEF ListenEnds, LInv, ListeningTypeOK, Listens
  <2>2. ListeningTypeOK'
    BY <1>1, <2>1 DEF ListenEnds, LInv, ListeningTypeOK
  <2>3. TableInv' /\ HeardInv'
    BY <1>1 DEF ListenEnds, LInv, TableInv, HeardInv
  <2>. QED
    BY <2>1, <2>2, <2>3 DEF LInv
<1>2. CASE UNCHANGED listeningVars
  BY <1>2 DEF listeningVars, LInv, ListeningTypeOK, TableInv, HeardInv, KeptInv, DueInv, DueOf, LateOf
<1>. QED
  BY <1>1, <1>2

\* A tick comes after a poll, so an event that's due is at most a tick older
\* than as it committed.
LEMMA TickKeeps ==
    ASSUME LInv, ListeningTick
    PROVE  LInv'
<1>1. /\ polled \/ listen.at = "off"
      /\ listen.at # "read" /\ clock < MaxTime /\ clock' = clock + 1 /\ polled' = FALSE
      /\ UNCHANGED <<table, listen, listens, heard, due, missedAt>>
  BY DEF ListeningTick, Tick
<1>2. ListeningTypeOK'
  <2>1. clock \in 0..MaxTime /\ polled' \in BOOLEAN
    BY <1>1 DEF LInv, ListeningTypeOK
  <2>2. clock' \in 0..MaxTime
    BY <1>1, <2>1, ListeningTypes
  <2>. QED
    BY <1>1, <2>1, <2>2 DEF LInv, ListeningTypeOK
<1>3. TableInv' /\ HeardInv'
  BY <1>1 DEF LInv, TableInv, HeardInv
<1>4. ASSUME listen'.at # "off" PROVE KeptInv'
  BY <1>1, <1>4 DEF LInv, KeptInv
<1>5. ASSUME listen'.at # "off" PROVE DueInv'
  <2>1. DueInv /\ polled
    BY <1>1, <1>5 DEF LInv
  <2>2. ASSUME NEW j \in Ids, DueOf(j) PROVE DueOf(j)'
    BY <1>1, <2>1, <2>2, ListeningTypes DEF DueOf, LInv
  <2>3. ASSUME NEW j \in Ids, LateOf(j) PROVE LateOf(j)'
    BY <1>1, <2>3, ListeningTypes DEF LateOf, LInv
  <2>. QED
    BY <1>1, <2>1, <2>2, <2>3 DEF DueInv
<1>. QED
  BY <1>2, <1>3, <1>4, <1>5 DEF LInv

-----------------------------------------------------------------------------

LEMMA ListeningStepKeeps == LInv /\ [ListeningNext]_listeningVars => LInv'
<1> SUFFICES ASSUME LInv, [ListeningNext]_listeningVars PROVE LInv'
  OBVIOUS
<1>1. ASSUME NEW id \in Ids, NEW is \in {"open", "there", "gone"}, Publish(id, is) PROVE LInv'
  BY <1>1, PublishKeeps
<1>2. ASSUME NEW id \in Ids, Commit(id) \/ RollBack(id) PROVE LInv'
  BY <1>2, CommitKeeps
<1>3. CASE PruneEvents
  BY <1>3, TablePruneKeeps
<1>4. CASE Begin \/ Poll \/ PassOver \/ ListenEnds
  BY <1>4, BeginKeeps, PollKeeps, PassOverKeeps, EndsKeeps
<1>5. CASE ListeningTick \/ UNCHANGED listeningVars
  BY <1>5, TickKeeps, EndsKeeps
<1>. QED
  BY <1>1, <1>2, <1>3, <1>4, <1>5 DEF ListeningNext

\* Listening's types hold.
THEOREM ListeningTypeCorrect == ListeningSpec => []ListeningTypeOK
BY LInvInit, LInvGives, ListeningStepKeeps, PTL DEF ListeningSpec

\* "Each event is handed on once, whatever order its ID comes in" (Listen), over
\* every poll and every call of Listen.
THEOREM Once == ListeningSpec => []HeardOnce
BY LInvInit, LInvGives, ListeningStepKeeps, PTL DEF ListeningSpec

\* No event that committed in time is passed over, or pruned before it's handed
\* on, whatever IDs around it never come (Listen, prune).
THEOREM NoneLost == ListeningSpec => []NonePassedOver
BY LInvInit, LInvGives, ListeningStepKeeps, PTL DEF ListeningSpec
=============================================================================
