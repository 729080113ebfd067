----------------------------- MODULE Listening -----------------------------
(***************************************************************************)
(* How an instance listens in MySQL: it polls the broadcasts table for the *)
(* rows above the last it's done with.  An ID is handed out as a row is    *)
(* written, and the row is there as its transaction commits, so IDs come   *)
(* in another order than they were handed out, or never.                   *)
(***************************************************************************)
EXTENDS Clock

CONSTANTS
    MaxId,         \* bound: the IDs handed out
    GapWait,       \* how long a missing ID is waited for, in ticks
    Kept,          \* how old a row is when it's pruned
    MaxListens     \* bound: how often Listen is called

ASSUME ListeningAssumption ==
    /\ MaxId \in Nat /\ MaxListens \in Nat
    /\ GapWait \in Nat \ {0} /\ Kept \in Nat /\ Kept > GapWait

VARIABLES
    table,         \* table[id]: what came of the row of an ID
    listen,        \* what Listen keeps
    listens,       \* how often Listen was called
    polled,        \* whether a poll has ended since the clock moved
    heard,         \* history: heard[id], how often id's event was handed on
    due,           \* history: the IDs above last as they committed, by when
    missedAt       \* history: missedAt[id], when id was first missed, or -1

listeningVars == <<clock, table, listen, listens, polled, heard, due, missedAt>>

-----------------------------------------------------------------------------
(* The table                                                               *)

Ids == 1..MaxId

\* A row is of no ID yet, of a transaction that's open, there, or gone: its
\* transaction rolled back, the server left its ID out, or it's pruned.
Rows == [is : {"none", "open", "there", "gone"}, created : 0..MaxTime]

NoneYet == [is |-> "none", created |-> 0]

Gone == [is |-> "gone", created |-> 0]

There(ids) == {id \in ids : table[id].is = "there"}

\* Publish, in a transaction or on its own, or an ID the server leaves out.
Publish(id, is) ==
    /\ table[id].is = "none" /\ \A k \in 1..(id - 1) : table[k].is # "none"
    /\ table' = [table EXCEPT ![id] =
                  IF is = "gone" THEN Gone ELSE [is |-> is, created |-> clock]]
    /\ due' = IF is = "there" THEN due \cup {id} ELSE due
    /\ UNCHANGED <<clock, listen, listens, polled, heard, missedAt>>

\* A commit of id is in time: its ID hasn't been missed for gapWait, nor is its
\* row so old that it may be pruned before a poll.
InTime(id) ==
    /\ missedAt[id] < 0 \/ clock - missedAt[id] < GapWait
    /\ clock - table[id].created < Kept - 1

\* The transaction commits, in time or late, or rolls back.
Commit(id) ==
    /\ table[id].is = "open"
    /\ table' = [table EXCEPT ![id].is = "there"]
    /\ due' = IF InTime(id) THEN due \cup {id} ELSE due
    /\ UNCHANGED <<clock, listen, listens, polled, heard, missedAt>>

RollBack(id) ==
    /\ table[id].is = "open"
    /\ table' = [table EXCEPT ![id] = Gone]
    /\ UNCHANGED <<clock, listen, listens, polled, heard, due, missedAt>>

\* The job of every minute deletes what has been there that long.
PruneEvents ==
    /\ \E id \in There(Ids) : clock - table[id].created >= Kept
    /\ table' = [id \in Ids |->
                    IF table[id].is = "there" /\ clock - table[id].created >= Kept
                    THEN Gone ELSE table[id]]
    /\ UNCHANGED <<clock, listen, listens, polled, heard, due, missedAt>>

-----------------------------------------------------------------------------
(* Listen                                                                  *)

\* Every event to last has been handed on, or passed over; seen are the IDs
\* above it handed on, missing[id] is when id was first missed, or -1.
Listens == [at : {"off", "polls", "read"}, start : 0..MaxId, last : 0..MaxId,
            highest : 0..MaxId, seen : SUBSET Ids, missing : [Ids -> -1..MaxTime]]

NotMissing == [id \in Ids |-> -1]

HighestOf(ids, least) ==
    IF ids = {} THEN least
    ELSE LET m == CHOOSE id \in ids : \A k \in ids : k <= id IN IF m > least THEN m ELSE least

\* Listen begins at the highest ID that's there. What was due to an earlier
\* Listen is its subscribers', which are closed, and so is what was missed.
Begin ==
    /\ listen.at = "off" /\ listens < MaxListens
    /\ LET from == HighestOf(There(Ids), 0)
       IN  listen' = [at |-> "polls", start |-> from, last |-> from, highest |-> from,
                      seen |-> {}, missing |-> NotMissing]
    /\ listens' = listens + 1
    /\ polled' = TRUE
    /\ due' = {} /\ missedAt' = NotMissing
    /\ UNCHANGED <<clock, table, heard>>

\* mutant: what was handed on isn't told from what wasn't.
PollAnew ==
    /\ listen.at = "polls"
    /\ LET read == There({id \in Ids : id > listen.last})
       IN  /\ heard' = [id \in Ids |-> heard[id] + (IF id \in read THEN 1 ELSE 0)]
           /\ listen' = [listen EXCEPT
                 !.at = "read", !.highest = HighestOf(read, listen.highest),
                 !.seen = @ \cup read,
                 !.missing = [id \in Ids |-> IF id \in read THEN -1 ELSE @[id]]]
    /\ UNCHANGED <<clock, table, listens, polled, due, missedAt>>

\* A poll reads the rows above last, and hands on those it hasn't seen,
Poll ==
    /\ listen.at = "polls"
    /\ LET read == There({id \in Ids : id > listen.last})
           new == read \ listen.seen
       IN  /\ heard' = [id \in Ids |-> heard[id] + (IF id \in new THEN 1 ELSE 0)]
           /\ listen' = [listen EXCEPT
                 !.at = "read", !.highest = HighestOf(read, listen.highest),
                 !.seen = @ \cup new,
                 !.missing = [id \in Ids |-> IF id \in new THEN -1 ELSE @[id]]]
    /\ UNCHANGED <<clock, table, listens, polled, due, missedAt>>

\* The IDs to highest that are missed as the clock is now.
Missing ==
    [id \in Ids |->
        IF id > listen.last /\ id < listen.highest /\ listen.missing[id] < 0
           /\ id \notin listen.seen
        THEN clock ELSE listen.missing[id]]

\* The ID that last stays below, of those still waited for.
Waited(missing) ==
    {id \in Ids : /\ id > listen.last /\ id <= listen.highest
                  /\ missing[id] >= 0 /\ clock - missing[id] < GapWait}

\* mutant: last is moved to the highest ID read.
ReachedHighest(missing) == listen.highest

\* The ID last is moved to: past those handed on, and those given up.
Reached(missing) ==
    IF Waited(missing) = {} THEN listen.highest
    ELSE (CHOOSE id \in Waited(missing) : \A k \in Waited(missing) : id <= k) - 1

\* and then looks at what's missing below the highest, and moves last.
PassOver ==
    /\ listen.at = "read"
    /\ LET missing == Missing
           to == Reached(missing)
       IN  /\ listen' = [listen EXCEPT
                 !.at = "polls", !.last = to,
                 !.seen = {id \in @ : id > to},
                 !.missing = [id \in Ids |-> IF id > to THEN missing[id] ELSE -1]]
           /\ missedAt' = [id \in Ids |->
                 IF missedAt[id] < 0 THEN missing[id] ELSE missedAt[id]]
    /\ polled' = TRUE
    /\ UNCHANGED <<clock, table, listens, heard, due>>

\* A query fails, or the context is done.
ListenEnds ==
    /\ listen.at \in {"polls", "read"}
    /\ listen' = [listen EXCEPT !.at = "off"]
    /\ UNCHANGED <<clock, table, listens, polled, heard, due, missedAt>>

\* A poll is over before the clock's next tick: pollEvery is far below gapWait.
ListeningTick ==
    /\ polled \/ listen.at = "off"
    /\ listen.at # "read"
    /\ Tick
    /\ polled' = FALSE
    /\ UNCHANGED <<table, listen, listens, heard, due, missedAt>>

ListeningInit ==
    /\ clock = 0
    /\ table = [id \in Ids |-> NoneYet]
    /\ listen = [at |-> "off", start |-> 0, last |-> 0, highest |-> 0,
                 seen |-> {}, missing |-> NotMissing]
    /\ listens = 0 /\ polled = FALSE
    /\ heard = [id \in Ids |-> 0]
    /\ due = {} /\ missedAt = NotMissing

ListeningNext ==
    \/ \E id \in Ids : \/ \E is \in {"open", "there", "gone"} : Publish(id, is)
                       \/ Commit(id) \/ RollBack(id)
    \/ PruneEvents
    \/ Begin \/ Poll \/ PassOver \/ ListenEnds
    \/ ListeningTick

ListeningSpec == ListeningInit /\ [][ListeningNext]_listeningVars

-----------------------------------------------------------------------------
(* Properties                                                              *)

ListeningTypeOK ==
    /\ clock \in 0..MaxTime
    /\ table \in [Ids -> Rows]
    /\ listen \in Listens
    /\ listens \in 0..MaxListens /\ polled \in BOOLEAN
    /\ heard \in [Ids -> Nat]
    /\ due \subseteq Ids /\ missedAt \in [Ids -> -1..MaxTime]

\* "Each event is handed on once, whatever order its ID comes in", over every
\* poll, and every call of Listen (Listen).
HeardOnce == \A id \in Ids : heard[id] <= 1

\* An event whose row committed before its ID had been missed for gapWait, of
\* an ID above those there as Listen began, is handed on, or a poll will still
\* read it: last doesn't go past it, whatever IDs around it never come, and
\* it's not pruned first (Listen, prune).
NonePassedOver ==
    listen.at # "off" =>
        \A id \in due : id > listen.start =>
            heard[id] = 1 \/ (id > listen.last /\ table[id].is = "there")
=============================================================================
