------------------------------ MODULE MCShared ------------------------------
(* What the instances of an app share on small instances: Lock, Throttle,   *)
(* Hub, Listening, Presence and Migrate. They have no state in common but   *)
(* the clock, so a behavior is of one of them.                              *)
EXTENDS Lock, Throttle, Hub, Listening, MCPresence, MCMigrate

VARIABLE part

\* Bound: where the clock stops in each part that has one.
PartTime == [lock |-> 5, throttle |-> MaxTime, listening |-> 4, presence |-> 4]

\* The pages' streams are on one instance.
OnOne == [p \in Pages |-> CHOOSE i \in Instances : TRUE]

lockState == <<lockRow, lock>>
throttleState == <<tries, login, hits, lets>>
listeningState == <<table, listen, listens, polled, heard, due, missedAt>>
presenceState ==
    <<store, until, conn, kept, failing, faults, news, shown, untold, lapsed, crossed>>

SharedInit ==
    /\ LockInit /\ ThrottleInit /\ HubInit /\ ListeningInit /\ PresenceInit /\ MigrateInit
    /\ part \in DOMAIN PartTime \cup {"hub", "migrate"}
    /\ store # "table" => part = "presence"
    /\ db # "mysql" => part = "migrate"

ByTime == clock' <= PartTime[part]

SharedNext ==
    /\ UNCHANGED part
    /\ \/ /\ part = "lock" /\ LockNext /\ ByTime
          /\ UNCHANGED <<throttleState, hubVars, listeningState, presenceState, migrateVars>>
       \/ /\ part = "throttle" /\ ThrottleNext /\ ByTime
          /\ UNCHANGED <<lockState, hubVars, listeningState, presenceState, migrateVars>>
       \/ /\ part = "listening" /\ ListeningNext /\ ByTime
          /\ UNCHANGED <<lockState, throttleState, hubVars, presenceState, migrateVars>>
       \/ /\ part = "presence" /\ PresenceNext /\ ByTime
          /\ UNCHANGED <<lockState, throttleState, hubVars, listeningState, migrateVars>>
       \/ /\ part = "hub" /\ HubNext
          /\ UNCHANGED <<clock, lockState, throttleState, listeningState, presenceState,
                       migrateVars>>
       \/ /\ part = "migrate" /\ MigrateNext
          /\ UNCHANGED <<clock, lockState, throttleState, hubVars, listeningState,
                         presenceState>>

SharedSpec ==
    SharedInit /\ [][SharedNext]_<<part, clock, lockState, throttleState, hubVars,
                                   listeningState, presenceState, migrateVars>>

\* Each part's types.
SharedTypesOK ==
    /\ part = "lock" => LockTypeOK
    /\ part = "throttle" => ThrottleTypeOK
    /\ part = "hub" => HubTypeOK
    /\ part = "listening" => ListeningTypeOK
    /\ part = "presence" => PresenceTypeOK
    /\ part = "migrate" => MigrateTypeOK
=============================================================================
