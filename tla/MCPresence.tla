---------------------------- MODULE MCPresence ----------------------------
(* Presence on small instances: whose connections they are, and on which    *)
(* hubs.                                                                    *)
EXTENDS Presence

\* All connections are of one member, each through a hub of its own, or all
\* but the first through one.
OneMember == [c \in Conns |-> "m"]

FirstConn == CHOOSE c \in Conns : TRUE

HubEach == [c \in Conns |-> IF c = FirstConn THEN "h" ELSE "g"]
=============================================================================
