------------------------------- MODULE MCApp -------------------------------
(* What one process does beside the requests it answers, on small instances: *)
(* Cache's flights, and Serve. A behavior is of one of them.                 *)
EXTENDS Cache, Serve, TLC

VARIABLE part

\* One of the callers is on another instance than the rest.
OnTwo == [c \in Callers |-> IF c = CHOOSE d \in Callers : TRUE
                              THEN CHOOSE i \in Instances : TRUE
                              ELSE CHOOSE i \in Instances : i # CHOOSE j \in Instances : TRUE]

AppInit == CacheInit /\ ServeInit /\ part \in {"remember", "serve"}

AppNext ==
    /\ UNCHANGED part
    /\ \/ part = "remember" /\ CacheNext /\ UNCHANGED serveVars
       \/ part = "serve" /\ ServeNext /\ UNCHANGED cacheVars

\* Each part is as fair as it is alone: nothing the other asks for can be done
\* in the state it began in and stays in.
AppSpec ==
    /\ AppInit /\ [][AppNext]_<<part, cacheVars, serveVars>>
    /\ CacheFairness /\ ServeFairness

\* Each part's types.
AppTypesOK ==
    /\ part = "remember" => CacheTypeOK
    /\ part = "serve" => ServeTypeOK
=============================================================================
