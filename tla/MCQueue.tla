------------------------------ MODULE MCQueue ------------------------------
(* Queue on small instances: functions the .cfg files give its constants.  *)
EXTENDS Queue

\* No kind has a limit.
NoLimit == [k \in Kinds |-> 0]
\* "report" jobs run one at once; the other kinds have no limit.
OneReport == [k \in Kinds |-> IF k = "report" THEN 1 ELSE 0]
\* Every instance has a handler for every kind.
KnowsAll == [i \in Instances |-> Kinds]
\* Instance "b" is from before a deploy that added "mail".
OldB == [i \in Instances |-> IF i = "b" THEN Kinds \ {"mail"} ELSE Kinds]
=============================================================================
