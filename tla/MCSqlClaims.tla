---------------------------- MODULE MCSqlClaims ----------------------------
(* SqlClaims on small instances: functions the .cfg files give its constants. *)
EXTENDS SqlClaims, TLC

\* Two "photo" jobs run at once, though one of a value, and one "report" job.
Limits == [k \in Kinds |-> IF k = "photo" THEN 2 ELSE 1]

\* One job of a kind runs at once, whatever its value.
Ones == [k \in Kinds |-> 1]

\* Claimers are alike.
AnyClaimer == Permutations(Claimers)
=============================================================================
