------------------------------- MODULE Mutex -------------------------------
(***************************************************************************)
(* What a lock promises those who take it: "one holder has it at a time"   *)
(* (docs/cache.md).  It's let go of, or its time is up, before another has *)
(* it.                                                                     *)
(***************************************************************************)
CONSTANT Contenders

VARIABLE holders

Init == holders = {}

Take(l) == holders = {} /\ holders' = {l}

LetGo == holders # {} /\ holders' = {}

Next == LetGo \/ \E l \in Contenders : Take(l)

Spec == Init /\ [][Next]_holders
=============================================================================
