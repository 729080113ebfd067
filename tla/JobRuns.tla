------------------------------ MODULE JobRuns ------------------------------
(***************************************************************************)
(* What a Store promises of the jobs its claims hold (store.go): a job is  *)
(* run by one worker at a time, within the limits of its kind, and ends    *)
(* once, as the worker that runs it says, or one that ran it last; it      *)
(* doesn't run again.  What another says of it changes nothing.            *)
(***************************************************************************)
EXTENDS Integers, FiniteSets

CONSTANTS Workers, Kinds, Keys, OneAtATimeKinds, AtOnce, MaxJobs

VARIABLES
    rows,  \* rows[i]: job i's kind and value, and whether it's kept, failed or gone
    runs   \* who runs what: <<w, i>> while w runs job i

Init == DOMAIN rows = {} /\ runs = {}

Push(i, k, v) ==
    /\ i \notin DOMAIN rows
    /\ rows' = [o \in DOMAIN rows \cup {i} |->
                  IF o = i THEN [st |-> "kept", kind |-> k, value |-> v] ELSE rows[o]]
    /\ UNCHANGED runs

\* Those that run jobs of kind k.
RunsOf(k) == {r \in runs : rows[r[2]].kind = k}

\* A worker that runs nothing begins a job that no other runs.
Begin(w, i) ==
    LET k == rows[i].kind
    IN /\ rows[i].st = "kept"
       /\ \A r \in runs : r[1] # w /\ r[2] # i
       /\ AtOnce[k] # 0 => Cardinality(RunsOf(k)) < AtOnce[k]
       /\ k \in OneAtATimeKinds => \A r \in RunsOf(k) : rows[r[2]].value # rows[i].value
       /\ runs' = runs \cup {<<w, i>>}
       /\ UNCHANGED rows

\* Workers die, their holds run out, or they put their jobs back to run again.
LetGo == runs' \in SUBSET runs /\ UNCHANGED rows

\* Job i ends, done or failed for good, with the run of it, if one had it still.
End(i, st) ==
    /\ rows[i].st = "kept"
    /\ rows' = [rows EXCEPT ![i].st = st]
    /\ runs' = {r \in runs : r[2] # i}

Next ==
    \/ \E i \in 1..MaxJobs, k \in Kinds, v \in Keys : Push(i, k, v)
    \/ \E i \in DOMAIN rows : \/ \E w \in Workers : Begin(w, i)
                              \/ \E st \in {"failed", "gone"} : End(i, st)
    \/ LetGo

Spec == Init /\ [][Next]_<<rows, runs>>
=============================================================================
