----------------------------- MODULE MCSession -----------------------------
(* Session on small instances: the sets its .cfg files give its constants.  *)
EXTENDS Session, TLC

\* IDs are alike, and so are requests.
Alike == Permutations(Ids) \cup Permutations(Requests)

\* One of the requests only passes.
OnePasses == {{r} : r \in Requests}

\* One user, whose requests write one at a time.
InTurn == INSTANCE Session WITH Users <- {"u"}

\* Two users, and requests that all write, of an app that has a Keeper.
AtOnce ==
    INSTANCE Session WITH
        Flashes <- {}, Lifetime <- 1, Refresh <- 1, Passing <- {{}}, Kept <- {TRUE},
        MaxFaults <- 0, MaxTime <- 2

BrowserSpec ==
    /\ InTurn!Init \/ AtOnce!Init
    /\ [][\/ passers # {} /\ InTurn!Next
          \/ passers = {} /\ AtOnce!Next]_vars
=============================================================================
