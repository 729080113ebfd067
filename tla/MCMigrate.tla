----------------------------- MODULE MCMigrate -----------------------------
(* Migrate on small instances: the versions of the app its processes are of. *)
EXTENDS Migrate

\* The processes are of a version, the one before a branch with a file older than
\* its last was merged into it, and one with its first file changed since, where
\* the last has no file.
Versions == [p \in Procs |-> CASE p = "new" -> <<1, 1, 1>>
                              [] p = "old" -> <<1, 0, 1>>
                              [] OTHER     -> <<2, 1, 0>>]
=============================================================================
