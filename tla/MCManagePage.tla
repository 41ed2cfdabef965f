---------------------------- MODULE MCManagePage ----------------------------
EXTENDS ManagePage, TLC

(* Nothing tells two services, databases, variables or paths apart.        *)
Alike == Permutations(Apps) \cup Permutations(Databases)
           \cup Permutations(Names) \cup Permutations(HealthPaths)
=============================================================================
