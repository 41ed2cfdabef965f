-------------------------- MODULE MCServiceConsole --------------------------
EXTENDS ServiceConsole, TLC

CONSTANTS app1, app2, n1, n2

(* A file takes one variable away and brings another.                      *)
FilesHere == {{n2}}

(* Everything happens to one service; another one is there for the sake of *)
(* the fields they share.                                                  *)
OfferedHere == (app1 :> Kinds \ {"health", "redeploy"}) @@ (app2 :> {"load", "redeploy"})

(* The list of the first may have been loaded before the run begins.       *)
MCInit ==
  /\ apps = Apps /\ late = {} /\ listed = Apps
  /\ env = [c \in Apps |-> IF c = app1 THEN {n1} ELSE {}]
  /\ \/ envVars = [c \in Apps |-> None] /\ envApp = None
     \/ envVars = [c \in Apps |-> IF c = app1 THEN env[app1] ELSE None] /\ envApp = app1
  /\ busyApp = None /\ ops = [o \in Slots |-> None]
  /\ doubt = [c \in Apps |-> {}] /\ started = 0 /\ faults = 0
MCSpec == MCInit /\ [][Next]_vars /\ \A o \in Slots : WF_vars(GoesOn(o))
=============================================================================
