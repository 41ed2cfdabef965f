--------------------------- MODULE MCTopologyView ---------------------------
EXTENDS TopologyView

(* A service and a database of one name, and names that are made to look   *)
(* like identifiers of others.                                             *)
AppsHere == {<<"x">>, <<"database", "x">>, <<"platform", "api">>}
DatabasesHere == {<<"x">>}
=============================================================================
