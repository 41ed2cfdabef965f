------------------------- MODULE MCPostgresDatabases -------------------------
(* Definitions for model-checking PostgresDatabases.                       *)
EXTENDS PostgresDatabases, TLC

(* Requests are sent in any order and otherwise alike.                     *)
RequestSymmetry == Permutations(Requests)

CreatesRaceAndDeletesRace == {{"create"}, {"delete"}}
OnlyDeletesRace == {{"delete"}}
AllRace == {{"create"}, {"delete"}, {"create", "delete"}}
=============================================================================
