-------------------------- MODULE PostgresDatabases --------------------------
(***************************************************************************)
(* The databases that platform-api creates on request.  Unlike an app, a   *)
(* database has no queue and no lease: each POST and DELETE is a sequence  *)
(* of statements and Kubernetes calls in its own handler, and nothing      *)
(* keeps two of them apart.  Databases of different names share nothing,   *)
(* so this is the life of one name.                                        *)
(*                                                                         *)
(* What a create request asks for, its password first of all, is the       *)
(* request itself: row and objects say which request they are from.        *)
(***************************************************************************)
EXTENDS Integers, FiniteSets

CONSTANTS Requests,   \* each is sent once
          Overlaps,   \* kinds of request that may be under way together
          MaxFaults,  \* bound on failing calls and statements
          None

RequestKinds == {"create", "delete"}

(* The order in which ReconcilePostgres applies; DeletePostgres goes back. *)
Rank == [secret |-> 1, cluster |-> 2, database |-> 3,
         pooler |-> 4, service |-> 5]
Kinds == DOMAIN Rank

(* A database may have a pooler, and one with a pooler a public service.   *)
Options == {{}, {"pooler"}, {"pooler", "service"}}
Resources(options) == {"secret", "cluster", "database"} \cup options

Answers == {"created", "conflict", "deleted", "notFound", "failed"}

Row == [by : Requests, options : Options]
Request == [kind : RequestKinds, pc : {"call", "store", "late", "done"},
            options : Options, todo : SUBSET Kinds,
            found : Requests \cup {None},
            answer : Answers \cup {None}]

ASSUME OverlapsAssumption ==
  Overlaps \subseteq {{"create"}, {"delete"}, {"create", "delete"}}
ASSUME MaxFaultsAssumption == MaxFaults \in Nat
ASSUME NoneAssumption ==
  None \notin Row /\ None \notin Requests /\ None \notin Request /\ None \notin Answers

VARIABLES row,       \* the row of postgres_databases of this name, or None
          objects,   \* by kind, the request an object was applied for, or None
          requests,  \* where each handler is, or None before it is called
          faults

vars == <<row, objects, requests, faults>>

Exists == row # None
Sent(q) == requests[q] # None
UnderWay(q) == Sent(q) /\ requests[q].pc # "done"
At(q, kind, pc) == /\ Sent(q)
                   /\ requests[q].kind = kind /\ requests[q].pc = pc

(* A request is under way until its last call has landed, so that one whose*)
(* call is late holds off those it must not overlap with: more than its    *)
(* sender can know, who has an answer by then.                             *)
MaySend(q, kind) ==
  /\ ~Sent(q)
  /\ \A p \in Requests : UnderWay(p) => {kind, requests[p].kind} \in Overlaps

Ended(q, answer) == [requests EXCEPT ![q].pc = "done", ![q].answer = answer]

-----------------------------------------------------------------------------
(* The handlers.                                                           *)

(* Mutant: a create that does not look whether the name is taken.          *)
Unchecked == FALSE
NameTaken == Exists

SendCreate(q, options) ==
  /\ MaySend(q, "create")
  /\ requests' = [requests EXCEPT ![q] =
       [kind |-> "create", pc |-> IF NameTaken THEN "done" ELSE "call",
        options |-> options, todo |-> Resources(options), found |-> None,
        answer |-> IF NameTaken THEN "conflict" ELSE None]]
  /\ UNCHANGED <<row, objects, faults>>

(* Mutant: a delete that forgets the service of a public database.         *)
RemovedNotService == Kinds \ {"service"}
Removed == Kinds

SendDelete(q) ==
  /\ MaySend(q, "delete")
  /\ requests' = [requests EXCEPT ![q] =
       [kind |-> "delete", pc |-> IF Exists THEN "call" ELSE "done",
        options |-> {}, todo |-> Removed,
        found |-> IF Exists THEN row.by ELSE None,
        answer |-> IF Exists THEN None ELSE "notFound"]]
  /\ UNCHANGED <<row, objects, faults>>

First(S) == CHOOSE k \in S : \A j \in S : Rank[k] <= Rank[j]
Last(S) == CHOOSE k \in S : \A j \in S : Rank[k] >= Rank[j]

(* The call a handler sends next.                                          *)
Target(q) == IF requests[q].kind = "create" THEN First(requests[q].todo)
                                            ELSE Last(requests[q].todo)
CallTakesEffect(q) ==
  objects' = [objects EXCEPT ![Target(q)] =
                IF requests[q].kind = "create" THEN q ELSE None]

(* Mutant: the loop over the objects returns after the first.              *)
RemainingNone(q) == {}
Remaining(q) == requests[q].todo \ {Target(q)}

Call(q) ==
  /\ Sent(q) /\ requests[q].pc = "call"
  /\ CallTakesEffect(q)
  /\ requests' = [requests EXCEPT ![q].todo = Remaining(q),
                    ![q].pc = IF Remaining(q) = {} THEN "store" ELSE @]
  /\ UNCHANGED <<row, faults>>

(* The last statement of a create; the name is unique (error 23505).       *)
StoreRow(q) == row' = IF Exists THEN row
                      ELSE [by |-> q, options |-> requests[q].options]

(* Mutant: an answer that the handler does not have.                       *)
StoreAnswerOK(q) == "ok"
StoreAnswer(q) == IF Exists THEN "conflict" ELSE "created"

InsertRow(q) ==
  /\ At(q, "create", "store")
  /\ StoreRow(q)
  /\ requests' = Ended(q, StoreAnswer(q))
  /\ UNCHANGED <<objects, faults>>

(* The last statement of a delete finds the row by name.                   *)
DeleteRow(q) ==
  /\ At(q, "delete", "store")
  /\ row' = None
  /\ requests' = Ended(q, "deleted")
  /\ UNCHANGED <<objects, faults>>

-----------------------------------------------------------------------------
(* What goes wrong.                                                        *)

Fault == faults < MaxFaults /\ faults' = faults + 1

(* A call fails, or the client hangs up, which cancels the context of the  *)
(* call, or the replica dies.  The handler ends, the call may be on its    *)
(* way: the request counts as under way until the cluster has had it.      *)
CallFails(q) ==
  /\ Sent(q) /\ requests[q].pc = "call"
  /\ Fault
  /\ requests' = [requests EXCEPT ![q].pc = "late", ![q].answer = "failed"]
  /\ UNCHANGED <<row, objects>>

LateCall(q) ==
  /\ Sent(q) /\ requests[q].pc = "late"
  /\ CallTakesEffect(q) \/ UNCHANGED objects
  /\ requests' = [requests EXCEPT ![q].pc = "done"]
  /\ UNCHANGED <<row, faults>>

(* The last statement fails, or commits with nobody left to answer.        *)
StatementFails(q) ==
  /\ Sent(q) /\ requests[q].pc = "store"
  /\ Fault
  /\ \/ UNCHANGED row
     \/ requests[q].kind = "create" /\ StoreRow(q)
     \/ requests[q].kind = "delete" /\ row' = None
  /\ requests' = Ended(q, "failed")
  /\ UNCHANGED objects

-----------------------------------------------------------------------------

Init ==
  /\ row = None
  /\ objects = [k \in Kinds |-> None]
  /\ requests = [q \in Requests |-> None]
  /\ faults = 0

Next ==
  \E q \in Requests :
    \/ \E options \in Options : SendCreate(q, options)
    \/ SendDelete(q)
    \/ Call(q) \/ InsertRow(q) \/ DeleteRow(q)
    \/ CallFails(q) \/ LateCall(q) \/ StatementFails(q)

Spec == Init /\ [][Next]_vars

-----------------------------------------------------------------------------

(* Type invariant.                                                         *)
TypeOK ==
  /\ row \in Row \cup {None}
  /\ objects \in [Kinds -> Requests \cup {None}]
  /\ requests \in [Requests -> Request \cup {None}]
  /\ faults \in 0 .. MaxFaults

(* A stored database that no delete has set out to remove has every object *)
(* it was asked to have, however many creates of its name failed, gave up  *)
(* or lost the race before or since.                                       *)
RowHasObjects ==
  Exists /\ (\A q \in Requests : Sent(q) => requests[q].found # row.by)
    => \A k \in Resources(row.options) : objects[k] # None

(* The password that GET credentials reads from the row is the one in the  *)
(* Secret, and cluster, pooler and service are what the row says: where    *)
(* a stored database has an object, it is its own.                         *)
RowAgrees ==
  Exists => \A k \in Resources(row.options) : objects[k] \in {row.by, None}

(* Nothing of a database whose creation was answered 201 outlives its row: *)
(* with the row gone, DELETE answers 404 and could not remove it.          *)
DeletedLeavesNothing ==
  ~Exists => \A q \in Requests : Sent(q) /\ requests[q].answer = "created"
               => \A k \in Kinds : objects[k] # q

=============================================================================
