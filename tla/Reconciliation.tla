--------------------------- MODULE Reconciliation ---------------------------
(***************************************************************************)
(* The app control plane of platform-api: HTTP handlers that write the     *)
(* services table, replicas whose worker claims a row by a lease and makes *)
(* the cluster agree with it, and the Kubernetes objects of each app.      *)
(*                                                                         *)
(* Time is abstract.  next_reconcile_at <= now() is the flag due, a lease  *)
(* in the future is the flag leased, and the passing of time is the events *)
(* BecomesDue and LeaseExpires.  What a row and its environment variables  *)
(* say is a version number, drawn from a counter that no re-creation of    *)
(* the app resets, and an object of the cluster is the version it was      *)
(* rendered from.  The columns that steer nothing here (status, attempts,  *)
(* last_reconcile_error, timestamps) are left out.                         *)
(***************************************************************************)
EXTENDS Integers, FiniteSets

CONSTANTS Apps,       \* app names
          Workers,    \* one worker goroutine per replica of platform-api
          Kinds,      \* the kinds of object an app is made of
          Happens,    \* which events the environment may bring about
          MaxVersion, \* bound on writes of an app's stored specification
          MaxFaults,  \* bound on failed calls, crashes and drift
          NoRow, Idle

(* The order in which ReconcileApp applies objects; DeleteApp goes back.   *)
Rank == [secret |-> 1, service |-> 2, deployment |-> 3,
         networkPolicy |-> 4, httpRoute |-> 5]

Events == {"update", "env", "redeploy", "delete", "refresh", "stall", "drift"}

Version == 0 .. MaxVersion
Generation == Nat
NoObject == -1

States == {"pending", "reconciling", "ready", "failed", "deleting"}

Row == [id : Version, spec : Version, covered : Version,
        desired : Generation, reconciled : Generation,
        state : States, due : BOOLEAN, leased : BOOLEAN, tombstone : BOOLEAN]

WorkItem == [pc : {"loadRow", "loadEnv", "apply", "delete", "finish", "fail"},
             app : Apps, id : Version, generation : Generation,
             deleting : BOOLEAN, row : Version, env : Version,
             todo : SUBSET Kinds]

EnvCall == [pc : {"none", "store", "enqueue"}, id : Version]

ASSUME KindsAssumption == /\ Kinds \subseteq DOMAIN Rank
                          /\ Kinds # {}
ASSUME HappensAssumption == Happens \subseteq Events
ASSUME BoundsAssumption == MaxVersion \in Nat /\ MaxFaults \in Nat
ASSUME SentinelAssumption == NoRow \notin Row /\ Idle \notin WorkItem

VARIABLES services,   \* the services table: at most one row per name
          cluster,    \* the objects of each app, by kind
          workers,    \* the workItem each worker holds, or Idle
          envCalls,   \* the PUT, DELETE or upload of env variables in flight
          refreshes,  \* the GET that has read a Deployment's status
          version,    \* versions of an app's specification ever stored
          faults      \* faults so far

vars == <<services, cluster, workers, envCalls, refreshes, version, faults>>

Exists(a) == services[a] # NoRow
Live(a) == Exists(a) /\ ~services[a].tombstone
NoEnvCall == [pc |-> "none", id |-> 0]

Busy(w) == workers[w] # Idle
Holds(w, a) == Busy(w) /\ workers[w].app = a
(* w may still send calls to the cluster about a.                          *)
Touches(w, a) == /\ Holds(w, a)
                 /\ workers[w].pc \in {"loadRow", "loadEnv", "apply", "delete"}

-----------------------------------------------------------------------------
(* The statements of the handlers.                                         *)

NewVersion(a) == /\ version[a] < MaxVersion
                 /\ version' = [version EXCEPT ![a] = @ + 1]

Stored(r, v) == [r EXCEPT !.spec = v]

(* Mutants: a state no constraint knows; a write that frees the lease; one *)
(* that does not ask whether a deletion was requested.                     *)
EnqueueUnknownState(r) == [r EXCEPT !.desired = @ + 1, !.state = "queued"]
EnqueueFreesLease(r) ==
  IF r.tombstone THEN r
  ELSE [r EXCEPT !.desired = @ + 1, !.covered = r.spec,
                 !.state = "pending", !.due = TRUE, !.leased = FALSE]
EnqueueRevives(r) == [r EXCEPT !.desired = @ + 1, !.covered = r.spec,
                               !.state = "pending", !.due = TRUE]

(* desired_generation + 1 and back to the queue, unless a deletion has     *)
(* been requested: the lease, if any, stays.                               *)
Enqueue(r) == IF r.tombstone THEN r
              ELSE [r EXCEPT !.desired = @ + 1, !.covered = r.spec,
                             !.state = "pending", !.due = TRUE]

CreateApp(a) ==
  /\ ~Exists(a)
  /\ NewVersion(a)
  /\ services' = [services EXCEPT ![a] =
       [id |-> version'[a], spec |-> version'[a], covered |-> version'[a],
        desired |-> 1, reconciled |-> 0, state |-> "pending",
        due |-> TRUE, leased |-> FALSE, tombstone |-> FALSE]]
  /\ UNCHANGED <<cluster, workers, envCalls, refreshes, faults>>

UpdateApp(a) ==
  /\ "update" \in Happens
  /\ Live(a)
  /\ NewVersion(a)
  /\ services' = [services EXCEPT ![a] =
                    Enqueue(Stored(@, version'[a]))]
  /\ UNCHANGED <<cluster, workers, envCalls, refreshes, faults>>

(* Mutant: DELETE, like redeploy, frees the lease.                         *)
DeletedFreesLease(r) == [r EXCEPT !.state = "deleting", !.tombstone = TRUE,
                                  !.due = TRUE, !.leased = FALSE]
Deleted(r) == [r EXCEPT !.state = "deleting", !.tombstone = TRUE, !.due = TRUE]

DeleteApp(a) ==
  /\ "delete" \in Happens
  /\ Exists(a)
  /\ services' = [services EXCEPT ![a] = Deleted(@)]
  /\ UNCHANGED <<cluster, workers, envCalls, refreshes, version, faults>>

Redeployed(r) ==
  [r EXCEPT !.state = "pending", !.due = TRUE, !.leased = FALSE]

RedeployApp(a) ==
  /\ "redeploy" \in Happens
  /\ Live(a)
  /\ services' = [services EXCEPT ![a] = Redeployed(@)]
  /\ UNCHANGED <<cluster, workers, envCalls, refreshes, version, faults>>

(* Every handler of env variables first looks the service up by name ...   *)
FindService(a) ==
  /\ "env" \in Happens
  /\ envCalls[a].pc = "none"
  /\ Live(a)
  /\ envCalls' = [envCalls EXCEPT ![a] =
                    [pc |-> "store", id |-> services[a].id]]
  /\ UNCHANGED <<services, cluster, workers, refreshes, version, faults>>

(* ... and then writes by that id, which a deletion may have taken away.   *)
StillThere(a) == Exists(a) /\ services[a].id = envCalls[a].id

(* An upload stores the file and enqueues in one transaction.              *)
ReplaceEnv(a) ==
  /\ envCalls[a].pc = "store"
  /\ envCalls' = [envCalls EXCEPT ![a] = NoEnvCall]
  /\ IF StillThere(a)
       THEN /\ NewVersion(a)
            /\ services' = [services EXCEPT ![a] =
                              Enqueue(Stored(@, version'[a]))]
       ELSE UNCHANGED <<services, version>>
  /\ UNCHANGED <<cluster, workers, refreshes, faults>>

(* A PUT or DELETE of one variable is two statements: the first stores.    *)
StoreEnvVar(a) ==
  /\ envCalls[a].pc = "store"
  /\ IF StillThere(a)
       THEN /\ NewVersion(a)
            /\ services' = [services EXCEPT ![a] = Stored(@, version'[a])]
            /\ envCalls' = [envCalls EXCEPT ![a].pc = "enqueue"]
       ELSE /\ envCalls' = [envCalls EXCEPT ![a] = NoEnvCall]
            /\ UNCHANGED <<services, version>>
  /\ UNCHANGED <<cluster, workers, refreshes, faults>>

EnqueueEnvReconciliation(a) ==
  /\ envCalls[a].pc = "enqueue"
  /\ envCalls' = [envCalls EXCEPT ![a] = NoEnvCall]
  /\ services' = IF StillThere(a)
                   THEN [services EXCEPT ![a] = Enqueue(@)]
                   ELSE services
  /\ UNCHANGED <<cluster, workers, refreshes, version, faults>>

(* GET /api/apps/{name} reads the Deployment, then updates the row.  Only  *)
(* whether it saw a ready Deployment matters to reconcile_state.           *)
ReadDeployment(a) ==
  /\ "refresh" \in Happens
  /\ ~refreshes[a]
  /\ "deployment" \in Kinds => cluster[a]["deployment"] # NoObject
  /\ refreshes' = [refreshes EXCEPT ![a] = TRUE]
  /\ UNCHANGED <<services, cluster, workers, envCalls, version, faults>>

RefreshAppStatus(a) ==
  /\ refreshes[a]
  /\ refreshes' = [refreshes EXCEPT ![a] = FALSE]
  /\ services' = IF Exists(a) /\ services[a].state = "reconciling"
                   THEN [services EXCEPT ![a].state = "ready"]
                   ELSE services
  /\ UNCHANGED <<cluster, workers, envCalls, version, faults>>

-----------------------------------------------------------------------------
(* The worker.                                                             *)

(* Mutant: claimNext does not look at the lease.                           *)
ClaimableWhenDue(r) == r.due
Claimable(r) == r.due /\ ~r.leased

Leased(r) ==
  [r EXCEPT !.leased = TRUE,
            !.state = IF r.state = "deleting" THEN "deleting"
                                              ELSE "reconciling"]
ItemOf(a, r) ==
  [pc |-> IF r.state = "deleting" THEN "delete" ELSE "loadRow",
   app |-> a, id |-> r.id, generation |-> r.desired,
   deleting |-> r.state = "deleting", row |-> 0, env |-> 0, todo |-> Kinds]

(* One step: the row is selected for update, locked until the lease on it  *)
(* is committed, and a worker that selects meanwhile skips it.             *)
ClaimNext(w, a) ==
  /\ ~Busy(w)
  /\ Exists(a)
  /\ Claimable(services[a])
  /\ services' = [services EXCEPT ![a] = Leased(@)]
  /\ workers' = [workers EXCEPT ![w] = ItemOf(a, services[a])]
  /\ UNCHANGED <<cluster, envCalls, refreshes, version, faults>>

(* loadAppSpec reads by name, the row and the variables one after another. *)
(* The domains are read in between, and count as part of the row: that it  *)
(* vanishes before they are read is left out.                              *)
LoadRow(w) ==
  /\ Busy(w) /\ workers[w].pc = "loadRow"
  /\ LET a == workers[w].app
     IN workers' = IF Exists(a)
                     THEN [workers EXCEPT ![w].pc = "loadEnv",
                                          ![w].row = services[a].spec]
                     ELSE [workers EXCEPT ![w].pc = "fail"]
  /\ UNCHANGED <<services, cluster, envCalls, refreshes, version, faults>>

LoadEnv(w) ==
  /\ Busy(w) /\ workers[w].pc = "loadEnv"
  /\ LET a == workers[w].app
     IN workers' = [workers EXCEPT ![w].pc = "apply",
                      ![w].env = IF Exists(a) THEN services[a].spec ELSE 0]
  /\ UNCHANGED <<services, cluster, envCalls, refreshes, version, faults>>

First(S) == CHOOSE k \in S : \A j \in S : Rank[k] <= Rank[j]
Last(S) == CHOOSE k \in S : \A j \in S : Rank[k] >= Rank[j]

(* The call w sends next, as its effect on the objects of w's app.         *)
Target(w) == IF workers[w].deleting THEN Last(workers[w].todo)
                                    ELSE First(workers[w].todo)
(* What it writes.  The names of the variables, which the code renders     *)
(* into the Deployment too, count as the Secret's alone: a version of them *)
(* stands for names and values, and every apply writes both objects.       *)
Written(w) == IF workers[w].deleting THEN NoObject
              ELSE IF Target(w) = "secret" THEN workers[w].env
                                           ELSE workers[w].row
Calls(w) == Busy(w) /\ workers[w].pc \in {"apply", "delete"}
CallTakesEffect(w) ==
  cluster' = [cluster EXCEPT ![workers[w].app][Target(w)] = Written(w)]

(* Mutant: the loop over the objects returns after the first.              *)
RemainingNone(w) == {}
Remaining(w) == workers[w].todo \ {Target(w)}

Call(w) ==
  /\ Calls(w)
  /\ CallTakesEffect(w)
  /\ workers' = [workers EXCEPT ![w].todo = Remaining(w),
                   ![w].pc = IF Remaining(w) = {} THEN "finish" ELSE @]
  /\ UNCHANGED <<services, envCalls, refreshes, version, faults>>

(* Row of w's item as the statements `where id = $1' find it.              *)
Matches(w) == /\ Exists(workers[w].app)
              /\ services[workers[w].app].id = workers[w].id

(* Mutant: without the check that the generation is still the one claimed. *)
ReconciledUnchecked(r, g) ==
  [r EXCEPT !.reconciled = r.desired, !.leased = FALSE, !.state = "ready",
            !.due = FALSE]
Reconciled(r, g) ==
  [r EXCEPT !.reconciled = g, !.leased = FALSE,
            !.state = IF r.desired = g THEN "ready" ELSE "pending",
            !.due = r.desired # g]

FinishApply(w) ==
  /\ Busy(w) /\ workers[w].pc = "finish" /\ ~workers[w].deleting
  /\ workers' = [workers EXCEPT ![w] = Idle]
  /\ services' = IF Matches(w)
       THEN [services EXCEPT ![workers[w].app] =
               Reconciled(@, workers[w].generation)]
       ELSE services
  /\ UNCHANGED <<cluster, envCalls, refreshes, version, faults>>

FinishDelete(w) ==
  /\ Busy(w) /\ workers[w].pc = "finish" /\ workers[w].deleting
  /\ workers' = [workers EXCEPT ![w] = Idle]
  /\ services' = IF Matches(w) /\ services[workers[w].app].state = "deleting"
       THEN [services EXCEPT ![workers[w].app] = NoRow]
       ELSE services
  /\ UNCHANGED <<cluster, envCalls, refreshes, version, faults>>

(* Mutant: a failed deletion is recorded as any other failure.             *)
FailedStateOfAll(w) == "failed"
FailedState(w) == IF workers[w].deleting THEN "deleting" ELSE "failed"

Failed(r, state) ==
  [r EXCEPT !.state = state, !.due = FALSE, !.leased = FALSE]

RecordFailure(w) ==
  /\ Busy(w) /\ workers[w].pc = "fail"
  /\ workers' = [workers EXCEPT ![w] = Idle]
  /\ services' = IF Matches(w)
       THEN [services EXCEPT ![workers[w].app] =
               Failed(@, FailedState(w))]
       ELSE services
  /\ UNCHANGED <<cluster, envCalls, refreshes, version, faults>>

-----------------------------------------------------------------------------
(* Faults and the passing of time.                                         *)

Fault == faults < MaxFaults /\ faults' = faults + 1

(* A call that returns an error, or that outlives reconcileTimeout, may    *)
(* have reached the cluster; so may the last call of a process that dies.  *)
LastCallMayHaveReached(w) ==
  IF Calls(w) THEN CallTakesEffect(w) \/ UNCHANGED cluster
              ELSE UNCHANGED cluster

CallFails(w) ==
  /\ Busy(w)
  /\ workers[w].pc \in {"loadRow", "loadEnv", "apply", "delete"}
  /\ Fault
  /\ LastCallMayHaveReached(w)
  /\ workers' = [workers EXCEPT ![w].pc = "fail"]
  /\ UNCHANGED <<services, envCalls, refreshes, version>>

(* A crash, a shutdown that cancels the worker's context, or a final       *)
(* statement that the database rejects: the item is dropped as it is.      *)
Crash(w) ==
  /\ Busy(w)
  /\ Fault
  /\ LastCallMayHaveReached(w)
  /\ workers' = [workers EXCEPT ![w] = Idle]
  /\ UNCHANGED <<services, envCalls, refreshes, version>>

(* The replica serving a request dies between two of its statements.       *)
RequestDies(a) ==
  /\ envCalls[a].pc # "none" \/ refreshes[a]
  /\ Fault
  /\ envCalls' = [envCalls EXCEPT ![a] = NoEnvCall]
  /\ refreshes' = [refreshes EXCEPT ![a] = FALSE]
  /\ UNCHANGED <<services, cluster, workers, version>>

(* Something other than platform-api removes an object.                    *)
Drift(a, k) ==
  /\ "drift" \in Happens
  /\ Fault
  /\ cluster[a][k] # NoObject
  /\ cluster' = [cluster EXCEPT ![a][k] = NoObject]
  /\ UNCHANGED <<services, workers, envCalls, refreshes, version>>

(* Mutant: an app that is ready is never looked at again.                  *)
BecomesDueUnlessReady(a) ==
  /\ Exists(a) /\ ~services[a].due /\ services[a].state # "ready"
  /\ services' = [services EXCEPT ![a].due = TRUE]
  /\ UNCHANGED <<cluster, workers, envCalls, refreshes, version, faults>>

BecomesDue(a) ==
  /\ Exists(a) /\ ~services[a].due
  /\ services' = [services EXCEPT ![a].due = TRUE]
  /\ UNCHANGED <<cluster, workers, envCalls, refreshes, version, faults>>

(* leaseDuration is twice reconcileTimeout, so no worker that claimed the  *)
(* row still calls the cluster when the lease ends.  The statement that    *)
(* ends its work has no timeout: it can come later still ("stall").        *)
LeaseExpires(a) ==
  /\ Exists(a) /\ services[a].leased
  /\ \A w \in Workers : Holds(w, a) =>
       "stall" \in Happens /\ workers[w].pc \in {"finish", "fail"}
  /\ services' = [services EXCEPT ![a].leased = FALSE]
  /\ UNCHANGED <<cluster, workers, envCalls, refreshes, version, faults>>

-----------------------------------------------------------------------------

Init ==
  /\ services = [a \in Apps |-> NoRow]
  /\ cluster = [a \in Apps |-> [k \in Kinds |-> NoObject]]
  /\ workers = [w \in Workers |-> Idle]
  /\ envCalls = [a \in Apps |-> NoEnvCall]
  /\ refreshes = [a \in Apps |-> FALSE]
  /\ version = [a \in Apps |-> 0]
  /\ faults = 0

Handlers(a) ==
  \/ CreateApp(a) \/ UpdateApp(a) \/ DeleteApp(a) \/ RedeployApp(a)
  \/ FindService(a) \/ ReplaceEnv(a) \/ StoreEnvVar(a)
  \/ EnqueueEnvReconciliation(a)
  \/ ReadDeployment(a) \/ RefreshAppStatus(a) \/ RequestDies(a)

Work(w) ==
  \/ LoadRow(w) \/ LoadEnv(w) \/ Call(w)
  \/ FinishApply(w) \/ FinishDelete(w) \/ RecordFailure(w)

Next ==
  \/ \E a \in Apps : Handlers(a) \/ BecomesDue(a) \/ LeaseExpires(a)
  \/ \E w \in Workers : Work(w) \/ CallFails(w) \/ Crash(w)
  \/ \E w \in Workers, a \in Apps : ClaimNext(w, a)
  \/ \E a \in Apps, k \in Kinds : Drift(a, k)

Spec == Init /\ [][Next]_vars

(* The worker loop runs on, a handler that started ends, time passes, and  *)
(* claimNext orders rows by next_reconcile_at: a due row's turn comes.     *)
FairSpec ==
  /\ Spec
  /\ \A w \in Workers : WF_vars(Work(w))
  /\ \A a \in Apps :
       /\ SF_vars(\E w \in Workers : ClaimNext(w, a))
       /\ WF_vars(BecomesDue(a))
       /\ WF_vars(LeaseExpires(a))
       /\ WF_vars(EnqueueEnvReconciliation(a))

-----------------------------------------------------------------------------

(* Type invariant.                                                         *)
TypeOK ==
  /\ services \in [Apps -> Row \cup {NoRow}]
  /\ cluster \in [Apps -> [Kinds -> Version \cup {NoObject}]]
  /\ workers \in [Workers -> WorkItem \cup {Idle}]
  /\ envCalls \in [Apps -> EnvCall]
  /\ refreshes \in [Apps -> BOOLEAN]
  /\ version \in [Apps -> Version]
  /\ faults \in 0 .. MaxFaults

(* The leases let many replicas work safely: two workers never send        *)
(* Kubernetes calls about one app at the same time.                        *)
OneWorkerPerApp ==
  \A a \in Apps : \A v, w \in Workers :
    Touches(v, a) /\ Touches(w, a) => v = w

(* A deleted app's row outlives its objects: a name without a row has no   *)
(* object in the cluster, whatever workers are still doing.                *)
TombstoneUntilClean ==
  \A a \in Apps : ~Exists(a) => \A k \in Kinds : cluster[a][k] = NoObject

(* The inductive invariant behind the two: a worker with an item holds the *)
(* lease of that very row alone, and a removal leaves nothing behind it as *)
(* it goes.                                                                *)
SoleHolder(w) ==
  /\ Matches(w) /\ services[workers[w].app].leased
  /\ \A v \in Workers : Holds(v, workers[w].app) => v = w

CleansUp(w) ==
  workers[w].deleting =>
    /\ services[workers[w].app].state = "deleting"
    /\ workers[w].pc \in {"delete", "finish", "fail"}
    /\ workers[w].pc # "fail" =>
         \A k \in Kinds \ workers[w].todo : cluster[workers[w].app][k] = NoObject

LeaseInv ==
  /\ \A w \in Workers : Busy(w) =>
       /\ SoleHolder(w)
       /\ CleansUp(w)
       /\ workers[w].pc = "finish" => workers[w].todo = {}
  /\ \A a \in Apps : Exists(a) /\ services[a].state = "deleting"
                    => services[a].tombstone
  /\ TombstoneUntilClean

(* When reconciled_generation has caught up with desired_generation, every *)
(* object is at least as new as what that generation asked for.            *)
ReconciledMeansApplied ==
  \A a \in Apps :
    Exists(a) /\ services[a].state # "deleting"
              /\ services[a].reconciled = services[a].desired
    => \A k \in Kinds : cluster[a][k] >= services[a].covered

(* The inductive invariant behind it: what the items under way and the     *)
(* objects of the cluster were rendered from, against what the rows say.   *)

(* The version v an item read is in the row's past, and covers what the    *)
(* item's generation asked for.                                            *)
Loaded(w, v) ==
  LET r == services[workers[w].app] IN
  /\ v <= r.spec
  /\ r.desired = workers[w].generation => r.covered <= v

(* The version that w's item would write into an object of kind k.         *)
Source(w, k) == IF k = "secret" THEN workers[w].env ELSE workers[w].row

Carries(w) ==
  LET a == workers[w].app
      i == workers[w] IN
  /\ i.pc # "delete"
  /\ i.pc \in {"loadRow", "loadEnv"} => i.todo = Kinds
  /\ i.pc \in {"loadEnv", "apply", "finish"} => Loaded(w, i.row)
  /\ i.pc \in {"apply", "finish"} => Loaded(w, i.env)
  /\ i.pc = "loadEnv" => \A k \in Kinds : cluster[a][k] <= i.row
  /\ i.pc \in {"apply", "finish"} => \A k \in Kinds :
       /\ cluster[a][k] <= Source(w, k)
       /\ k \notin i.todo => cluster[a][k] = Source(w, k)

InOrder(a) ==
  /\ services[a].covered <= services[a].spec
  /\ services[a].spec <= version[a]
  /\ \A k \in Kinds : cluster[a][k] <= services[a].spec

(* An apply under way as the row enters state deleting may take it out of  *)
(* there again, so the objects have to be right until a removal starts.    *)
Whole(a) ==
  /\ services[a].reconciled = services[a].desired
  /\ services[a].state = "deleting" =>
       \E w \in Workers : Holds(w, a) /\ ~workers[w].deleting
  => \A k \in Kinds : services[a].covered <= cluster[a][k]

AppliedInv ==
  /\ \A a \in Apps : Exists(a) => InOrder(a) /\ Whole(a)
  /\ \A w \in Workers : Busy(w) /\ ~workers[w].deleting => Carries(w)

(* A row in state deleting, with no apply under way that could overwrite   *)
(* it, stays in that state through failures, crashes, refreshes and writes *)
(* of its variables until it is gone.                                      *)
RemovalIsFinal ==
  [][\A a \in Apps :
       /\ Exists(a) /\ services[a].state = "deleting"
       /\ \A w \in Workers : Holds(w, a) => workers[w].deleting
       => ~Exists(a)' \/ services'[a].state = "deleting"]_vars

(* No step puts an older version of an object over a newer one, or takes   *)
(* an object away from an app that is not being deleted.                   *)
NeverRollsBack ==
  [][\A a \in Apps, k \in Kinds :
       \/ cluster'[a][k] >= cluster[a][k]
       \/ Exists(a) /\ services[a].state = "deleting"]_vars

(* reconciled_generation of a row never goes back, and never passes        *)
(* desired_generation.                                                     *)
ReconciledAdvances ==
  [][\A a \in Apps :
       Exists(a) /\ Exists(a)' /\ services'[a].id = services[a].id
       => /\ services'[a].reconciled >= services[a].reconciled
          /\ services'[a].reconciled <= services'[a].desired]_vars

-----------------------------------------------------------------------------
(* The life of an app that all this amounts to.  A removal has begun when  *)
(* the row is in state deleting and no apply is under way that could take  *)
(* it out of there.                                                        *)
Applying(a) == \E w \in Workers : Holds(w, a) /\ ~workers[w].deleting
Phase(a) ==
  IF ~Exists(a) THEN "absent"
  ELSE IF ~services[a].tombstone THEN "live"
  ELSE IF services[a].state = "deleting" /\ ~Applying(a) THEN "removing"
  ELSE "leaving"
Wanted(a) == IF Exists(a) THEN services[a].spec ELSE 0
Asked(a) == IF Exists(a) THEN services[a].covered ELSE 0
Met(a) == Exists(a) /\ services[a].reconciled = services[a].desired

(* Through queue, leases, retries and crashes the control plane leads the  *)
(* life of AppLife with every app: objects only become newer, and are said *)
(* to be what was asked for only when they are; a removal that has begun   *)
(* is final; nothing of an app outlives it (worker.go, store.go).          *)
Life == INSTANCE AppLife WITH
          phase <- [a \in Apps |-> Phase(a)], wanted <- [a \in Apps |-> Wanted(a)],
          asked <- [a \in Apps |-> Asked(a)], met <- [a \in Apps |-> Met(a)],
          running <- cluster
LeadsLives == Life!Spec

-----------------------------------------------------------------------------
Applied(a) == \A k \in Kinds : cluster[a][k] = services[a].spec

(* Whatever races, crashes, lost statements and drift there were, once     *)
(* they end every live app comes to run what is stored, and stays so.      *)
Settles ==
  \A a \in Apps : <>[](Live(a) => /\ Applied(a)
                                  /\ services[a].reconciled = services[a].desired)

(* DELETE answers 202 and the worker then removes objects and row.         *)
DeleteRemoves ==
  \A a \in Apps : (Exists(a) /\ services[a].tombstone) ~> ~Exists(a)

(* A deletion that no apply already under way overwrites is carried out.   *)
DeleteCompletes ==
  \A a \in Apps :
    (/\ Exists(a) /\ services[a].state = "deleting"
     /\ \A w \in Workers : Holds(w, a) => workers[w].deleting) ~> ~Exists(a)

=============================================================================
