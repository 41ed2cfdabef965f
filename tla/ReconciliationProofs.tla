------------------------ MODULE ReconciliationProofs ------------------------
(***************************************************************************)
(* Theorems about Reconciliation, for any number of apps, workers and      *)
(* faults.  Types hold whatever happens; that a lease excludes a second    *)
(* worker, and what follows from it, holds as long as no redeploy frees a  *)
(* lease in use and no worker outlives its own (NoOverlap).                *)
(***************************************************************************)
EXTENDS Reconciliation, TLAPS

LEMMA EnqueueRow ==
  ASSUME NEW r \in Row
  PROVE  /\ Enqueue(r) \in Row
         /\ Enqueue(r).id = r.id
         /\ Enqueue(r).leased = r.leased
         /\ Enqueue(r).tombstone = r.tombstone
         /\ r.tombstone => Enqueue(r) = r
<1>1. CASE r.tombstone
  BY <1>1 DEF Enqueue
<1>2. CASE ~r.tombstone
  <2>1. Enqueue(r) = [r EXCEPT !.desired = r.desired + 1, !.covered = r.spec,
                               !.state = "pending", !.due = TRUE]
    BY <1>2 DEF Enqueue
  <2>2. r.desired + 1 \in Generation /\ r.spec \in Version
    BY DEF Row, Generation
  <2> QED BY <1>2, <2>1, <2>2 DEF Row, States
<1> QED BY <1>1, <1>2

(* Fields of a row that storing a new specification leaves alone.          *)
LEMMA StoredRow ==
  ASSUME NEW r \in Row, NEW v \in Version
  PROVE  /\ Stored(r, v) \in Row
         /\ Stored(r, v).id = r.id
         /\ Stored(r, v).leased = r.leased
         /\ Stored(r, v).state = r.state
         /\ Stored(r, v).tombstone = r.tombstone
BY DEF Stored, Row

LEMMA RedeployedRow ==
  ASSUME NEW r \in Row
  PROVE  Redeployed(r) \in Row /\ Redeployed(r).id = r.id
BY DEF Redeployed, Row, States

LEMMA FailedRow ==
  ASSUME NEW r \in Row, NEW state \in States
  PROVE  /\ Failed(r, state) \in Row
         /\ Failed(r, state).id = r.id
         /\ Failed(r, state).state = state
         /\ Failed(r, state).tombstone = r.tombstone
BY DEF Failed, Row

LEMMA DeletedRow ==
  ASSUME NEW r \in Row
  PROVE  /\ Deleted(r) \in Row
         /\ Deleted(r).id = r.id
         /\ Deleted(r).leased = r.leased
         /\ Deleted(r).state = "deleting"
         /\ Deleted(r).tombstone
BY DEF Deleted, Row, States

LEMMA LeasedRow ==
  ASSUME NEW r \in Row
  PROVE  /\ Leased(r) \in Row
         /\ Leased(r).id = r.id
         /\ Leased(r).leased
         /\ r.state = "deleting" => Leased(r).state = "deleting"
         /\ Leased(r).tombstone = r.tombstone
BY DEF Leased, Row, States

LEMMA ItemOfRow ==
  ASSUME NEW a \in Apps, NEW r \in Row
  PROVE  ItemOf(a, r) \in WorkItem
BY BoundsAssumption DEF ItemOf, Row, WorkItem, Version

LEMMA ReconciledRow ==
  ASSUME NEW r \in Row, NEW g \in Generation
  PROVE  /\ Reconciled(r, g) \in Row
         /\ Reconciled(r, g).id = r.id
         /\ Reconciled(r, g).state \in {"ready", "pending"}
BY DEF Reconciled, Row, States

-----------------------------------------------------------------------------
(* What a step of a worker does to its item.                               *)

LEMMA ItemType ==
  ASSUME TypeOK, NEW w \in Workers, Busy(w)
  PROVE  /\ workers[w] \in WorkItem
         /\ workers[w].app \in Apps
         /\ workers[w].generation \in Generation
         /\ Exists(workers[w].app) => services[workers[w].app] \in Row
BY DEF TypeOK, Busy, WorkItem, Exists

LEMMA LoadItem ==
  ASSUME TypeOK, NEW w \in Workers, LoadRow(w) \/ LoadEnv(w)
  PROVE  \E item \in WorkItem :
           /\ workers' = [workers EXCEPT ![w] = item]
           /\ item.app = workers[w].app /\ item.id = workers[w].id
           /\ item.deleting = workers[w].deleting
           /\ item.pc \in {"loadEnv", "apply", "fail"}
<1> DEFINE a == workers[w].app
           read == IF Exists(a) THEN services[a].spec ELSE 0
           first == [workers[w] EXCEPT !.pc = "loadEnv", !.row = read]
           missing == [workers[w] EXCEPT !.pc = "fail"]
           second == [workers[w] EXCEPT !.pc = "apply", !.env = read]
<1>1. workers[w] \in WorkItem /\ read \in Version
  BY ItemType, BoundsAssumption DEF LoadRow, LoadEnv, Row, Version
<1>2. \/ workers' = [workers EXCEPT ![w] = first]
      \/ workers' = [workers EXCEPT ![w] = missing]
      \/ workers' = [workers EXCEPT ![w] = second]
  BY DEF LoadRow, LoadEnv
<1>3. \A item \in {first, missing, second} :
        /\ item \in WorkItem
        /\ item.app = workers[w].app /\ item.id = workers[w].id
        /\ item.deleting = workers[w].deleting
        /\ item.pc \in {"loadEnv", "apply", "fail"}
  <2> DEFINE LoadedOf(item) == /\ item \in WorkItem
                               /\ item.app = workers[w].app
                               /\ item.id = workers[w].id
                               /\ item.deleting = workers[w].deleting
                               /\ item.pc \in {"loadEnv", "apply", "fail"}
  <2> HIDE DEF read
  <2>1. LoadedOf(first)
    BY <1>1 DEF WorkItem
  <2>2. LoadedOf(missing)
    BY <1>1 DEF WorkItem
  <2>3. LoadedOf(second)
    BY <1>1 DEF WorkItem
  <2> QED BY <2>1, <2>2, <2>3
<1> QED BY <1>2, <1>3

LEMMA CallItem ==
  ASSUME TypeOK, NEW w \in Workers, Call(w) \/ CallFails(w)
  PROVE  \E item \in WorkItem :
           /\ workers' = [workers EXCEPT ![w] = item]
           /\ item.app = workers[w].app /\ item.id = workers[w].id
           /\ item.deleting = workers[w].deleting
           /\ item.pc = "finish" => item.todo = {}
           /\ \/ item.pc = "fail"
              \/ /\ Call(w)
                 /\ item.pc \in {workers[w].pc, "finish"}
                 /\ item.todo = workers[w].todo \ {Target(w)}
<1> DEFINE rest == workers[w].todo \ {Target(w)}
           done == [workers[w] EXCEPT !.todo = rest, !.pc = "finish"]
           more == [workers[w] EXCEPT !.todo = rest, !.pc = workers[w].pc]
           failed == [workers[w] EXCEPT !.pc = "fail"]
<1>1. workers[w] \in WorkItem
  BY ItemType DEF Call, Calls, CallFails
<1>2. CASE Call(w)
  <2>1. \/ workers' = [workers EXCEPT ![w] = done] /\ rest = {}
        \/ workers' = [workers EXCEPT ![w] = more] /\ rest # {}
    BY <1>2 DEF Call, Remaining
  <2>2. /\ done \in WorkItem
        /\ done.app = workers[w].app /\ done.id = workers[w].id
        /\ done.deleting = workers[w].deleting
        /\ done.pc = "finish" /\ done.todo = rest
    BY <1>1 DEF WorkItem
  <2>3. /\ more \in WorkItem
        /\ more.app = workers[w].app /\ more.id = workers[w].id
        /\ more.deleting = workers[w].deleting
        /\ more.pc = workers[w].pc /\ more.todo = rest
    BY <1>1 DEF WorkItem
  <2>4. more.pc # "finish"
    BY <1>1, <1>2 DEF Call, Calls, WorkItem
  <2>5. CASE workers' = [workers EXCEPT ![w] = done] /\ rest = {}
    <3> HIDE DEF done
    <3> QED BY <1>2, <2>2, <2>5
  <2>6. CASE workers' = [workers EXCEPT ![w] = more]
    <3> HIDE DEF more
    <3> QED BY <1>2, <2>3, <2>4, <2>6
  <2> QED BY <2>1, <2>5, <2>6
<1>3. CASE CallFails(w)
  <2>1. workers' = [workers EXCEPT ![w] = failed]
    BY <1>3 DEF CallFails
  <2>2. /\ failed \in WorkItem
        /\ failed.app = workers[w].app /\ failed.id = workers[w].id
        /\ failed.deleting = workers[w].deleting
        /\ failed.pc = "fail"
    BY <1>1 DEF WorkItem
  <2> QED BY <2>1, <2>2
<1> QED BY <1>2, <1>3

(* A call writes one object of the item's app, or none.                    *)
LEMMA CallEffect ==
  ASSUME TypeOK, NEW w \in Workers, Calls(w), CallTakesEffect(w)
  PROVE  /\ cluster' \in [Apps -> [Kinds -> Version \cup {NoObject}]]
         /\ \A b \in Apps \ {workers[w].app} : cluster'[b] = cluster[b]
         /\ \A k \in Kinds : cluster'[workers[w].app][k] =
              IF k = Target(w) THEN Written(w) ELSE cluster[workers[w].app][k]
<1>1. workers[w] \in WorkItem /\ workers[w].app \in Apps
  BY ItemType DEF Calls
<1>2. Written(w) \in Version \cup {NoObject}
  BY <1>1 DEF Written, WorkItem
<1>3. [cluster[workers[w].app] EXCEPT ![Target(w)] = Written(w)]
        \in [Kinds -> Version \cup {NoObject}]
  BY <1>1, <1>2 DEF TypeOK
<1> QED BY <1>1, <1>3 DEF CallTakesEffect, TypeOK


-----------------------------------------------------------------------------

LEMMA EnvCallType ==
  /\ NoEnvCall \in EnvCall
  /\ \A c \in EnvCall : [c EXCEPT !.pc = "enqueue"] \in EnvCall
<1>1. NoEnvCall \in EnvCall
  BY BoundsAssumption DEF NoEnvCall, EnvCall, Version
<1>2. ASSUME NEW c \in EnvCall
      PROVE  [c EXCEPT !.pc = "enqueue"] \in EnvCall
  BY DEF EnvCall
<1> QED BY <1>1, <1>2

(* Every reachable state is well typed.                                    *)
THEOREM TypeCorrect == Spec => []TypeOK
<1> USE BoundsAssumption DEF Version, NoObject
<1>1. Init => TypeOK
  BY DEF Init, TypeOK, NoEnvCall, EnvCall
<1>2. TypeOK /\ [Next]_vars => TypeOK'
  <2> SUFFICES ASSUME TypeOK, [Next]_vars
               PROVE  TypeOK'
    OBVIOUS
  <2> USE DEF TypeOK
  <2>0. ASSUME NEW w \in Workers, Busy(w)
        PROVE  workers[w] \in WorkItem
    BY <2>0 DEF Busy
  <2>1. ASSUME NEW a \in Apps, Exists(a)
        PROVE  services[a] \in Row
    BY <2>1 DEF Exists
  <2>. /\ NoEnvCall \in EnvCall
       /\ \A c \in EnvCall : [c EXCEPT !.pc = "enqueue"] \in EnvCall
    BY EnvCallType
  <2>30. ASSUME NEW a \in Apps, NewVersion(a)
        PROVE  version' \in [Apps -> Version] /\ version'[a] \in Version
    BY <2>30 DEF NewVersion
  <2>2. ASSUME NEW a \in Apps, CreateApp(a)
        PROVE  TypeOK'
    BY <2>2 DEF CreateApp, NewVersion, Row, Generation, States
  <2>3. ASSUME NEW a \in Apps, UpdateApp(a)
        PROVE  TypeOK'
    <3>1. Stored(services[a], version'[a]) \in Row
      BY <2>1, <2>3, <2>30, StoredRow DEF UpdateApp, Live
    <3>2. Enqueue(Stored(services[a], version'[a])) \in Row
      BY <3>1, EnqueueRow
    <3> QED BY <2>3, <2>30, <3>2 DEF UpdateApp
  <2>4. ASSUME NEW a \in Apps, DeleteApp(a)
        PROVE  TypeOK'
    <3>1. Deleted(services[a]) \in Row
      BY <2>1, <2>4, DeletedRow DEF DeleteApp
    <3> QED BY <2>4, <3>1 DEF DeleteApp
  <2>5. ASSUME NEW a \in Apps, RedeployApp(a)
        PROVE  TypeOK'
    BY <2>1, <2>5, RedeployedRow DEF RedeployApp, Live
  <2>6. ASSUME NEW a \in Apps, FindService(a)
        PROVE  TypeOK'
    BY <2>1, <2>6 DEF FindService, Live, Row, EnvCall
  <2>7. ASSUME NEW a \in Apps, ReplaceEnv(a)
        PROVE  TypeOK'
    <3>1. CASE StillThere(a)
      <4>1. Stored(services[a], version'[a]) \in Row
        BY <2>1, <2>7, <2>30, <3>1, StoredRow DEF ReplaceEnv, StillThere
      <4>2. Enqueue(Stored(services[a], version'[a])) \in Row
        BY <4>1, EnqueueRow
      <4> QED BY <2>7, <2>30, <3>1, <4>2 DEF ReplaceEnv
    <3>2. CASE ~StillThere(a)
      BY <2>7, <3>2 DEF ReplaceEnv
    <3> QED BY <3>1, <3>2
  <2>8. ASSUME NEW a \in Apps, StoreEnvVar(a)
        PROVE  TypeOK'
    <3>1. CASE StillThere(a)
      <4>1. Stored(services[a], version'[a]) \in Row
        BY <2>1, <2>8, <2>30, <3>1, StoredRow DEF StoreEnvVar, StillThere
      <4>2. envCalls' \in [Apps -> EnvCall]
        BY <2>8, <3>1 DEF StoreEnvVar
      <4> QED BY <2>8, <2>30, <3>1, <4>1, <4>2 DEF StoreEnvVar
    <3>2. CASE ~StillThere(a)
      BY <2>8, <3>2 DEF StoreEnvVar
    <3> QED BY <3>1, <3>2
  <2>9. ASSUME NEW a \in Apps, EnqueueEnvReconciliation(a)
        PROVE  TypeOK'
    <3>1. StillThere(a) => Enqueue(services[a]) \in Row
      BY <2>1, EnqueueRow DEF StillThere
    <3> QED BY <2>9, <3>1 DEF EnqueueEnvReconciliation
  <2>10. ASSUME NEW a \in Apps, ReadDeployment(a)
         PROVE  TypeOK'
    BY <2>10 DEF ReadDeployment
  <2>11. ASSUME NEW a \in Apps, RefreshAppStatus(a)
         PROVE  TypeOK'
    <3>1. Exists(a) => [services[a] EXCEPT !.state = "ready"] \in Row
      BY <2>1 DEF Row, States
    <3> QED BY <2>11, <3>1 DEF RefreshAppStatus
  <2>12. ASSUME NEW a \in Apps, RequestDies(a)
         PROVE  TypeOK'
    BY <2>12 DEF RequestDies, Fault
  <2>13. ASSUME NEW a \in Apps, BecomesDue(a) \/ LeaseExpires(a)
         PROVE  TypeOK'
    <3>1. Exists(a) => /\ [services[a] EXCEPT !.due = TRUE] \in Row
                       /\ [services[a] EXCEPT !.leased = FALSE] \in Row
      BY <2>1 DEF Row
    <3> QED BY <2>13, <3>1 DEF BecomesDue, LeaseExpires
  <2>14. ASSUME NEW w \in Workers, NEW a \in Apps, ClaimNext(w, a)
         PROVE  TypeOK'
    <3>1. services[a] \in Row
      BY <2>1, <2>14 DEF ClaimNext
    <3> QED BY <2>14, <3>1, LeasedRow, ItemOfRow DEF ClaimNext
  <2>15. ASSUME NEW w \in Workers, LoadRow(w) \/ LoadEnv(w)
         PROVE  TypeOK'
    <3>1. workers' \in [Workers -> WorkItem \cup {Idle}]
      BY <2>15, LoadItem
    <3> QED BY <2>15, <3>1 DEF LoadRow, LoadEnv
  <2>16. ASSUME NEW w \in Workers, Call(w) \/ CallFails(w)
         PROVE  TypeOK'
    <3>1. workers' \in [Workers -> WorkItem \cup {Idle}]
      BY <2>16, CallItem
    <3>2. cluster' \in [Apps -> [Kinds -> Version \cup {NoObject}]]
      BY <2>16, CallEffect DEF Call, CallFails, LastCallMayHaveReached
    <3> QED BY <2>16, <3>1, <3>2 DEF Call, CallFails, Fault
  <2>17. ASSUME NEW w \in Workers, Crash(w)
         PROVE  TypeOK'
    <3>1. cluster' \in [Apps -> [Kinds -> Version \cup {NoObject}]]
      BY <2>17, CallEffect DEF Crash, LastCallMayHaveReached
    <3> QED BY <2>17, <3>1 DEF Crash, Fault
  <2>18. ASSUME NEW w \in Workers, FinishApply(w)
         PROVE  TypeOK'
    <3>1. Matches(w) => Reconciled(services[workers[w].app],
                                   workers[w].generation) \in Row
      BY <2>18, ItemType, ReconciledRow DEF FinishApply, Matches
    <3> QED BY <2>18, <3>1 DEF FinishApply
  <2>19. ASSUME NEW w \in Workers, FinishDelete(w)
         PROVE  TypeOK'
    BY <2>19 DEF FinishDelete
  <2>20. ASSUME NEW w \in Workers, RecordFailure(w)
         PROVE  TypeOK'
    <3>1. Matches(w) => Failed(services[workers[w].app], FailedState(w)) \in Row
      BY <2>20, ItemType, FailedRow
         DEF RecordFailure, Matches, FailedState, States
    <3> QED BY <2>20, <3>1 DEF RecordFailure
  <2>21. ASSUME NEW a \in Apps, NEW k \in Kinds, Drift(a, k)
         PROVE  TypeOK'
    BY <2>21 DEF Drift, Fault
  <2>22. CASE UNCHANGED vars
    BY <2>22 DEF vars
  <2> QED
    BY <2>2, <2>3, <2>4, <2>5, <2>6, <2>7, <2>8, <2>9, <2>10, <2>11, <2>12,
       <2>13, <2>14, <2>15, <2>16, <2>17, <2>18, <2>19, <2>20, <2>21, <2>22
    DEF Next, Handlers, Work
<1> QED BY <1>1, <1>2, PTL DEF Spec

-----------------------------------------------------------------------------
(* The lease.  Without redeploys and stalls, nothing frees the lease of a  *)
(* worker that is still at work.                                           *)

NoOverlap == {"redeploy", "stall"} \cap Happens = {}

(* A statement that changes one row, and neither frees a lease in use nor  *)
(* takes the row out of state deleting.                                    *)
LEMMA RowStep ==
  ASSUME TypeOK, LeaseInv, NEW a \in Apps, Exists(a), NEW r \in Row,
         services' = [services EXCEPT ![a] = r],
         UNCHANGED <<workers, cluster>>,
         r.id = services[a].id,
         (\E w \in Workers : Holds(w, a)) /\ services[a].leased => r.leased,
         services[a].state = "deleting" => r.state = "deleting",
         r.state = "deleting" => r.tombstone
  PROVE  LeaseInv'
<1>1. \A b \in Apps : Exists(b)' <=> Exists(b)
  BY SentinelAssumption DEF TypeOK, Exists
<1>2. ASSUME NEW w \in Workers, Busy(w)'
      PROVE  /\ SoleHolder(w)'
             /\ CleansUp(w)'
             /\ (workers[w].pc = "finish" => workers[w].todo = {})'
  <2>1. workers[w].app \in Apps /\ services' [a] = r /\ Busy(w)
    BY <1>2, ItemType DEF TypeOK, Busy
  <2>2. SoleHolder(w) /\ CleansUp(w)
        /\ (workers[w].pc = "finish" => workers[w].todo = {})
    BY <2>1 DEF LeaseInv
  <2>3. \A v \in Workers, b \in Apps : Holds(v, b)' <=> Holds(v, b)
    BY DEF Holds, Busy
  <2>4. SoleHolder(w)'
    BY <1>1, <2>1, <2>2, <2>3 DEF SoleHolder, Matches, Holds, Busy, TypeOK
  <2>5. CleansUp(w)'
    BY <2>1, <2>2 DEF CleansUp, TypeOK
  <2> QED BY <2>2, <2>4, <2>5
<1>3. ASSUME NEW b \in Apps, Exists(b)', services'[b].state = "deleting"
      PROVE  services'[b].tombstone
  BY <1>1, <1>3 DEF LeaseInv, TypeOK
<1>4. TombstoneUntilClean'
  BY <1>1 DEF LeaseInv, TombstoneUntilClean
<1> QED BY <1>2, <1>3, <1>4 DEF LeaseInv

(* A step of a worker that keeps its item's app, row and kind of work.     *)
LEMMA ItemStep ==
  ASSUME TypeOK, LeaseInv, NEW w \in Workers, Busy(w), NEW item \in WorkItem,
         workers' = [workers EXCEPT ![w] = item],
         UNCHANGED services,
         item.app = workers[w].app, item.id = workers[w].id,
         item.deleting = workers[w].deleting,
         item.pc = "finish" => item.todo = {},
         item.deleting => item.pc \in {"delete", "finish", "fail"},
         item.deleting /\ item.pc # "fail" =>
           \A k \in Kinds \ item.todo : cluster'[item.app][k] = NoObject,
         \A b \in Apps \ {item.app} : cluster'[b] = cluster[b]
  PROVE  LeaseInv'
<1>1. /\ item.app \in Apps /\ item # Idle
      /\ workers'[w] = item
      /\ \A v \in Workers \ {w} : workers'[v] = workers[v]
  BY SentinelAssumption DEF TypeOK, WorkItem
<1>2. \A b \in Apps : Exists(b)' <=> Exists(b)
  BY DEF Exists
<1>3. \A v \in Workers, b \in Apps : Holds(v, b)' <=> Holds(v, b)
  BY <1>1 DEF Holds, Busy
<1>4. ASSUME NEW v \in Workers, Busy(v)'
      PROVE  /\ SoleHolder(v)'
             /\ CleansUp(v)'
             /\ (workers[v].pc = "finish" => workers[v].todo = {})'
  <2>1. Busy(v) /\ SoleHolder(v) /\ CleansUp(v) /\ workers[v].app \in Apps
    BY <1>1, <1>4, ItemType DEF LeaseInv, Busy
  <2>2. CASE v = w
    <3>1. SoleHolder(v)'
      BY <1>1, <1>2, <1>3, <2>1, <2>2 DEF SoleHolder, Matches, Exists
    <3>2. CleansUp(v)'
      BY <1>1, <2>1, <2>2 DEF CleansUp
    <3> QED BY <1>1, <2>2, <3>1, <3>2
  <2>3. CASE v # w
    <3>1. workers'[v] = workers[v]
      BY <1>1, <2>3
    <3>2. workers[v].app # item.app
      BY <2>1, <2>3 DEF SoleHolder, Holds
    <3>3. SoleHolder(v)'
      BY <1>2, <1>3, <2>1, <3>1 DEF SoleHolder, Matches, Exists
    <3>4. CleansUp(v)'
      BY <2>1, <3>1, <3>2 DEF CleansUp
    <3> QED BY <2>1, <3>1, <3>3, <3>4 DEF LeaseInv
  <2> QED BY <2>2, <2>3
<1>5. TombstoneUntilClean'
  <2> SUFFICES ASSUME NEW b \in Apps, ~Exists(b), NEW k \in Kinds
               PROVE  cluster'[b][k] = NoObject
    BY <1>2 DEF TombstoneUntilClean
  <2>1. b # item.app
    BY DEF LeaseInv, SoleHolder, Matches
  <2> QED BY <2>1 DEF LeaseInv, TombstoneUntilClean
<1> QED BY <1>2, <1>4, <1>5 DEF LeaseInv, Exists

(* A worker lets its item go, and the item's row may change or disappear.  *)
LEMMA ReleaseStep ==
  ASSUME TypeOK, LeaseInv, NEW w \in Workers, Busy(w),
         NEW row \in Row \cup {NoRow},
         workers' = [workers EXCEPT ![w] = Idle],
         services' = [services EXCEPT ![workers[w].app] = row],
         \A b \in Apps \ {workers[w].app} : cluster'[b] = cluster[b],
         row = NoRow => \A k \in Kinds : cluster'[workers[w].app][k] = NoObject,
         row # NoRow /\ row.state = "deleting" => row.tombstone
  PROVE  LeaseInv'
<1> DEFINE a == workers[w].app
<1>1. /\ a \in Apps
      /\ services'[a] = row
      /\ workers'[w] = Idle
      /\ \A b \in Apps \ {a} : services'[b] = services[b]
      /\ \A v \in Workers \ {w} : workers'[v] = workers[v]
  BY ItemType DEF TypeOK
<1>2. ASSUME NEW v \in Workers, Busy(v)'
      PROVE  /\ SoleHolder(v)'
             /\ CleansUp(v)'
             /\ (workers[v].pc = "finish" => workers[v].todo = {})'
  <2>1. v # w /\ workers'[v] = workers[v] /\ Busy(v)
    BY <1>1, <1>2 DEF Busy
  <2>2. SoleHolder(v) /\ CleansUp(v) /\ workers[v].app \in Apps
    BY <2>1, ItemType DEF LeaseInv
  <2>3. workers[v].app # a
    BY <2>1, <2>2 DEF SoleHolder, Holds
  <2>4. services'[workers[v].app] = services[workers[v].app]
    BY <1>1, <2>2, <2>3
  <2>5. SoleHolder(v)'
    <3>1. Matches(v)' /\ services'[workers'[v].app].leased
      BY <2>1, <2>2, <2>4 DEF SoleHolder, Matches, Exists
    <3>2. \A u \in Workers : Holds(u, workers[v].app)' => Holds(u, workers[v].app)
      BY <1>1, <2>1 DEF Holds, Busy
    <3> QED BY <2>1, <2>2, <3>1, <3>2 DEF SoleHolder
  <2>6. CleansUp(v)'
    BY <2>1, <2>2, <2>3, <2>4 DEF CleansUp
  <2> QED BY <2>1, <2>5, <2>6 DEF LeaseInv
<1>3. ASSUME NEW b \in Apps, Exists(b)', services'[b].state = "deleting"
      PROVE  services'[b].tombstone
  BY <1>1, <1>3 DEF LeaseInv, Exists
<1>4. TombstoneUntilClean'
  BY <1>1 DEF LeaseInv, TombstoneUntilClean, Exists
<1> QED BY <1>2, <1>3, <1>4 DEF LeaseInv

(* claimNext gives a row that no worker holds to an idle worker.           *)
LEMMA ClaimStep ==
  ASSUME TypeOK, LeaseInv, NEW w \in Workers, NEW a \in Apps, ClaimNext(w, a)
  PROVE  LeaseInv'
<1>1. /\ services[a] \in Row /\ ~services[a].leased
      /\ ~Busy(w) /\ Exists(a)
  BY DEF ClaimNext, Claimable, Exists, TypeOK
<1>2. \A v \in Workers : ~Holds(v, a)
  BY <1>1 DEF LeaseInv, SoleHolder, Holds
<1>3. /\ services'[a] = Leased(services[a])
      /\ \A b \in Apps \ {a} : services'[b] = services[b]
      /\ workers'[w] = ItemOf(a, services[a])
      /\ \A v \in Workers \ {w} : workers'[v] = workers[v]
      /\ cluster' = cluster
  BY DEF ClaimNext, TypeOK
<1>4. Leased(services[a]) # NoRow /\ ItemOf(a, services[a]) # Idle
  BY <1>1, LeasedRow, ItemOfRow, SentinelAssumption
<1>5. \A b \in Apps : Exists(b)' <=> Exists(b)
  BY <1>1, <1>3, <1>4 DEF Exists
<1>6. ASSUME NEW v \in Workers, Busy(v)'
      PROVE  /\ SoleHolder(v)'
             /\ CleansUp(v)'
             /\ (workers[v].pc = "finish" => workers[v].todo = {})'
  <2>1. CASE v = w
    <3>1. Matches(v)' /\ services'[a].leased /\ workers'[v].app = a
      BY <1>1, <1>3, <1>5, <2>1, LeasedRow DEF Matches, ItemOf
    <3>2. \A u \in Workers : Holds(u, a)' => u = w
      BY <1>2, <1>3 DEF Holds, Busy
    <3>3. CleansUp(v)'
      <4>1. ItemOf(a, services[a]).deleting = (services[a].state = "deleting")
        BY Zenon DEF ItemOf
      <4>2. /\ services[a].state = "deleting" => workers'[v].pc = "delete"
            /\ workers'[v].todo = Kinds
        BY <1>3, <2>1 DEF ItemOf
      <4>3. workers'[v].deleting => services[a].state = "deleting"
        BY <1>3, <2>1, <4>1
      <4> QED BY <1>1, <1>3, <3>1, <4>2, <4>3, LeasedRow DEF CleansUp
    <3> QED BY <1>3, <2>1, <3>1, <3>2, <3>3 DEF SoleHolder, ItemOf
  <2>2. CASE v # w
    <3>1. workers'[v] = workers[v] /\ Busy(v)
      BY <1>3, <1>6, <2>2 DEF Busy
    <3>2. SoleHolder(v) /\ CleansUp(v) /\ workers[v].app \in Apps
      BY <3>1, ItemType DEF LeaseInv
    <3>3. workers[v].app # a
      BY <1>2, <3>1 DEF Holds
    <3>4. services'[workers[v].app] = services[workers[v].app]
      BY <1>3, <3>2, <3>3
    <3>5. \A u \in Workers : Holds(u, workers[v].app)' => Holds(u, workers[v].app)
      BY <1>3, <3>1, <3>3 DEF Holds, Busy, ItemOf
    <3>6. SoleHolder(v)'
      <4>1. Matches(v)' /\ services'[workers'[v].app].leased
        BY <1>5, <3>1, <3>2, <3>4 DEF SoleHolder, Matches
      <4> QED BY <3>1, <3>2, <3>5, <4>1 DEF SoleHolder
    <3>7. CleansUp(v)'
      BY <1>3, <3>1, <3>2, <3>4 DEF CleansUp
    <3> QED BY <3>1, <3>6, <3>7 DEF LeaseInv
  <2> QED BY <2>1, <2>2
<1>7. ASSUME NEW b \in Apps, Exists(b)', services'[b].state = "deleting"
      PROVE  services'[b].tombstone
  <2>1. CASE b = a
    <3>1. services[a].state = "deleting"
      BY <1>1, <1>3, <1>7, <2>1 DEF Leased, Row
    <3> QED BY <1>1, <1>3, <2>1, <3>1, LeasedRow DEF LeaseInv
  <2>2. CASE b # a
    BY <1>3, <1>5, <1>7, <2>2 DEF LeaseInv
  <2> QED BY <2>1, <2>2
<1>8. TombstoneUntilClean'
  BY <1>3, <1>5 DEF LeaseInv, TombstoneUntilClean
<1> QED BY <1>6, <1>7, <1>8 DEF LeaseInv

(* A row for a name that had none, and so no worker.                       *)
LEMMA CreateStep ==
  ASSUME TypeOK, LeaseInv, NEW a \in Apps, CreateApp(a)
  PROVE  LeaseInv'
<1>1. /\ ~Exists(a)
      /\ services'[a].state = "pending"
      /\ \A b \in Apps \ {a} : services'[b] = services[b]
      /\ workers' = workers /\ cluster' = cluster
  BY DEF CreateApp, TypeOK
<1>2. ASSUME NEW v \in Workers, Busy(v)'
      PROVE  /\ SoleHolder(v)'
             /\ CleansUp(v)'
             /\ (workers[v].pc = "finish" => workers[v].todo = {})'
  <2>1. Busy(v) /\ SoleHolder(v) /\ CleansUp(v) /\ workers[v].app \in Apps
    BY <1>1, <1>2, ItemType DEF LeaseInv, Busy
  <2>2. services'[workers[v].app] = services[workers[v].app]
    BY <1>1, <2>1 DEF SoleHolder, Matches
  <2>3. SoleHolder(v)'
    <3>1. Matches(v)' /\ services'[workers'[v].app].leased
      BY <1>1, <2>1, <2>2 DEF SoleHolder, Matches, Exists
    <3>2. \A u \in Workers : Holds(u, workers[v].app)' => Holds(u, workers[v].app)
      BY <1>1 DEF Holds, Busy
    <3> QED BY <1>1, <2>1, <3>1, <3>2 DEF SoleHolder
  <2>4. CleansUp(v)'
    BY <1>1, <2>1, <2>2 DEF CleansUp
  <2> QED BY <1>1, <2>1, <2>3, <2>4 DEF LeaseInv
<1>3. ASSUME NEW b \in Apps, Exists(b)', services'[b].state = "deleting"
      PROVE  services'[b].tombstone
  BY <1>1, <1>3 DEF LeaseInv, Exists
<1>4. TombstoneUntilClean'
  BY <1>1 DEF LeaseInv, TombstoneUntilClean, Exists
<1> QED BY <1>2, <1>3, <1>4 DEF LeaseInv

(* Objects that go away by themselves disturb no lease.                    *)
LEMMA DriftStep ==
  ASSUME TypeOK, LeaseInv, NEW a \in Apps, NEW k \in Kinds, Drift(a, k)
  PROVE  LeaseInv'
<1>1. \A b \in Apps, j \in Kinds :
        cluster[b][j] = NoObject => cluster'[b][j] = NoObject
  BY DEF Drift, TypeOK
<1>2. services' = services /\ workers' = workers
  BY DEF Drift
<1>3. ASSUME NEW v \in Workers, Busy(v)'
      PROVE  /\ SoleHolder(v)'
             /\ CleansUp(v)'
             /\ (workers[v].pc = "finish" => workers[v].todo = {})'
  <2>1. Busy(v) /\ SoleHolder(v) /\ CleansUp(v) /\ workers[v].app \in Apps
    BY <1>2, <1>3, ItemType DEF LeaseInv, Busy
  <2>2. SoleHolder(v)'
    BY <1>2, <2>1 DEF SoleHolder, Matches, Exists, Holds, Busy
  <2>3. CleansUp(v)'
    BY <1>1, <1>2, <2>1 DEF CleansUp
  <2> QED BY <1>2, <2>1, <2>2, <2>3 DEF LeaseInv
<1>4. TombstoneUntilClean'
  BY <1>1, <1>2 DEF LeaseInv, TombstoneUntilClean, Exists
<1> QED BY <1>2, <1>3, <1>4 DEF LeaseInv, Exists

LEMMA QuietStep ==
  ASSUME LeaseInv, UNCHANGED <<services, workers, cluster>>
  PROVE  LeaseInv'
BY DEF LeaseInv, SoleHolder, CleansUp, TombstoneUntilClean, Matches, Exists,
       Holds, Busy

-----------------------------------------------------------------------------

(* A worker holds its row's lease alone while it works, no row disappears  *)
(* before its objects, and a removal once begun is final, in every system  *)
(* where no redeploy frees a lease and no final statement outlives one.    *)
THEOREM LeaseIsExclusive ==
  ASSUME NoOverlap
  PROVE  Spec => []LeaseInv
<1>1. Init => LeaseInv
  BY DEF Init, LeaseInv, TombstoneUntilClean, Busy, Exists
<1>2. TypeOK /\ TypeOK' /\ LeaseInv /\ [Next]_vars => LeaseInv'
  <2> SUFFICES ASSUME TypeOK, TypeOK', LeaseInv, [Next]_vars
               PROVE  LeaseInv'
    OBVIOUS
  <2>0. ASSUME NEW a \in Apps, Exists(a)
        PROVE  /\ services[a] \in Row
               /\ services[a].state = "deleting" => services[a].tombstone
    BY <2>0 DEF TypeOK, Exists, LeaseInv
  <2>1. ASSUME NEW a \in Apps, NewVersion(a)
        PROVE  version'[a] \in Version
    BY <2>1 DEF TypeOK
  <2>2. ASSUME NEW a \in Apps, CreateApp(a)
        PROVE  LeaseInv'
    BY <2>2, CreateStep
  <2>3. ASSUME NEW a \in Apps, Exists(a), NEW s \in Row,
               s.id = services[a].id, s.leased = services[a].leased,
               s.state = services[a].state, s.tombstone = services[a].tombstone,
               services' = [services EXCEPT ![a] = Enqueue(s)],
               UNCHANGED <<workers, cluster>>
        PROVE  LeaseInv'
    <3> DEFINE r == Enqueue(s)
    <3>1. services[a].state = "deleting" => services[a].tombstone
      BY <2>0, <2>3
    <3>2. /\ r \in Row /\ r.id = s.id /\ r.leased = s.leased
          /\ r.tombstone = s.tombstone
          /\ s.tombstone => r = s
      BY <2>3, EnqueueRow
    <3>3. /\ s.state = "deleting" => r.state = "deleting"
          /\ r.state = "deleting" => r.tombstone
      <4>1. CASE s.tombstone
        BY <2>3, <3>1, <3>2, <4>1
      <4>2. CASE ~s.tombstone
        <5>1. r.state = "pending"
          BY <4>2, <2>3 DEF Enqueue, Row
        <5> QED BY <2>3, <3>1, <4>2, <5>1
      <4> QED BY <4>1, <4>2
    <3>4. services' = [services EXCEPT ![a] = r]
      BY <2>3
    <3>5. r.id = services[a].id /\ r.leased = services[a].leased
      BY <2>3, <3>2
    <3>6. services[a].state = "deleting" => r.state = "deleting"
      BY <2>3, <3>3
    <3>7. Exists(a) /\ a \in Apps /\ UNCHANGED <<workers, cluster>>
      BY <2>3
    <3> HIDE DEF r
    <3> QED BY <3>2, <3>3, <3>4, <3>5, <3>6, <3>7, RowStep
  <2>4. ASSUME NEW a \in Apps, UpdateApp(a) \/ (ReplaceEnv(a) /\ StillThere(a))
        PROVE  LeaseInv'
    <3> DEFINE s == Stored(services[a], version'[a])
    <3>1. Exists(a) /\ NewVersion(a)
      BY <2>4 DEF UpdateApp, Live, ReplaceEnv, StillThere
    <3>2. /\ s \in Row /\ s.id = services[a].id
          /\ s.leased = services[a].leased /\ s.state = services[a].state
          /\ s.tombstone = services[a].tombstone
      BY <2>0, <2>1, <3>1, StoredRow
    <3>3. /\ services' = [services EXCEPT ![a] = Enqueue(s)]
          /\ UNCHANGED <<workers, cluster>>
      BY <2>4 DEF UpdateApp, ReplaceEnv
    <3> HIDE DEF s
    <3> QED BY <2>3, <3>1, <3>2, <3>3
  <2>5. ASSUME NEW a \in Apps, DeleteApp(a)
        PROVE  LeaseInv'
    <3> DEFINE r == Deleted(services[a])
    <3>1. Exists(a)
      BY <2>5 DEF DeleteApp
    <3>2. /\ r \in Row /\ r.id = services[a].id
          /\ r.leased = services[a].leased
          /\ r.state = "deleting" /\ r.tombstone
      BY <2>0, <3>1, DeletedRow
    <3>3. services' = [services EXCEPT ![a] = r] /\ UNCHANGED <<workers, cluster>>
      BY <2>5 DEF DeleteApp
    <3> HIDE DEF r
    <3> QED BY <3>1, <3>2, <3>3, RowStep
  <2>6. ASSUME NEW a \in Apps, RedeployApp(a)
        PROVE  FALSE
    BY <2>6, NoOverlap DEF RedeployApp, NoOverlap
  <2>7. ASSUME NEW a \in Apps, StoreEnvVar(a), StillThere(a)
        PROVE  LeaseInv'
    <3> DEFINE s == Stored(services[a], version'[a])
    <3>1. Exists(a) /\ NewVersion(a)
      BY <2>7 DEF StoreEnvVar, StillThere
    <3>2. /\ s \in Row /\ s.id = services[a].id
          /\ s.leased = services[a].leased /\ s.state = services[a].state
          /\ s.tombstone = services[a].tombstone
      BY <2>0, <2>1, <3>1, StoredRow
    <3>3. services' = [services EXCEPT ![a] = s] /\ UNCHANGED <<workers, cluster>>
      BY <2>7 DEF StoreEnvVar
    <3> HIDE DEF s
    <3> QED BY <2>0, <3>1, <3>2, <3>3, RowStep
  <2>8. ASSUME NEW a \in Apps, EnqueueEnvReconciliation(a), StillThere(a)
        PROVE  LeaseInv'
    <3>1. Exists(a) /\ services[a] \in Row
      BY <2>0, <2>8 DEF StillThere
    <3>2. /\ services' = [services EXCEPT ![a] = Enqueue(services[a])]
          /\ UNCHANGED <<workers, cluster>>
      BY <2>8 DEF EnqueueEnvReconciliation
    <3> QED BY <2>3, <3>1, <3>2
  <2>9. ASSUME NEW a \in Apps,
               \/ FindService(a) \/ ReadDeployment(a) \/ RequestDies(a)
               \/ /\ ReplaceEnv(a) \/ StoreEnvVar(a) \/ EnqueueEnvReconciliation(a)
                  /\ ~StillThere(a)
        PROVE  LeaseInv'
    <3>1. UNCHANGED <<services, workers, cluster>>
      BY <2>9 DEF FindService, ReadDeployment, RequestDies, ReplaceEnv,
                  StoreEnvVar, EnqueueEnvReconciliation
    <3> QED BY <3>1, QuietStep
  <2>10. ASSUME NEW a \in Apps, RefreshAppStatus(a)
         PROVE  LeaseInv'
    <3> DEFINE r == [services[a] EXCEPT !.state = "ready"]
    <3>1. CASE Exists(a) /\ services[a].state = "reconciling"
      <4>1. services' = [services EXCEPT ![a] = r] /\ UNCHANGED <<workers, cluster>>
        BY <2>10, <3>1 DEF RefreshAppStatus
      <4>2. /\ r \in Row /\ r.id = services[a].id
            /\ r.leased = services[a].leased /\ r.state = "ready"
        BY <2>0, <3>1 DEF Row, States
      <4> HIDE DEF r
      <4> QED BY <3>1, <4>1, <4>2, RowStep
    <3>2. CASE ~(Exists(a) /\ services[a].state = "reconciling")
      BY <2>10, <3>2, QuietStep DEF RefreshAppStatus
    <3> QED BY <3>1, <3>2
  <2>11. ASSUME NEW a \in Apps, BecomesDue(a)
         PROVE  LeaseInv'
    <3> DEFINE r == [services[a] EXCEPT !.due = TRUE]
    <3>1. /\ Exists(a) /\ services' = [services EXCEPT ![a] = r]
          /\ UNCHANGED <<workers, cluster>>
      BY <2>11 DEF BecomesDue
    <3>2. /\ r \in Row /\ r.id = services[a].id /\ r.leased = services[a].leased
          /\ r.state = services[a].state /\ r.tombstone = services[a].tombstone
      BY <2>0, <3>1 DEF Row
    <3> HIDE DEF r
    <3> QED BY <2>0, <3>1, <3>2, RowStep
  <2>12. ASSUME NEW a \in Apps, LeaseExpires(a)
         PROVE  LeaseInv'
    <3> DEFINE r == [services[a] EXCEPT !.leased = FALSE]
    <3>1. /\ Exists(a) /\ services' = [services EXCEPT ![a] = r]
          /\ UNCHANGED <<workers, cluster>>
          /\ \A w \in Workers : ~Holds(w, a)
      BY <2>12, NoOverlap DEF LeaseExpires, NoOverlap
    <3>2. /\ r \in Row /\ r.id = services[a].id
          /\ r.state = services[a].state /\ r.tombstone = services[a].tombstone
      BY <2>0, <3>1 DEF Row
    <3> HIDE DEF r
    <3> QED BY <2>0, <3>1, <3>2, RowStep
  <2>13. ASSUME NEW w \in Workers, NEW a \in Apps, ClaimNext(w, a)
         PROVE  LeaseInv'
    BY <2>13, ClaimStep
  <2>14. ASSUME NEW w \in Workers, Busy(w)
         PROVE  /\ SoleHolder(w) /\ CleansUp(w) /\ Matches(w)
                /\ workers[w].pc = "finish" => workers[w].todo = {}
                /\ workers[w] \in WorkItem /\ workers[w].app \in Apps
    BY <2>14, ItemType DEF LeaseInv, SoleHolder
  <2>15. ASSUME NEW w \in Workers, LoadRow(w) \/ LoadEnv(w)
         PROVE  LeaseInv'
    <3>1. /\ Busy(w) /\ ~workers[w].deleting
          /\ UNCHANGED <<services, cluster>>
      BY <2>14, <2>15 DEF LoadRow, LoadEnv, CleansUp
    <3> QED BY <2>15, <3>1, LoadItem, ItemStep
  <2>16. ASSUME NEW w \in Workers, Call(w) \/ CallFails(w)
         PROVE  LeaseInv'
    <3>1. PICK item \in WorkItem :
            /\ workers' = [workers EXCEPT ![w] = item]
            /\ item.app = workers[w].app /\ item.id = workers[w].id
            /\ item.deleting = workers[w].deleting
            /\ item.pc = "finish" => item.todo = {}
            /\ \/ item.pc = "fail"
               \/ /\ Call(w)
                  /\ item.pc \in {workers[w].pc, "finish"}
                  /\ item.todo = workers[w].todo \ {Target(w)}
      BY <2>16, CallItem
    <3>2. /\ Busy(w)
          /\ UNCHANGED services
          /\ \A b \in Apps \ {item.app} : cluster'[b] = cluster[b]
      BY <2>16, <3>1, CallEffect
      DEF Call, Calls, CallFails, LastCallMayHaveReached
    <3>3. item.deleting => item.pc \in {"delete", "finish", "fail"}
      BY <2>14, <3>1, <3>2 DEF CleansUp
    <3>4. item.deleting /\ item.pc # "fail" =>
            \A k \in Kinds \ item.todo : cluster'[item.app][k] = NoObject
      <4> SUFFICES ASSUME item.deleting, item.pc # "fail",
                          NEW k \in Kinds \ item.todo
                   PROVE  cluster'[item.app][k] = NoObject
        OBVIOUS
      <4>1. /\ Call(w) /\ Calls(w) /\ CallTakesEffect(w)
            /\ item.todo = workers[w].todo \ {Target(w)}
        BY <3>1 DEF Call
      <4>2. Written(w) = NoObject
        BY <3>1 DEF Written
      <4>3. k # Target(w) => cluster[workers[w].app][k] = NoObject
        BY <2>14, <3>1, <3>2, <4>1 DEF CleansUp, Calls
      <4> QED BY <3>1, <4>1, <4>2, <4>3, CallEffect
    <3> QED BY <3>1, <3>2, <3>3, <3>4, ItemStep
  <2>17. ASSUME NEW w \in Workers, FinishApply(w)
         PROVE  LeaseInv'
    <3> DEFINE r == Reconciled(services[workers[w].app], workers[w].generation)
    <3>1. /\ Busy(w)
          /\ workers' = [workers EXCEPT ![w] = Idle]
          /\ services' = [services EXCEPT ![workers[w].app] = r]
          /\ cluster' = cluster
      BY <2>14, <2>17 DEF FinishApply
    <3>2. r \in Row /\ r.state # "deleting"
      <4>1. services[workers[w].app] \in Row /\ workers[w].generation \in Generation
        BY <2>14, <3>1, ItemType DEF Matches
      <4> QED BY <4>1, ReconciledRow
    <3> HIDE DEF r
    <3> QED BY <3>1, <3>2, SentinelAssumption, ReleaseStep
  <2>18. ASSUME NEW w \in Workers, FinishDelete(w)
         PROVE  LeaseInv'
    <3>1. /\ Busy(w) /\ workers[w].deleting /\ workers[w].pc = "finish"
          /\ workers' = [workers EXCEPT ![w] = Idle]
          /\ cluster' = cluster
      BY <2>18 DEF FinishDelete
    <3>2. services' = [services EXCEPT ![workers[w].app] = NoRow]
      BY <2>14, <2>18, <3>1 DEF FinishDelete, CleansUp
    <3>3. \A k \in Kinds : cluster[workers[w].app][k] = NoObject
      BY <2>14, <3>1 DEF CleansUp
    <3> QED BY <3>1, <3>2, <3>3, ReleaseStep
  <2>19. ASSUME NEW w \in Workers, RecordFailure(w)
         PROVE  LeaseInv'
    <3> DEFINE r == Failed(services[workers[w].app], FailedState(w))
    <3>1. /\ Busy(w)
          /\ workers' = [workers EXCEPT ![w] = Idle]
          /\ services' = [services EXCEPT ![workers[w].app] = r]
          /\ cluster' = cluster
      BY <2>14, <2>19 DEF RecordFailure
    <3>2. r \in Row /\ (r.state = "deleting" => r.tombstone)
      <4>1. services[workers[w].app] \in Row /\ FailedState(w) \in States
        BY <2>14, <3>1, ItemType DEF Matches, FailedState, States
      <4>2. FailedState(w) = "deleting" => services[workers[w].app].tombstone
        BY <2>0, <2>14, <3>1 DEF FailedState, CleansUp, Matches
      <4> QED BY <4>1, <4>2, FailedRow
    <3> HIDE DEF r
    <3> QED BY <3>1, <3>2, SentinelAssumption, ReleaseStep
  <2>20. ASSUME NEW w \in Workers, Crash(w)
         PROVE  LeaseInv'
    <3> DEFINE r == services[workers[w].app]
    <3>1. Busy(w) /\ workers' = [workers EXCEPT ![w] = Idle] /\ services' = services
      BY <2>20 DEF Crash
    <3>2. r \in Row /\ (r.state = "deleting" => r.tombstone)
      BY <2>0, <2>14, <3>1 DEF Matches
    <3>3. services' = [services EXCEPT ![workers[w].app] = r]
      BY <3>1 DEF TypeOK
    <3>4. \A b \in Apps \ {workers[w].app} : cluster'[b] = cluster[b]
      BY <2>20, CallEffect DEF Crash, LastCallMayHaveReached
    <3> HIDE DEF r
    <3> QED BY <3>1, <3>2, <3>3, <3>4, SentinelAssumption, ReleaseStep
  <2>21. ASSUME NEW a \in Apps, NEW k \in Kinds, Drift(a, k)
         PROVE  LeaseInv'
    BY <2>21, DriftStep
  <2>22. CASE UNCHANGED vars
    BY <2>22, QuietStep DEF vars
  <2> QED
    BY <2>2, <2>4, <2>5, <2>6, <2>7, <2>8, <2>9, <2>10, <2>11, <2>12, <2>13,
       <2>15, <2>16, <2>17, <2>18, <2>19, <2>20, <2>21, <2>22
    DEF Next, Handlers, Work
<1> QED BY <1>1, <1>2, TypeCorrect, PTL DEF Spec

(* Two workers never send calls about one app at the same time.            *)
THEOREM OneWorker ==
  ASSUME NoOverlap
  PROVE  Spec => []OneWorkerPerApp
<1>1. LeaseInv => OneWorkerPerApp
  BY DEF LeaseInv, SoleHolder, OneWorkerPerApp, Touches, Holds
<1> QED BY <1>1, LeaseIsExclusive, PTL

(* No object of an app is left once its row is gone.                       *)
THEOREM NoOrphans ==
  ASSUME NoOverlap
  PROVE  Spec => []TombstoneUntilClean
<1>1. LeaseInv => TombstoneUntilClean
  BY DEF LeaseInv
<1> QED BY <1>1, LeaseIsExclusive, PTL

(* Nothing takes back a version that was handed out.                       *)
LEMMA VersionsGrow ==
  ASSUME TypeOK, TypeOK', [Next]_vars, NEW a \in Apps
  PROVE  version'[a] \in Nat /\ version[a] \in Nat /\ version'[a] >= version[a]
<1>1. version[a] \in Nat /\ version'[a] \in Nat
  BY BoundsAssumption DEF TypeOK, Version
<1>2. version' = version \/ \E b \in Apps : NewVersion(b)
  BY DEF Next, Handlers, Work, vars, CreateApp, UpdateApp, DeleteApp,
         RedeployApp, FindService, ReplaceEnv, StoreEnvVar,
         EnqueueEnvReconciliation, ReadDeployment, RefreshAppStatus,
         RequestDies, BecomesDue, LeaseExpires, ClaimNext, LoadRow, LoadEnv,
         Call, FinishApply, FinishDelete, RecordFailure, CallFails, Crash,
         Drift
<1>3. CASE version' = version
  BY <1>1, <1>3
<1>4. ASSUME NEW b \in Apps, NewVersion(b)
      PROVE  version'[a] >= version[a]
  <2>1. version \in [Apps -> Version]
    BY DEF TypeOK
  <2>2. version'[a] = IF a = b THEN version[a] + 1 ELSE version[a]
    BY <1>4, <2>1 DEF NewVersion
  <2> QED BY <1>1, <2>2
<1> QED BY <1>1, <1>2, <1>3, <1>4

-----------------------------------------------------------------------------
(* Removal is final, whatever happens: no exclusion of workers is needed.  *)

(* A row in state deleting has a tombstone, and so has a row that a worker *)
(* deletes; ids never come back.                                           *)
TombstoneInv ==
  /\ \A a \in Apps : Exists(a) =>
       /\ services[a].id <= version[a]
       /\ services[a].state = "deleting" => services[a].tombstone
  /\ \A w \in Workers : Busy(w) =>
       /\ workers[w].id <= version[workers[w].app]
       /\ workers[w].deleting /\ Matches(w) => services[workers[w].app].tombstone

(* What any step may do to a row that stays: its id and its tombstone stay *)
(* too, and only an apply under way takes it out of state deleting.        *)
RowKept(a, r) ==
  /\ r.id = services[a].id
  /\ services[a].tombstone => r.tombstone
  /\ r.state = "deleting" => r.tombstone
  /\ /\ services[a].state = "deleting"
     /\ \A w \in Workers : Holds(w, a) => workers[w].deleting
     => r.state = "deleting"

LEMMA RowChange ==
  ASSUME TypeOK, TypeOK', TombstoneInv, [Next]_vars,
         NEW a \in Apps, Exists(a), Exists(a)'
  PROVE  RowKept(a, services'[a])
<1>1. /\ services[a] \in Row /\ services'[a] \in Row
      /\ services[a].state = "deleting" => services[a].tombstone
  BY DEF TypeOK, Exists, TombstoneInv
<1>2. RowKept(a, services[a])
  BY <1>1 DEF RowKept
<1>3. ASSUME UNCHANGED services
      PROVE  RowKept(a, services'[a])
  BY <1>2, <1>3
<1>4. ASSUME NEW b \in Apps, NEW r,
             services' = [services EXCEPT ![b] = r],
             b = a => RowKept(a, r)
      PROVE  RowKept(a, services'[a])
  BY <1>2, <1>4 DEF TypeOK
<1>5. \A b \in Apps : NewVersion(b) => version'[b] \in Version
  BY DEF TypeOK
<1>6. ASSUME NEW r \in Row, RowKept(a, r), r.tombstone = services[a].tombstone
      PROVE  RowKept(a, Enqueue(r))
  <2>1. CASE r.tombstone
    BY <1>6, <2>1, EnqueueRow
  <2>2. CASE ~r.tombstone
    <3>1. Enqueue(r).state = "pending" /\ Enqueue(r).id = r.id
      BY <2>2, EnqueueRow DEF Enqueue, Row
    <3> QED BY <1>1, <1>6, <2>2, <3>1 DEF RowKept
  <2> QED BY <2>1, <2>2
<1>7. ASSUME NEW v \in Version
      PROVE  /\ Stored(services[a], v) \in Row
             /\ Stored(services[a], v).tombstone = services[a].tombstone
             /\ RowKept(a, Stored(services[a], v))
  BY <1>1, <1>2, <1>7, StoredRow DEF RowKept
<1>8. ASSUME NEW b \in Apps, CreateApp(b)
      PROVE  RowKept(a, services'[a])
  <2>1. a # b
    BY <1>8 DEF CreateApp
  <2>2. services'[a] = services[a]
    BY <1>8, <2>1 DEF CreateApp, TypeOK
  <2> QED BY <1>2, <2>2
<1>9. ASSUME NEW b \in Apps, UpdateApp(b) \/ (ReplaceEnv(b) /\ StillThere(b))
      PROVE  RowKept(a, services'[a])
  <2>1. /\ services' = [services EXCEPT ![b] = Enqueue(Stored(services[b], version'[b]))]
        /\ NewVersion(b)
    BY <1>9 DEF UpdateApp, ReplaceEnv
  <2>2. b = a => RowKept(a, Enqueue(Stored(services[a], version'[a])))
    BY <1>5, <1>6, <1>7, <2>1
  <2> QED BY <1>4, <2>1, <2>2
<1>10. ASSUME NEW b \in Apps, StoreEnvVar(b), StillThere(b)
       PROVE  RowKept(a, services'[a])
  <2>1. /\ services' = [services EXCEPT ![b] = Stored(services[b], version'[b])]
        /\ NewVersion(b)
    BY <1>10 DEF StoreEnvVar
  <2>2. b = a => RowKept(a, Stored(services[a], version'[a]))
    BY <1>5, <1>7, <2>1
  <2> QED BY <1>4, <2>1, <2>2
<1>11. ASSUME NEW b \in Apps, EnqueueEnvReconciliation(b), StillThere(b)
       PROVE  RowKept(a, services'[a])
  <2>1. services' = [services EXCEPT ![b] = Enqueue(services[b])]
    BY <1>11 DEF EnqueueEnvReconciliation
  <2>2. RowKept(a, Enqueue(services[a]))
    BY <1>1, <1>2, <1>6
  <2> QED BY <1>4, <2>1, <2>2
<1>12. ASSUME NEW b \in Apps, DeleteApp(b)
       PROVE  RowKept(a, services'[a])
  <2>1. services' = [services EXCEPT ![b] = Deleted(services[b])]
    BY <1>12 DEF DeleteApp
  <2>2. RowKept(a, Deleted(services[a]))
    BY <1>1, DeletedRow DEF RowKept
  <2> QED BY <1>4, <2>1, <2>2
<1>13. ASSUME NEW b \in Apps, RedeployApp(b)
       PROVE  RowKept(a, services'[a])
  <2>1. services' = [services EXCEPT ![b] = Redeployed(services[b])] /\ Live(b)
    BY <1>13 DEF RedeployApp
  <2>2. b = a => RowKept(a, Redeployed(services[a]))
    <3>1. Redeployed(services[a]).state = "pending"
      BY <1>1 DEF Redeployed, Row
    <3> QED BY <1>1, <2>1, <3>1, RedeployedRow DEF RowKept, Live
  <2> QED BY <1>4, <2>1, <2>2
<1>14. ASSUME NEW b \in Apps,
              RefreshAppStatus(b) \/ BecomesDue(b) \/ LeaseExpires(b)
       PROVE  RowKept(a, services'[a])
  <2> DEFINE ready == [services[b] EXCEPT !.state = "ready"]
             due == [services[b] EXCEPT !.due = TRUE]
             free == [services[b] EXCEPT !.leased = FALSE]
  <2>1. \/ UNCHANGED services
        \/ /\ services' = [services EXCEPT ![b] = ready]
           /\ services[b].state = "reconciling"
        \/ services' = [services EXCEPT ![b] = due]
        \/ services' = [services EXCEPT ![b] = free]
    BY <1>14 DEF RefreshAppStatus, BecomesDue, LeaseExpires
  <2>2. b = a => /\ services[b].state = "reconciling" => RowKept(a, ready)
                 /\ RowKept(a, due)
                 /\ RowKept(a, free)
    BY <1>1 DEF RowKept, Row
  <2> HIDE DEF ready, due, free
  <2> QED BY <1>3, <1>4, <2>1, <2>2
<1>15. ASSUME NEW w \in Workers, NEW b \in Apps, ClaimNext(w, b)
       PROVE  RowKept(a, services'[a])
  <2>1. services' = [services EXCEPT ![b] = Leased(services[b])]
    BY <1>15 DEF ClaimNext
  <2>2. RowKept(a, Leased(services[a]))
    <3>1. Leased(services[a]).state = "deleting" => services[a].state = "deleting"
      BY <1>1 DEF Leased, Row
    <3> QED BY <1>1, <3>1, LeasedRow DEF RowKept
  <2> QED BY <1>4, <2>1, <2>2
<1>16. ASSUME NEW w \in Workers,
              FinishApply(w) \/ FinishDelete(w) \/ RecordFailure(w)
       PROVE  RowKept(a, services'[a])
  <2> DEFINE b == workers[w].app
  <2>1. Busy(w) /\ b \in Apps /\ workers[w].generation \in Generation
    BY <1>16, ItemType DEF FinishApply, FinishDelete, RecordFailure
  <2>2. CASE UNCHANGED services
    BY <1>3, <2>2
  <2>3. CASE FinishApply(w) /\ ~UNCHANGED services
    <3>1. /\ services' = [services EXCEPT ![b] =
                            Reconciled(services[b], workers[w].generation)]
          /\ ~workers[w].deleting
      BY <2>3 DEF FinishApply
    <3>2. b = a => RowKept(a, Reconciled(services[a], workers[w].generation))
      <4>1. Reconciled(services[a], workers[w].generation).tombstone
              = services[a].tombstone
        BY <1>1 DEF Reconciled, Row
      <4> QED BY <1>1, <2>1, <3>1, <4>1, ReconciledRow DEF RowKept, Holds
    <3> QED BY <1>4, <2>1, <3>1, <3>2
  <2>4. CASE FinishDelete(w) /\ ~UNCHANGED services
    <3>1. services' = [services EXCEPT ![b] = NoRow]
      BY <2>4 DEF FinishDelete
    <3>2. b # a
      BY <3>1 DEF Exists, TypeOK
    <3> QED BY <1>4, <2>1, <3>1, <3>2
  <2>5. CASE RecordFailure(w) /\ ~UNCHANGED services
    <3>1. /\ services' = [services EXCEPT ![b] =
                            Failed(services[b], FailedState(w))]
          /\ Matches(w)
      BY <2>5 DEF RecordFailure
    <3>2. /\ FailedState(w) \in States
          /\ FailedState(w) = "deleting" => workers[w].deleting
          /\ workers[w].deleting => FailedState(w) = "deleting"
      BY DEF FailedState, States
    <3>3. b = a => RowKept(a, Failed(services[a], FailedState(w)))
      <4>1. b = a /\ FailedState(w) = "deleting" => services[a].tombstone
        BY <2>1, <3>1, <3>2 DEF TombstoneInv
      <4> QED BY <1>1, <2>1, <3>2, <4>1, FailedRow DEF RowKept, Holds
    <3> QED BY <1>4, <2>1, <3>1, <3>3
  <2> QED BY <1>16, <2>2, <2>3, <2>4, <2>5
<1>17. ASSUME NEW w \in Workers,
              LoadRow(w) \/ LoadEnv(w) \/ Call(w) \/ CallFails(w) \/ Crash(w)
       PROVE  RowKept(a, services'[a])
  BY <1>3, <1>17 DEF LoadRow, LoadEnv, Call, CallFails, Crash
<1>18. ASSUME NEW b \in Apps,
              \/ FindService(b) \/ ReadDeployment(b) \/ RequestDies(b)
              \/ /\ ReplaceEnv(b) \/ StoreEnvVar(b) \/ EnqueueEnvReconciliation(b)
                 /\ ~StillThere(b)
       PROVE  RowKept(a, services'[a])
  BY <1>3, <1>18 DEF FindService, ReadDeployment, RequestDies, ReplaceEnv,
                     StoreEnvVar, EnqueueEnvReconciliation
<1>19. ASSUME NEW b \in Apps, NEW k \in Kinds, Drift(b, k)
       PROVE  RowKept(a, services'[a])
  BY <1>3, <1>19 DEF Drift
<1>20. CASE UNCHANGED vars
  BY <1>3, <1>20 DEF vars
<1> QED
  BY <1>8, <1>9, <1>10, <1>11, <1>12, <1>13, <1>14, <1>15, <1>16, <1>17, <1>18,
     <1>19, <1>20
  DEF Next, Handlers, Work

(* A row in state deleting stays in it until it is gone, unless an apply   *)
(* was under way: in every system, redeploys and stalls included.          *)
THEOREM RemovalEnds == Spec => RemovalIsFinal
<1>1. Init => TombstoneInv
  BY DEF Init, TombstoneInv, Busy, Exists
<1>2. ASSUME TypeOK, TypeOK', TombstoneInv, [Next]_vars
      PROVE  TombstoneInv'
  <2>1. ASSUME NEW a \in Apps
        PROVE  version'[a] \in Nat /\ version[a] \in Nat /\ version'[a] >= version[a]
    BY <1>2, VersionsGrow
  <2>2. ASSUME NEW a \in Apps, Exists(a)', ~Exists(a)
        PROVE  /\ services'[a].id = version'[a] /\ version'[a] = version[a] + 1
               /\ services'[a].state = "pending"
    <3>1. ~UNCHANGED services
      BY <2>2 DEF Exists
    <3>2. ASSUME NEW b \in Apps, Exists(b), NEW r,
                 services' = [services EXCEPT ![b] = r]
          PROVE  FALSE
      BY <1>2, <2>2, <3>2 DEF Exists, TypeOK
    <3>3. ASSUME NEW b \in Apps,
                 \/ UpdateApp(b) \/ DeleteApp(b) \/ RedeployApp(b)
                 \/ ReplaceEnv(b) \/ StoreEnvVar(b) \/ EnqueueEnvReconciliation(b)
          PROVE  FALSE
      BY <3>1, <3>2, <3>3
      DEF UpdateApp, DeleteApp, RedeployApp, Live, ReplaceEnv, StoreEnvVar,
          EnqueueEnvReconciliation, StillThere
    <3>4. ASSUME NEW b \in Apps,
                 \/ RefreshAppStatus(b) \/ BecomesDue(b) \/ LeaseExpires(b)
                 \/ \E w \in Workers : ClaimNext(w, b)
          PROVE  FALSE
      <4>1. Exists(b) /\ \E r : services' = [services EXCEPT ![b] = r]
        BY <3>1, <3>4 DEF RefreshAppStatus, BecomesDue, LeaseExpires, ClaimNext
      <4> QED BY <3>2, <4>1
    <3>5. ASSUME NEW w \in Workers,
                 FinishApply(w) \/ FinishDelete(w) \/ RecordFailure(w)
          PROVE  FALSE
      <4>1. workers[w].app \in Apps
        BY <1>2, <3>5, ItemType DEF FinishApply, FinishDelete, RecordFailure
      <4>2. /\ Exists(workers[w].app)
            /\ \E r : services' = [services EXCEPT ![workers[w].app] = r]
        BY <3>1, <3>5 DEF FinishApply, FinishDelete, RecordFailure, Matches
      <4> QED BY <3>2, <4>1, <4>2
    <3>6. \E b \in Apps : CreateApp(b)
      BY <1>2, <3>1, <3>3, <3>4, <3>5
      DEF Next, Handlers, Work, vars, FindService, ReadDeployment, RequestDies,
          LoadRow, LoadEnv, Call, CallFails, Crash, Drift
    <3>7. CreateApp(a)
      BY <1>2, <2>2, <3>6 DEF CreateApp, Exists, TypeOK
    <3> QED BY <1>2, <3>7 DEF CreateApp, NewVersion, TypeOK
  <2>3. ASSUME NEW w \in Workers, Busy(w)'
        PROVE  \/ /\ Busy(w) /\ workers'[w].app = workers[w].app
                  /\ workers'[w].id = workers[w].id
                  /\ workers'[w].deleting = workers[w].deleting
               \/ \E a \in Apps : /\ ClaimNext(w, a)
                                  /\ workers'[w] = ItemOf(a, services[a])
    <3>1. CASE workers' = workers
      BY <2>3, <3>1 DEF Busy
    <3>2. ASSUME NEW v \in Workers, NEW a \in Apps, ClaimNext(v, a)
          PROVE  \/ workers'[w] = workers[w]
                 \/ ClaimNext(w, a) /\ workers'[w] = ItemOf(a, services[a])
      BY <1>2, <3>2 DEF ClaimNext, TypeOK
    <3>3. ASSUME NEW v \in Workers,
                 LoadRow(v) \/ LoadEnv(v) \/ Call(v) \/ CallFails(v)
          PROVE  \/ workers'[w] = workers[w]
                 \/ /\ Busy(w) /\ workers'[w].app = workers[w].app
                    /\ workers'[w].id = workers[w].id
                    /\ workers'[w].deleting = workers[w].deleting
      <4>1. PICK item \in WorkItem :
              /\ workers' = [workers EXCEPT ![v] = item]
              /\ item.app = workers[v].app /\ item.id = workers[v].id
              /\ item.deleting = workers[v].deleting
        BY <1>2, <3>3, LoadItem, CallItem
      <4>2. Busy(v)
        BY <3>3 DEF LoadRow, LoadEnv, Call, Calls, CallFails
      <4> QED BY <1>2, <4>1, <4>2 DEF TypeOK
    <3>4. ASSUME NEW v \in Workers,
                 FinishApply(v) \/ FinishDelete(v) \/ RecordFailure(v) \/ Crash(v)
          PROVE  workers'[w] = workers[w]
      BY <1>2, <2>3, <3>4
      DEF FinishApply, FinishDelete, RecordFailure, Crash, Busy, TypeOK
    <3>5. \/ workers' = workers
          \/ \E v \in Workers, a \in Apps : ClaimNext(v, a)
          \/ \E v \in Workers :
               LoadRow(v) \/ LoadEnv(v) \/ Call(v) \/ CallFails(v)
          \/ \E v \in Workers :
               FinishApply(v) \/ FinishDelete(v) \/ RecordFailure(v) \/ Crash(v)
      BY <1>2
      DEF Next, Handlers, Work, vars, CreateApp, UpdateApp, DeleteApp,
          RedeployApp, FindService, ReplaceEnv, StoreEnvVar,
          EnqueueEnvReconciliation, ReadDeployment, RefreshAppStatus,
          RequestDies, BecomesDue, LeaseExpires, Drift
    <3> QED BY <2>3, <3>1, <3>2, <3>3, <3>4, <3>5 DEF Busy
  <2>4. ASSUME NEW a \in Apps, Exists(a)'
        PROVE  /\ services'[a].id <= version'[a]
               /\ services'[a].state = "deleting" => services'[a].tombstone
    <3>1. CASE Exists(a)
      <4>1. RowKept(a, services'[a])
        BY <1>2, <2>4, <3>1, RowChange
      <4>2. services[a].id \in Nat
        BY <1>2, <3>1, BoundsAssumption DEF TypeOK, Row, Version, Exists
      <4> QED BY <1>2, <2>1, <3>1, <4>1, <4>2 DEF TombstoneInv, RowKept
    <3>2. CASE ~Exists(a)
      BY <2>1, <2>2, <2>4, <3>2
    <3> QED BY <3>1, <3>2
  <2>5. ASSUME NEW w \in Workers, Busy(w)'
        PROVE  /\ workers'[w].id <= version'[workers'[w].app]
               /\ workers'[w].deleting /\ Matches(w)'
                    => services'[workers'[w].app].tombstone
    <3>1. CASE /\ Busy(w) /\ workers'[w].app = workers[w].app
               /\ workers'[w].id = workers[w].id
               /\ workers'[w].deleting = workers[w].deleting
      <4>0. PICK a \in Apps : a = workers[w].app
        BY <1>2, <3>1, ItemType
      <4>1. /\ workers[w].id \in Nat
            /\ workers[w].id <= version[a]
            /\ workers[w].deleting /\ Matches(w) => services[a].tombstone
        BY <1>2, <3>1, <4>0, ItemType, BoundsAssumption
        DEF TombstoneInv, WorkItem, Version
      <4>2. workers'[w].id <= version'[workers'[w].app]
        BY <2>1, <3>1, <4>0, <4>1
      <4>3. ASSUME workers'[w].deleting, Matches(w)'
            PROVE  services'[a].tombstone
        <5>1. Exists(a)' /\ services'[a].id = workers[w].id
          BY <3>1, <4>0, <4>3 DEF Matches, Exists
        <5>2. Exists(a)
          BY <2>1, <2>2, <4>1, <5>1
        <5>3. RowKept(a, services'[a])
          BY <1>2, <5>1, <5>2, RowChange
        <5> QED BY <3>1, <4>0, <4>1, <4>3, <5>1, <5>2, <5>3 DEF RowKept, Matches
      <4> QED BY <3>1, <4>0, <4>2, <4>3
    <3>2. ASSUME NEW a \in Apps, ClaimNext(w, a),
                 workers'[w] = ItemOf(a, services[a])
          PROVE  /\ workers'[w].id <= version'[workers'[w].app]
                 /\ workers'[w].deleting /\ Matches(w)'
                      => services'[workers'[w].app].tombstone
      <4>1. /\ Exists(a) /\ services[a] \in Row
            /\ services'[a] = Leased(services[a])
        BY <1>2, <3>2 DEF ClaimNext, TypeOK, Exists
      <4>2. ItemOf(a, services[a]).deleting = (services[a].state = "deleting")
        BY Zenon DEF ItemOf
      <4>3. /\ workers'[w].app = a /\ workers'[w].id = services[a].id
            /\ version' = version
        BY <3>2 DEF ItemOf, ClaimNext
      <4>4. services[a].state = "deleting" => services'[a].tombstone
        BY <1>2, <4>1, LeasedRow DEF TombstoneInv
      <4>5. workers'[w].deleting => services'[a].tombstone
        BY <3>2, <4>2, <4>4
      <4> QED BY <1>2, <4>1, <4>3, <4>5 DEF TombstoneInv
    <3> QED BY <2>3, <2>5, <3>1, <3>2
  <2> QED BY <2>4, <2>5 DEF TombstoneInv
<1>3. ASSUME TypeOK, TypeOK', TombstoneInv, [Next]_vars, NEW a \in Apps,
             Exists(a), services[a].state = "deleting",
             \A w \in Workers : Holds(w, a) => workers[w].deleting,
             Exists(a)'
      PROVE  services'[a].state = "deleting"
  BY <1>3, RowChange DEF RowKept
<1>4. TypeOK /\ TypeOK' /\ TombstoneInv /\ [Next]_vars =>
        [\A a \in Apps :
           /\ Exists(a) /\ services[a].state = "deleting"
           /\ \A w \in Workers : Holds(w, a) => workers[w].deleting
           => ~Exists(a)' \/ services'[a].state = "deleting"]_vars
  BY <1>3
<1> QED BY <1>1, <1>2, <1>4, TypeCorrect, PTL DEF Spec, RemovalIsFinal

-----------------------------------------------------------------------------
(* Generations and versions.  A statement of a handler, or the passing of  *)
(* time, as far as they see it.                                            *)
Rewrites(a) ==
  /\ Exists(a)
  /\ UNCHANGED <<workers, cluster>>
  /\ \E r \in Row :
       /\ services' = [services EXCEPT ![a] = r]
       /\ r.reconciled = services[a].reconciled
       /\ \/ r.desired = services[a].desired /\ r.covered = services[a].covered
          \/ r.desired = services[a].desired + 1 /\ r.covered = r.spec
       /\ r.spec = services[a].spec \/ (r.spec = version'[a] /\ r.spec > version[a])
       /\ services[a].state = "deleting" => r.state = "deleting"
       /\ r.desired # services[a].desired => ~services[a].tombstone
       /\ \/ /\ r.tombstone = services[a].tombstone
             /\ r.state = "deleting" => services[a].state = "deleting"
          \/ /\ r.tombstone /\ r.state = "deleting"
             /\ r.spec = services[a].spec /\ r.desired = services[a].desired

(* What the statements that write a row make of its numbers.               *)
LEMMA EnqueueProgress ==
  ASSUME NEW r \in Row
  PROVE  /\ Enqueue(r).reconciled = r.reconciled
         /\ Enqueue(r).spec = r.spec
         /\ \/ Enqueue(r).desired = r.desired /\ Enqueue(r).covered = r.covered
            \/ Enqueue(r).desired = r.desired + 1 /\ Enqueue(r).covered = r.spec
         /\ r.state = "deleting" /\ r.tombstone => Enqueue(r).state = "deleting"
         /\ Enqueue(r).desired # r.desired => ~r.tombstone
         /\ Enqueue(r).tombstone = r.tombstone
         /\ Enqueue(r).state = "deleting" => r.state = "deleting"
<1>1. CASE r.tombstone
  BY <1>1 DEF Enqueue
<1>2. CASE ~r.tombstone
  <2>1. Enqueue(r) = [r EXCEPT !.desired = r.desired + 1, !.covered = r.spec,
                               !.state = "pending", !.due = TRUE]
    BY <1>2 DEF Enqueue
  <2> QED BY <1>2, <2>1 DEF Row
<1> QED BY <1>1, <1>2

LEMMA StoredProgress ==
  ASSUME NEW r \in Row, NEW v \in Version
  PROVE  /\ Stored(r, v).reconciled = r.reconciled
         /\ Stored(r, v).desired = r.desired
         /\ Stored(r, v).covered = r.covered
         /\ Stored(r, v).spec = v
BY DEF Stored, Row

LEMMA ReconciledProgress ==
  ASSUME NEW r \in Row, NEW g \in Generation
  PROVE  /\ Reconciled(r, g).reconciled = g
         /\ Reconciled(r, g).desired = r.desired
         /\ Reconciled(r, g).covered = r.covered
         /\ Reconciled(r, g).spec = r.spec
         /\ Reconciled(r, g).tombstone = r.tombstone
         /\ Reconciled(r, g).state # "deleting"
BY DEF Reconciled, Row

(* Without redeploys, handlers and time only create and rewrite rows.       *)
LEMMA HandlersRewrite ==
  ASSUME TypeOK, TypeOK', LeaseInv, NoOverlap, NEW a \in Apps,
         Handlers(a) \/ BecomesDue(a) \/ LeaseExpires(a)
  PROVE  \/ UNCHANGED <<services, workers, cluster, version>>
         \/ CreateApp(a)
         \/ Rewrites(a)
<1>0. Exists(a) => /\ services[a] \in Row
                   /\ services[a].state = "deleting" => services[a].tombstone
  BY DEF TypeOK, Exists, LeaseInv
<1>1. NewVersion(a) => /\ version'[a] \in Version /\ version[a] \in Version
                       /\ version'[a] > version[a]
  BY BoundsAssumption DEF NewVersion, TypeOK, Version
<1>2. ASSUME Exists(a), NEW s \in Row,
             s.reconciled = services[a].reconciled,
             s.desired = services[a].desired, s.covered = services[a].covered,
             s.spec = services[a].spec \/ (s.spec = version'[a] /\ s.spec > version[a]),
             s.state = services[a].state, s.tombstone = services[a].tombstone,
             services' = [services EXCEPT ![a] = Enqueue(s)],
             UNCHANGED <<workers, cluster>>
      PROVE  Rewrites(a)
  <2> DEFINE r == Enqueue(s)
  <2>1. /\ r \in Row /\ services' = [services EXCEPT ![a] = r]
        /\ r.reconciled = s.reconciled /\ r.spec = s.spec
        /\ \/ r.desired = s.desired /\ r.covered = s.covered
           \/ r.desired = s.desired + 1 /\ r.covered = r.spec
        /\ s.state = "deleting" => r.state = "deleting"
        /\ r.desired # s.desired => ~s.tombstone
        /\ r.tombstone = s.tombstone
        /\ r.state = "deleting" => s.state = "deleting"
    BY <1>0, <1>2, EnqueueRow, EnqueueProgress
  <2> HIDE DEF r
  <2> QED BY <1>2, <2>1 DEF Rewrites
<1>3. ASSUME NewVersion(a), Exists(a)
      PROVE  LET s == Stored(services[a], version'[a]) IN
             /\ s \in Row
             /\ s.reconciled = services[a].reconciled
             /\ s.desired = services[a].desired /\ s.covered = services[a].covered
             /\ s.spec = version'[a] /\ s.spec > version[a]
             /\ s.state = services[a].state /\ s.tombstone = services[a].tombstone
  BY <1>0, <1>1, <1>3, StoredRow, StoredProgress
<1>4. ASSUME UpdateApp(a) \/ (ReplaceEnv(a) /\ StillThere(a))
      PROVE  Rewrites(a)
  <2> DEFINE s == Stored(services[a], version'[a])
  <2>1. /\ Exists(a) /\ NewVersion(a) /\ UNCHANGED <<workers, cluster>>
        /\ services' = [services EXCEPT ![a] = Enqueue(s)]
    BY <1>4 DEF UpdateApp, Live, ReplaceEnv, StillThere
  <2> QED BY <1>2, <1>3, <2>1
<1>5. ASSUME StoreEnvVar(a), StillThere(a)
      PROVE  Rewrites(a)
  <2> DEFINE s == Stored(services[a], version'[a])
  <2>1. /\ Exists(a) /\ NewVersion(a) /\ UNCHANGED <<workers, cluster>>
        /\ services' = [services EXCEPT ![a] = s]
    BY <1>5 DEF StoreEnvVar, StillThere
  <2>2. /\ s \in Row
        /\ s.reconciled = services[a].reconciled
        /\ s.desired = services[a].desired /\ s.covered = services[a].covered
        /\ s.spec = version'[a] /\ s.spec > version[a]
        /\ s.state = services[a].state /\ s.tombstone = services[a].tombstone
    BY <1>3, <2>1
  <2> HIDE DEF s
  <2> QED BY <2>1, <2>2 DEF Rewrites
<1>6. ASSUME EnqueueEnvReconciliation(a), StillThere(a)
      PROVE  Rewrites(a)
  <2>1. /\ Exists(a) /\ UNCHANGED <<workers, cluster>>
        /\ services' = [services EXCEPT ![a] = Enqueue(services[a])]
    BY <1>6 DEF EnqueueEnvReconciliation, StillThere
  <2> QED BY <1>0, <1>2, <2>1
<1>7. ASSUME NEW r, r \in Row, Exists(a),
             services' = [services EXCEPT ![a] = r], UNCHANGED <<workers, cluster>>,
             r.reconciled = services[a].reconciled,
             r.desired = services[a].desired, r.covered = services[a].covered,
             r.spec = services[a].spec,
             services[a].state = "deleting" => r.state = "deleting",
             \/ /\ r.tombstone = services[a].tombstone
                /\ r.state = "deleting" => services[a].state = "deleting"
             \/ r.tombstone /\ r.state = "deleting"
      PROVE  Rewrites(a)
  BY <1>7 DEF Rewrites
<1>8. CASE DeleteApp(a)
  <2> DEFINE r == Deleted(services[a])
  <2>1. /\ Exists(a) /\ services' = [services EXCEPT ![a] = r]
        /\ UNCHANGED <<workers, cluster>>
    BY <1>8 DEF DeleteApp
  <2>2. /\ r.reconciled = services[a].reconciled
        /\ r.desired = services[a].desired /\ r.covered = services[a].covered
        /\ r.spec = services[a].spec
    BY <1>0, <2>1 DEF Deleted, Row
  <2>3. r \in Row /\ r.state = "deleting" /\ r.tombstone
    BY <1>0, <2>1, DeletedRow
  <2> HIDE DEF r
  <2> QED BY <1>7, <2>1, <2>2, <2>3
<1>9. CASE RefreshAppStatus(a)
  <2> DEFINE r == [services[a] EXCEPT !.state = "ready"]
  <2>1. CASE Exists(a) /\ services[a].state = "reconciling"
    <3>1. services' = [services EXCEPT ![a] = r] /\ UNCHANGED <<workers, cluster>>
      BY <1>9, <2>1 DEF RefreshAppStatus
    <3>2. /\ r \in Row
          /\ r.reconciled = services[a].reconciled
          /\ r.desired = services[a].desired /\ r.covered = services[a].covered
          /\ r.spec = services[a].spec /\ r.tombstone = services[a].tombstone
          /\ r.state # "deleting"
      BY <1>0, <2>1 DEF Row, States
    <3> HIDE DEF r
    <3> QED BY <1>7, <2>1, <3>1, <3>2
  <2>2. CASE ~(Exists(a) /\ services[a].state = "reconciling")
    BY <1>9, <2>2 DEF RefreshAppStatus
  <2> QED BY <2>1, <2>2
<1>10. CASE BecomesDue(a) \/ LeaseExpires(a)
  <2> DEFINE due == [services[a] EXCEPT !.due = TRUE]
             free == [services[a] EXCEPT !.leased = FALSE]
  <2>1. /\ Exists(a) /\ UNCHANGED <<workers, cluster>>
        /\ \/ services' = [services EXCEPT ![a] = due]
           \/ services' = [services EXCEPT ![a] = free]
    BY <1>10 DEF BecomesDue, LeaseExpires
  <2>2. \A r \in {due, free} :
          /\ r \in Row
          /\ r.reconciled = services[a].reconciled
          /\ r.desired = services[a].desired /\ r.covered = services[a].covered
          /\ r.spec = services[a].spec
          /\ r.state = services[a].state /\ r.tombstone = services[a].tombstone
    BY <1>0, <2>1 DEF Row
  <2> HIDE DEF due, free
  <2> QED BY <1>7, <2>1, <2>2
<1>11. CASE \/ FindService(a) \/ ReadDeployment(a) \/ RequestDies(a)
            \/ /\ ReplaceEnv(a) \/ StoreEnvVar(a) \/ EnqueueEnvReconciliation(a)
               /\ ~StillThere(a)
  BY <1>11 DEF FindService, ReadDeployment, RequestDies, ReplaceEnv, StoreEnvVar,
               EnqueueEnvReconciliation
<1>12. ~RedeployApp(a)
  BY DEF RedeployApp, NoOverlap
<1> QED
  BY <1>4, <1>5, <1>6, <1>8, <1>9, <1>10, <1>11, <1>12 DEF Handlers

-----------------------------------------------------------------------------
(* The step of a worker that goes on with its item: app, id, generation    *)
(* and kind of work stay, and the rest says how far it came.               *)
Proceeds(w, item) ==
  /\ workers' = [workers EXCEPT ![w] = item]
  /\ item.app = workers[w].app /\ item.id = workers[w].id
  /\ item.generation = workers[w].generation
  /\ item.deleting = workers[w].deleting
  /\ \/ /\ LoadRow(w) /\ Exists(item.app)
        /\ item.pc = "loadEnv" /\ item.todo = workers[w].todo
        /\ item.row = services[item.app].spec
     \/ /\ LoadEnv(w)
        /\ item.pc = "apply" /\ item.todo = workers[w].todo
        /\ item.row = workers[w].row
        /\ Exists(item.app) => item.env = services[item.app].spec
     \/ /\ Call(w)
        /\ item.pc \in {workers[w].pc, "finish"}
        /\ item.todo = workers[w].todo \ {Target(w)}
        /\ item.row = workers[w].row /\ item.env = workers[w].env
     \/ item.pc = "fail"

(* Each step of a worker at work is one.                                   *)
LEMMA ProceedsItem ==
  ASSUME TypeOK, NEW w \in Workers,
         LoadRow(w) \/ LoadEnv(w) \/ Call(w) \/ CallFails(w)
  PROVE  Busy(w) /\ \E item \in WorkItem : Proceeds(w, item)
<1> DEFINE old == workers[w]
           read == IF Exists(old.app) THEN services[old.app].spec ELSE 0
           rest == old.todo \ {Target(w)}
           failed == [old EXCEPT !.pc = "fail"]
<1>1. Busy(w) /\ old \in WorkItem /\ old.app \in Apps
  BY ItemType DEF LoadRow, LoadEnv, Call, Calls, CallFails
<1>2. /\ failed \in WorkItem
      /\ failed.app = old.app /\ failed.id = old.id
      /\ failed.generation = old.generation
      /\ failed.deleting = old.deleting /\ failed.pc = "fail"
  BY <1>1 DEF WorkItem
<1>3. CASE workers' = [workers EXCEPT ![w] = failed]
  BY <1>1, <1>2, <1>3 DEF Proceeds
<1>4. CASE LoadRow(w) /\ Exists(old.app)
  <2> DEFINE item == [old EXCEPT !.pc = "loadEnv", !.row = read]
  <2>1. read \in Version /\ read = services[old.app].spec
    BY <1>1, <1>4, ItemType DEF Row
  <2>2. workers' = [workers EXCEPT ![w] = item]
    BY <1>4 DEF LoadRow
  <2> HIDE DEF read
  <2>3. /\ item \in WorkItem
        /\ item.app = old.app /\ item.id = old.id
        /\ item.generation = old.generation /\ item.deleting = old.deleting
        /\ item.pc = "loadEnv" /\ item.row = read /\ item.todo = old.todo
    BY <1>1, <2>1 DEF WorkItem
  <2> HIDE DEF item
  <2> QED BY <1>1, <1>4, <2>1, <2>2, <2>3 DEF Proceeds
<1>5. CASE LoadEnv(w)
  <2> DEFINE item == [old EXCEPT !.pc = "apply", !.env = read]
  <2>1. /\ read \in Version
        /\ Exists(old.app) => read = services[old.app].spec
    BY <1>1, ItemType, BoundsAssumption DEF Row, Version
  <2>2. workers' = [workers EXCEPT ![w] = item]
    BY <1>5 DEF LoadEnv
  <2> HIDE DEF read
  <2>3. /\ item \in WorkItem
        /\ item.app = old.app /\ item.id = old.id
        /\ item.generation = old.generation /\ item.deleting = old.deleting
        /\ item.pc = "apply" /\ item.env = read /\ item.row = old.row
        /\ item.todo = old.todo
    BY <1>1, <2>1 DEF WorkItem
  <2> HIDE DEF item
  <2> QED BY <1>1, <1>5, <2>1, <2>2, <2>3 DEF Proceeds
<1>6. CASE Call(w)
  <2>1. PICK pc \in {old.pc, "finish"} :
          workers' = [workers EXCEPT ![w] = [old EXCEPT !.todo = rest, !.pc = pc]]
    BY <1>6 DEF Call, Remaining
  <2> DEFINE item == [old EXCEPT !.todo = rest, !.pc = pc]
  <2>2. /\ item \in WorkItem
        /\ item.app = old.app /\ item.id = old.id
        /\ item.generation = old.generation /\ item.deleting = old.deleting
        /\ item.pc = pc /\ item.env = old.env /\ item.row = old.row
        /\ item.todo = rest
    BY <1>1 DEF WorkItem
  <2> HIDE DEF item
  <2> QED BY <1>1, <1>6, <2>1, <2>2 DEF Proceeds, item
<1>7. LoadRow(w) /\ ~Exists(old.app) => workers' = [workers EXCEPT ![w] = failed]
  BY DEF LoadRow
<1>8. CallFails(w) => workers' = [workers EXCEPT ![w] = failed]
  BY DEF CallFails
<1> QED BY <1>3, <1>4, <1>5, <1>6, <1>7, <1>8

(* The step of a worker that lets its item go: it deletes the row, or      *)
(* leaves the numbers alone but for what an apply has reconciled.          *)
Finishes(w, row) ==
  /\ Busy(w)
  /\ workers' = [workers EXCEPT ![w] = Idle]
  /\ services' = [services EXCEPT ![workers[w].app] = row]
  /\ \/ workers[w].deleting /\ row = NoRow
     \/ /\ row \in Row
        /\ row.desired = services[workers[w].app].desired
        /\ row.covered = services[workers[w].app].covered
        /\ row.spec = services[workers[w].app].spec
        /\ row.tombstone = services[workers[w].app].tombstone
        /\ row.state = "deleting" => services[workers[w].app].state = "deleting"
        /\ \/ /\ row.reconciled = services[workers[w].app].reconciled
              /\ services[workers[w].app].state = "deleting" =>
                   row.state = "deleting" \/ ~workers[w].deleting
           \/ /\ FinishApply(w)
              /\ row.reconciled = workers[w].generation

(* Each way to end an item is one.  (A worker that holds its lease finds   *)
(* its row.)                                                               *)
LEMMA FinishesRow ==
  ASSUME TypeOK, LeaseInv, NEW w \in Workers,
         FinishApply(w) \/ FinishDelete(w) \/ RecordFailure(w) \/ Crash(w)
  PROVE  \E row \in Row \cup {NoRow} : Finishes(w, row)
<1> DEFINE a == workers[w].app
           old == services[a]
<1>1. /\ Busy(w) /\ workers' = [workers EXCEPT ![w] = Idle]
      /\ workers[w].generation \in Generation
      /\ old \in Row /\ Matches(w) /\ CleansUp(w) /\ a \in Apps
  BY ItemType
  DEF FinishApply, FinishDelete, RecordFailure, Crash, LeaseInv, SoleHolder, Matches
<1>2. CASE FinishApply(w)
  <2> DEFINE row == Reconciled(old, workers[w].generation)
  <2>1. services' = [services EXCEPT ![a] = row]
    BY <1>1, <1>2 DEF FinishApply
  <2>2. /\ row \in Row
        /\ row.desired = old.desired /\ row.covered = old.covered
        /\ row.spec = old.spec /\ row.reconciled = workers[w].generation
        /\ row.tombstone = old.tombstone /\ row.state # "deleting"
    BY <1>1, ReconciledRow, ReconciledProgress
  <2> HIDE DEF row
  <2> QED BY <1>1, <1>2, <2>1, <2>2 DEF Finishes
<1>3. CASE FinishDelete(w)
  <2>1. services' = [services EXCEPT ![a] = NoRow] /\ workers[w].deleting
    BY <1>1, <1>3 DEF FinishDelete, CleansUp
  <2> QED BY <1>1, <2>1 DEF Finishes
<1>4. CASE RecordFailure(w)
  <2> DEFINE row == Failed(old, FailedState(w))
  <2>1. services' = [services EXCEPT ![a] = row]
    BY <1>1, <1>4 DEF RecordFailure
  <2>2. /\ FailedState(w) \in States
        /\ workers[w].deleting => FailedState(w) = "deleting"
        /\ FailedState(w) = "deleting" => old.state = "deleting"
    BY <1>1 DEF FailedState, States, CleansUp
  <2>3. /\ row \in Row /\ row.state = FailedState(w)
        /\ row.tombstone = old.tombstone
    BY <1>1, <2>2, FailedRow
  <2>4. /\ row.desired = old.desired /\ row.covered = old.covered
        /\ row.spec = old.spec /\ row.reconciled = old.reconciled
    BY <1>1 DEF Failed, Row
  <2> HIDE DEF row
  <2> QED BY <1>1, <2>1, <2>2, <2>3, <2>4 DEF Finishes
<1>5. CASE Crash(w)
  <2>1. services' = [services EXCEPT ![a] = old]
    BY <1>1, <1>5 DEF Crash, TypeOK
  <2> QED BY <1>1, <2>1 DEF Finishes
<1> QED BY <1>2, <1>3, <1>4, <1>5

(* Every step, by what it does to rows, items and objects.                 *)
LEMMA StepShapes ==
  ASSUME TypeOK, TypeOK', LeaseInv, NoOverlap, [Next]_vars
  PROVE  \/ UNCHANGED <<services, workers, cluster, version>>
         \/ \E a \in Apps : CreateApp(a) \/ Rewrites(a)
         \/ \E w \in Workers, a \in Apps : ClaimNext(w, a)
         \/ \E w \in Workers :
              LoadRow(w) \/ LoadEnv(w) \/ Call(w) \/ CallFails(w)
         \/ \E w \in Workers :
              FinishApply(w) \/ FinishDelete(w) \/ RecordFailure(w) \/ Crash(w)
         \/ \E a \in Apps, k \in Kinds : Drift(a, k)
<1>1. CASE UNCHANGED vars
  BY <1>1 DEF vars
<1>2. CASE \E a \in Apps : Handlers(a) \/ BecomesDue(a) \/ LeaseExpires(a)
  BY <1>2, HandlersRewrite
<1>3. CASE \E w \in Workers : Work(w) \/ CallFails(w) \/ Crash(w)
  BY <1>3 DEF Work
<1> QED BY <1>1, <1>2, <1>3 DEF Next

-----------------------------------------------------------------------------
(* Generations: whatever is claimed or recorded as reconciled was asked    *)
(* for, and an item under way is never older than what is recorded.        *)
GenerationInv ==
  /\ \A a \in Apps : Exists(a) => services[a].reconciled <= services[a].desired
  /\ \A w \in Workers : Busy(w) =>
       /\ services[workers[w].app].reconciled <= workers[w].generation
       /\ workers[w].generation <= services[workers[w].app].desired

(* No step moves a row's reconciled generation back.                       *)
Advances ==
  \A a \in Apps : Exists(a) /\ Exists(a)'
    => services'[a].reconciled >= services[a].reconciled

(* One step per shape: who writes a generation writes one it may.          *)
LEMMA GenerationStep ==
  ASSUME TypeOK, TypeOK', LeaseInv, LeaseInv', NoOverlap, GenerationInv,
         [Next]_vars
  PROVE  GenerationInv' /\ Advances
<1>1. ASSUME NEW a \in Apps, Exists(a)
      PROVE  /\ services[a] \in Row
             /\ services[a].reconciled \in Nat /\ services[a].desired \in Nat
             /\ services[a].reconciled <= services[a].desired
  BY <1>1 DEF TypeOK, Exists, Row, Generation, GenerationInv
<1>2. ASSUME NEW w \in Workers, Busy(w)
      PROVE  /\ workers[w].app \in Apps /\ Exists(workers[w].app)
             /\ workers[w].generation \in Nat
             /\ services[workers[w].app].reconciled <= workers[w].generation
             /\ workers[w].generation <= services[workers[w].app].desired
             /\ \A v \in Workers : Holds(v, workers[w].app) => v = w
  BY <1>2, ItemType DEF Generation, GenerationInv, LeaseInv, SoleHolder, Matches
<1>3. CASE UNCHANGED <<services, workers, cluster, version>>
  BY <1>1, <1>3 DEF GenerationInv, Advances, Exists, Busy
<1>4. ASSUME NEW a \in Apps, CreateApp(a)
      PROVE  GenerationInv' /\ Advances
  <2>1. /\ ~Exists(a) /\ workers' = workers
        /\ services'[a].reconciled = 0 /\ services'[a].desired = 1
        /\ \A b \in Apps \ {a} : services'[b] = services[b]
    BY <1>4 DEF CreateApp, TypeOK
  <2>2. \A w \in Workers : Busy(w) => workers[w].app \in Apps \ {a}
    BY <1>2, <2>1
  <2> QED BY <1>1, <1>2, <2>1, <2>2 DEF GenerationInv, Advances, Exists, Busy
<1>5. ASSUME NEW a \in Apps, Rewrites(a)
      PROVE  GenerationInv' /\ Advances
  <2>1. /\ Exists(a) /\ workers' = workers
        /\ services'[a].reconciled = services[a].reconciled
        /\ services'[a].desired \in {services[a].desired, services[a].desired + 1}
        /\ \A b \in Apps \ {a} : services'[b] = services[b]
    BY <1>5 DEF Rewrites, TypeOK
  <2>2. ASSUME NEW w \in Workers, Busy(w)
        PROVE  /\ services'[workers[w].app].reconciled <= workers[w].generation
               /\ workers[w].generation <= services'[workers[w].app].desired
    <3>1. CASE workers[w].app = a
      BY <1>1, <1>2, <2>1, <2>2, <3>1
    <3>2. CASE workers[w].app # a
      BY <1>2, <2>1, <2>2, <3>2
    <3> QED BY <3>1, <3>2
  <2> QED BY <1>1, <2>1, <2>2 DEF GenerationInv, Advances, Exists, Busy
<1>6. ASSUME NEW w \in Workers, NEW a \in Apps, ClaimNext(w, a)
      PROVE  GenerationInv' /\ Advances
  <2>1. /\ Exists(a)
        /\ services' = [services EXCEPT ![a] = Leased(services[a])]
        /\ workers' = [workers EXCEPT ![w] = ItemOf(a, services[a])]
    BY <1>6 DEF ClaimNext
  <2>2. /\ Leased(services[a]).reconciled = services[a].reconciled
        /\ Leased(services[a]).desired = services[a].desired
    BY <1>1, <2>1 DEF Leased, Row
  <2>3. /\ ItemOf(a, services[a]).app = a
        /\ ItemOf(a, services[a]).generation = services[a].desired
    BY DEF ItemOf
  <2>4. \A b \in Apps : /\ Exists(b)' => Exists(b)
                        /\ Exists(b) => /\ services'[b].reconciled = services[b].reconciled
                                        /\ services'[b].desired = services[b].desired
    BY <2>1, <2>2 DEF TypeOK, Exists
  <2>5. ASSUME NEW v \in Workers, Busy(v)'
        PROVE  /\ services'[workers'[v].app].reconciled <= workers'[v].generation
               /\ workers'[v].generation <= services'[workers'[v].app].desired
    <3>1. CASE v = w
      BY <1>1, <2>1, <2>3, <2>4, <3>1 DEF TypeOK
    <3>2. CASE v # w
      BY <1>2, <2>1, <2>4, <2>5, <3>2 DEF TypeOK, Busy
    <3> QED BY <3>1, <3>2
  <2>6. \A b \in Apps : Exists(b)' => services'[b].reconciled <= services'[b].desired
    BY <1>1, <2>4
  <2>7. Advances
    BY <1>1, <2>4 DEF Advances
  <2> QED BY <2>5, <2>6, <2>7 DEF GenerationInv
<1>7. ASSUME NEW w \in Workers, LoadRow(w) \/ LoadEnv(w) \/ Call(w) \/ CallFails(w)
      PROVE  GenerationInv' /\ Advances
  <2>1. PICK item \in WorkItem : Proceeds(w, item)
    BY <1>7, ProceedsItem
  <2>2. /\ Busy(w) /\ services' = services
        /\ workers' = [workers EXCEPT ![w] = item]
        /\ item.app = workers[w].app /\ item.generation = workers[w].generation
    BY <1>7, <2>1, ProceedsItem DEF Proceeds, LoadRow, LoadEnv, Call, CallFails
  <2>3. \A v \in Workers : Busy(v)' =>
          /\ Busy(v) /\ workers'[v].app = workers[v].app
          /\ workers'[v].generation = workers[v].generation
    BY <2>2 DEF TypeOK, Busy
  <2> QED BY <1>1, <1>2, <2>2, <2>3 DEF GenerationInv, Advances, Exists
<1>8. ASSUME NEW w \in Workers,
             FinishApply(w) \/ FinishDelete(w) \/ RecordFailure(w) \/ Crash(w)
      PROVE  GenerationInv' /\ Advances
  <2> DEFINE a == workers[w].app
  <2>1. PICK row \in Row \cup {NoRow} : Finishes(w, row)
    BY <1>8, FinishesRow
  <2>2. /\ Busy(w) /\ a \in Apps /\ Exists(a)
        /\ workers'[w] = Idle
        /\ \A v \in Workers \ {w} : workers'[v] = workers[v]
        /\ services'[a] = row
        /\ \A b \in Apps \ {a} : services'[b] = services[b]
    BY <1>2, <2>1 DEF Finishes, TypeOK
  <2>3. row # NoRow =>
          /\ row.desired = services[a].desired
          /\ row.reconciled \in {services[a].reconciled, workers[w].generation}
    BY <2>1 DEF Finishes
  <2>4. row # NoRow => /\ row.reconciled <= row.desired
                       /\ row.reconciled >= services[a].reconciled
    BY <1>1, <1>2, <2>2, <2>3
  <2>5. \A v \in Workers : Busy(v)' =>
          Busy(v) /\ workers'[v] = workers[v] /\ workers[v].app \in Apps \ {a}
    BY <1>2, <2>2 DEF Busy, Holds
  <2>6. \A b \in Apps : Exists(b)' => services'[b].reconciled <= services'[b].desired
    BY <1>1, <2>2, <2>4 DEF Exists
  <2>7. Advances
    BY <1>1, <2>2, <2>4 DEF Advances, Exists
  <2> QED BY <1>2, <2>2, <2>5, <2>6, <2>7 DEF GenerationInv
<1>9. ASSUME NEW a \in Apps, NEW k \in Kinds, Drift(a, k)
      PROVE  GenerationInv' /\ Advances
  BY <1>1, <1>9 DEF Drift, GenerationInv, Advances, Exists, Busy
<1> QED BY <1>3, <1>4, <1>5, <1>6, <1>7, <1>8, <1>9, StepShapes

(* Generations stay ordered, drift or not, when no two workers overlap.    *)
THEOREM GenerationsOrdered ==
  ASSUME NoOverlap
  PROVE  Spec => []GenerationInv
<1>1. Init => GenerationInv
  BY DEF Init, GenerationInv, Exists, Busy
<1>2. TypeOK /\ TypeOK' /\ LeaseInv /\ LeaseInv' /\ GenerationInv /\ [Next]_vars
        => GenerationInv'
  BY GenerationStep
<1> QED BY <1>1, <1>2, TypeCorrect, LeaseIsExclusive, PTL DEF Spec

(* What is recorded as reconciled only moves forward and never passes what *)
(* was asked for, drift or not, when no two workers overlap.               *)
THEOREM ReconciledOnlyAdvances ==
  ASSUME NoOverlap
  PROVE  Spec => ReconciledAdvances
<1>1. TypeOK /\ TypeOK' /\ LeaseInv /\ LeaseInv' /\ GenerationInv /\ [Next]_vars =>
        [\A a \in Apps :
           Exists(a) /\ Exists(a)' /\ services'[a].id = services[a].id
           => /\ services'[a].reconciled >= services[a].reconciled
              /\ services'[a].reconciled <= services'[a].desired]_vars
  BY GenerationStep DEF Advances, GenerationInv
<1> QED BY <1>1, TypeCorrect, LeaseIsExclusive, GenerationsOrdered, PTL
        DEF Spec, ReconciledAdvances

-----------------------------------------------------------------------------
(* Versions.  Without drift, which takes objects away, the cluster only    *)
(* moves forward, and what is recorded as reconciled is there.             *)

(* No object is replaced by an older one or taken from an app that stays.  *)
Forward ==
  \A a \in Apps, k \in Kinds :
    \/ cluster'[a][k] >= cluster[a][k]
    \/ Exists(a) /\ services[a].state = "deleting"

NoDrift == "drift" \notin Happens

(* Everything that is compared is an integer.                              *)
LEMMA Numbers ==
  ASSUME TypeOK
  PROVE  /\ \A a \in Apps : Exists(a) =>
              /\ services[a] \in Row
              /\ services[a].spec \in Nat /\ services[a].covered \in Nat
              /\ services[a].desired \in Nat /\ services[a].reconciled \in Nat
         /\ \A a \in Apps, k \in Kinds : cluster[a][k] \in Int
         /\ \A w \in Workers : Busy(w) =>
              /\ workers[w] \in WorkItem /\ workers[w].app \in Apps
              /\ workers[w].row \in Nat /\ workers[w].env \in Nat
              /\ workers[w].generation \in Nat
              /\ workers[w].todo \subseteq Kinds
<1>1. Version \subseteq Nat
  BY BoundsAssumption DEF Version
<1>2. \A a \in Apps, k \in Kinds : cluster[a][k] \in Int
  <2>1. \A v \in Version \cup {NoObject} : v \in Int
    BY <1>1 DEF NoObject
  <2>2. \A a \in Apps, k \in Kinds : cluster[a][k] \in Version \cup {NoObject}
    BY DEF TypeOK
  <2> QED BY <2>1, <2>2, Zenon
<1>3. \A a \in Apps : Exists(a) =>
              /\ services[a] \in Row
              /\ services[a].spec \in Nat /\ services[a].covered \in Nat
              /\ services[a].desired \in Nat /\ services[a].reconciled \in Nat
  BY <1>1 DEF TypeOK, Exists, Row, Generation
<1>4. \A w \in Workers : Busy(w) =>
              /\ workers[w] \in WorkItem /\ workers[w].app \in Apps
              /\ workers[w].row \in Nat /\ workers[w].env \in Nat
              /\ workers[w].generation \in Nat
              /\ workers[w].todo \subseteq Kinds
  BY <1>1, ItemType DEF WorkItem, Generation
<1> QED BY <1>2, <1>3, <1>4

LEMMA NextNumbers ==
  ASSUME TypeOK'
  PROVE  \A a \in Apps, k \in Kinds : cluster'[a][k] \in Int
<1>1. \A v \in Version \cup {NoObject} : v \in Int
  BY BoundsAssumption DEF Version, NoObject
<1>2. \A a \in Apps, k \in Kinds : cluster'[a][k] \in Version \cup {NoObject}
  BY DEF TypeOK
<1> QED BY <1>1, <1>2, Zenon

(* An item that a step leaves alone.                                       *)
LEMMA CarriesKept ==
  ASSUME TypeOK, TypeOK', NEW w \in Workers, Busy(w), Carries(w),
         Exists(workers[w].app), Exists(workers[w].app)',
         workers'[w] = workers[w],
         cluster'[workers[w].app] = cluster[workers[w].app],
         services'[workers[w].app].spec >= services[workers[w].app].spec,
         services'[workers[w].app].desired = workers[w].generation =>
           /\ services[workers[w].app].desired = workers[w].generation
           /\ services'[workers[w].app].covered = services[workers[w].app].covered
  PROVE  Carries(w)'
<1> DEFINE a == workers[w].app
<1>1. /\ a \in Apps /\ workers[w].row \in Nat /\ workers[w].env \in Nat
      /\ services[a].spec \in Nat
  BY Numbers
<1>2. services'[a].spec \in Nat
  BY <1>1, BoundsAssumption DEF TypeOK, Exists, Row, Version
<1>3. \A v \in Nat : Loaded(w, v) => Loaded(w, v)'
  BY <1>1, <1>2 DEF Loaded
<1>4. \A k \in Kinds : Source(w, k)' = Source(w, k)
  BY DEF Source
<1> QED BY <1>1, <1>3, <1>4 DEF Carries

(* An app whose row and objects a step leaves alone.                       *)
LEMMA AppKept ==
  ASSUME TypeOK, TypeOK', [Next]_vars, NEW a \in Apps, Exists(a),
         InOrder(a), Whole(a),
         services'[a] = services[a], cluster'[a] = cluster[a],
         \A w \in Workers : Holds(w, a)' /\ ~workers'[w].deleting
           => Holds(w, a) /\ ~workers[w].deleting
  PROVE  InOrder(a)' /\ Whole(a)'
<1>1. InOrder(a)'
  BY VersionsGrow, Numbers DEF InOrder
<1>2. Whole(a)'
  BY DEF Whole
<1> QED BY <1>1, <1>2

(* The call of a worker: a removal aside, what it writes is no older than  *)
(* what is there, nor newer than what is stored.                           *)
LEMMA CallForward ==
  ASSUME TypeOK, LeaseInv, AppliedInv, NEW w \in Workers, Busy(w),
         UNCHANGED cluster \/ (Calls(w) /\ CallTakesEffect(w))
  PROVE  /\ \A b \in Apps \ {workers[w].app} : cluster'[b] = cluster[b]
         /\ \A k \in Kinds :
              cluster'[workers[w].app][k] <= services[workers[w].app].spec
         /\ ~workers[w].deleting => \A k \in Kinds :
              cluster'[workers[w].app][k] >= cluster[workers[w].app][k]
<1> DEFINE a == workers[w].app
<1>1. /\ a \in Apps /\ Exists(a) /\ InOrder(a)
      /\ services[a].spec \in Nat
      /\ \A k \in Kinds : cluster[a][k] \in Int
  BY Numbers DEF AppliedInv, LeaseInv, SoleHolder, Matches
<1>2. CASE UNCHANGED cluster
  BY <1>1, <1>2 DEF InOrder
<1>3. CASE Calls(w) /\ CallTakesEffect(w)
  <2>1. /\ \A b \in Apps \ {a} : cluster'[b] = cluster[b]
        /\ \A k \in Kinds : cluster'[a][k] =
             IF k = Target(w) THEN Written(w) ELSE cluster[a][k]
    BY <1>3, CallEffect
  <2>2. CASE workers[w].deleting
    <3>1. Written(w) = -1
      BY <2>2 DEF Written, NoObject
    <3> QED BY <1>1, <2>1, <2>2, <3>1 DEF InOrder
  <2>3. CASE ~workers[w].deleting
    <3>1. Carries(w) /\ workers[w].pc = "apply"
      BY <1>3, <2>3 DEF AppliedInv, Carries, Calls
    <3>2. Written(w) = Source(w, Target(w))
      BY <2>3 DEF Written, Source
    <3>3. \A k \in Kinds : Source(w, k) <= services[a].spec
                          /\ cluster[a][k] <= Source(w, k)
      BY <3>1 DEF Carries, Loaded, Source
    <3> QED BY <1>1, <2>1, <3>2, <3>3 DEF InOrder
  <2> QED BY <2>1, <2>2, <2>3
<1> QED BY <1>2, <1>3

(* A new row finds no object of the name and no item about it.             *)
LEMMA ApplyCreate ==
  ASSUME TypeOK, TypeOK', LeaseInv, AppliedInv, [Next]_vars,
         NEW a \in Apps, CreateApp(a)
  PROVE  AppliedInv' /\ Forward
<1>1. /\ ~Exists(a) /\ workers' = workers /\ cluster' = cluster
      /\ services'[a].spec = version'[a] /\ services'[a].covered = version'[a]
      /\ services'[a].reconciled = 0 /\ services'[a].desired = 1
      /\ \A b \in Apps \ {a} : services'[b] = services[b]
  BY DEF CreateApp, TypeOK
<1>2. ASSUME NEW w \in Workers, Busy(w)
      PROVE  workers[w].app \in Apps \ {a} /\ Exists(workers[w].app)
  BY <1>1, <1>2, Numbers DEF LeaseInv, SoleHolder, Matches
<1>3. InOrder(a)' /\ Whole(a)'
  <2>1. version'[a] \in Nat
    BY VersionsGrow
  <2>2. \A k \in Kinds : cluster'[a][k] = -1
    BY <1>1 DEF LeaseInv, TombstoneUntilClean, NoObject
  <2> QED BY <1>1, <2>1, <2>2 DEF InOrder, Whole
<1>4. ASSUME NEW b \in Apps \ {a}, Exists(b)'
      PROVE  InOrder(b)' /\ Whole(b)'
  BY <1>1, <1>4, AppKept DEF AppliedInv, Exists, Holds, Busy
<1>5. ASSUME NEW w \in Workers, Busy(w)', ~workers'[w].deleting
      PROVE  Carries(w)'
  <2>1. Busy(w) /\ Carries(w)
    BY <1>1, <1>5 DEF AppliedInv, Busy
  <2> QED BY <1>1, <1>2, <2>1, CarriesKept, Numbers DEF Exists
<1>6. Forward
  BY <1>1, Numbers DEF Forward
<1> QED BY <1>3, <1>4, <1>5, <1>6 DEF AppliedInv

(* A handler that raises the generation asks for what is stored now; one   *)
(* that does not leaves what was asked for as it is.                       *)
LEMMA ApplyRewrite ==
  ASSUME TypeOK, TypeOK', LeaseInv, GenerationInv, AppliedInv, [Next]_vars,
         NEW a \in Apps, Rewrites(a)
  PROVE  AppliedInv' /\ Forward
<1> DEFINE old == services[a]
           r == services'[a]
<1>1. /\ Exists(a) /\ workers' = workers /\ cluster' = cluster
      /\ r \in Row
      /\ r.reconciled = old.reconciled
      /\ \/ r.desired = old.desired /\ r.covered = old.covered
         \/ r.desired = old.desired + 1 /\ r.covered = r.spec
      /\ r.spec = old.spec \/ (r.spec = version'[a] /\ r.spec > version[a])
      /\ old.state = "deleting" => r.state = "deleting"
      /\ \A b \in Apps \ {a} : services'[b] = services[b]
  BY DEF Rewrites, TypeOK
<1>2. /\ old.spec \in Nat /\ old.covered \in Nat
      /\ old.desired \in Nat /\ old.reconciled \in Nat
      /\ r.spec \in Nat /\ r.covered \in Nat /\ r.desired \in Nat
      /\ version[a] \in Nat /\ version'[a] \in Nat /\ version'[a] >= version[a]
      /\ \A k \in Kinds : cluster[a][k] \in Int
      /\ old.reconciled <= old.desired
      /\ InOrder(a) /\ Whole(a)
  BY <1>1, Numbers, VersionsGrow, BoundsAssumption
  DEF Row, Version, Generation, GenerationInv, AppliedInv
<1>3. r.spec >= old.spec /\ r.spec <= version'[a] /\ r.covered <= r.spec
  <2> HIDE DEF r, old
  <2> QED BY <1>1, <1>2 DEF InOrder, old
<1>4. InOrder(a)'
  BY <1>1, <1>2, <1>3 DEF InOrder
<1>5. Whole(a)'
  <2> SUFFICES ASSUME r.reconciled = r.desired,
                      r.state = "deleting" =>
                        \E w \in Workers : Holds(w, a)' /\ ~workers'[w].deleting,
                      NEW k \in Kinds
               PROVE  r.covered <= cluster'[a][k]
    BY DEF Whole
  <2>1. r.desired = old.desired /\ r.covered = old.covered
    BY <1>1, <1>2
  <2>2. old.state = "deleting" =>
          \E w \in Workers : Holds(w, a) /\ ~workers[w].deleting
    BY <1>1 DEF Holds, Busy
  <2> QED BY <1>1, <1>2, <2>1, <2>2 DEF Whole
<1>6. ASSUME NEW b \in Apps \ {a}, Exists(b)'
      PROVE  InOrder(b)' /\ Whole(b)'
  BY <1>1, <1>6, AppKept DEF AppliedInv, Exists, Holds, Busy
<1>7. ASSUME NEW w \in Workers, Busy(w)', ~workers'[w].deleting
      PROVE  Carries(w)'
  <2>1. /\ Busy(w) /\ Carries(w) /\ workers'[w] = workers[w]
        /\ Exists(workers[w].app) /\ workers[w].app \in Apps
        /\ workers[w].generation \in Nat
        /\ workers[w].generation <= services[workers[w].app].desired
    BY <1>1, <1>7, Numbers
    DEF AppliedInv, Busy, LeaseInv, SoleHolder, Matches, GenerationInv
  <2>2. Exists(a)'
    BY <1>1, SentinelAssumption DEF Exists
  <2>3. CASE workers[w].app = a
    <3>1. r.desired = workers[w].generation =>
            old.desired = workers[w].generation /\ r.covered = old.covered
      BY <1>1, <1>2, <2>1, <2>3
    <3> QED BY <1>1, <1>3, <2>1, <2>2, <2>3, <3>1, CarriesKept
  <2>4. CASE workers[w].app # a
    BY <1>1, <2>1, <2>4, CarriesKept, Numbers DEF Exists
  <2> QED BY <2>3, <2>4
<1>8. \A b \in Apps : Exists(b)' => Exists(b)
  BY <1>1 DEF Exists
<1>9. Forward
  BY <1>1, Numbers DEF Forward
<1> QED BY <1>4, <1>5, <1>6, <1>7, <1>9 DEF AppliedInv

(* An item starts with nothing loaded and everything to do.                *)
LEMMA ApplyClaim ==
  ASSUME TypeOK, TypeOK', LeaseInv, LeaseInv', AppliedInv, [Next]_vars,
         NEW w \in Workers, NEW a \in Apps, ClaimNext(w, a)
  PROVE  AppliedInv' /\ Forward
<1> DEFINE old == services[a]
           r == services'[a]
<1>1. /\ Exists(a) /\ ~Busy(w) /\ cluster' = cluster /\ version' = version
      /\ r = Leased(old)
      /\ \A b \in Apps \ {a} : services'[b] = services[b]
      /\ workers'[w] = ItemOf(a, old)
      /\ \A v \in Workers \ {w} : workers'[v] = workers[v]
  BY DEF ClaimNext, TypeOK
<1>2. old \in Row /\ InOrder(a) /\ Whole(a)
  BY <1>1, Numbers DEF AppliedInv
<1>3. /\ r.spec = old.spec /\ r.covered = old.covered
      /\ r.desired = old.desired /\ r.reconciled = old.reconciled
      /\ r.state = "deleting" <=> old.state = "deleting"
  BY <1>1, <1>2 DEF Leased, Row
<1>4. /\ workers'[w].app = a /\ workers'[w].todo = Kinds /\ Busy(w)'
      /\ workers'[w].deleting <=> old.state = "deleting"
      /\ ~workers'[w].deleting => workers'[w].pc = "loadRow"
  <2>1. ItemOf(a, old) # Idle
    BY <1>2, ItemOfRow, SentinelAssumption
  <2>2. ItemOf(a, old).deleting = (old.state = "deleting")
    BY Zenon DEF ItemOf
  <2>3. /\ ItemOf(a, old).app = a /\ ItemOf(a, old).todo = Kinds
        /\ old.state # "deleting" => ItemOf(a, old).pc = "loadRow"
    BY DEF ItemOf
  <2> QED BY <1>1, <2>1, <2>2, <2>3 DEF Busy
<1>5. \A v \in Workers : Holds(v, a)' => v = w
  BY <1>4 DEF LeaseInv, SoleHolder
<1>6. InOrder(a)'
  BY <1>1, <1>2, <1>3 DEF InOrder
<1>7. Whole(a)'
  BY <1>1, <1>2, <1>3, <1>4, <1>5 DEF Whole
<1>8. ASSUME NEW b \in Apps \ {a}, Exists(b)'
      PROVE  InOrder(b)' /\ Whole(b)'
  <2>1. \A v \in Workers : Holds(v, b)' => Holds(v, b) /\ workers'[v] = workers[v]
    BY <1>1, <1>4 DEF Holds, Busy
  <2> QED BY <1>1, <1>8, <2>1, AppKept DEF AppliedInv, Exists
<1>9. ASSUME NEW v \in Workers, Busy(v)', ~workers'[v].deleting
      PROVE  Carries(v)'
  <2>1. CASE v = w
    BY <1>4, <1>9, <2>1 DEF Carries
  <2>2. CASE v # w
    <3>1. /\ workers'[v] = workers[v] /\ Busy(v) /\ Carries(v)
          /\ Exists(workers[v].app) /\ workers[v].app \in Apps \ {a}
      BY <1>1, <1>5, <1>9, <2>2, Numbers
      DEF Busy, Holds, AppliedInv, LeaseInv, SoleHolder, Matches
    <3> QED BY <1>1, <3>1, CarriesKept, Numbers DEF Exists
  <2> QED BY <2>1, <2>2
<1>10. \A b \in Apps : Exists(b)' => Exists(b)
  BY <1>1 DEF Exists
<1>11. Forward
  BY <1>1, Numbers DEF Forward
<1> QED BY <1>6, <1>7, <1>8, <1>9, <1>11 DEF AppliedInv

(* What a worker loads is stored, and what it writes is what it loaded.    *)
LEMMA ApplyProceed ==
  ASSUME TypeOK, TypeOK', LeaseInv, LeaseInv', AppliedInv, [Next]_vars,
         NEW w \in Workers,
         LoadRow(w) \/ LoadEnv(w) \/ Call(w) \/ CallFails(w)
  PROVE  AppliedInv' /\ Forward
<1>0. PICK a \in Apps : a = workers[w].app
  BY ProceedsItem, Numbers
<1> DEFINE old == workers[w]
<1>1. PICK item \in WorkItem : Proceeds(w, item)
  BY ProceedsItem
<1>2. /\ Busy(w) /\ a \in Apps /\ Exists(a) /\ services' = services
      /\ workers'[w] = item /\ item.app = a /\ item.deleting = old.deleting
      /\ item.generation = old.generation
      /\ \A v \in Workers \ {w} : workers'[v] = workers[v]
      /\ UNCHANGED cluster \/ (Calls(w) /\ CallTakesEffect(w))
      /\ item # Idle
      /\ CleansUp(w) /\ services[a].spec \in Nat
  <2>1. Busy(w) /\ a \in Apps /\ Exists(a) /\ CleansUp(w) /\ services[a].spec \in Nat
    BY <1>0, ProceedsItem, Numbers DEF LeaseInv, SoleHolder, Matches
  <2>2. services' = services /\ (UNCHANGED cluster \/ (Calls(w) /\ CallTakesEffect(w)))
    BY DEF LoadRow, LoadEnv, Call, CallFails, LastCallMayHaveReached
  <2> QED BY <1>0, <1>1, <2>1, <2>2, SentinelAssumption DEF Proceeds, TypeOK
<1>3. /\ \A b \in Apps \ {a} : cluster'[b] = cluster[b]
      /\ \A k \in Kinds : cluster'[a][k] <= services[a].spec
      /\ ~old.deleting => \A k \in Kinds : cluster'[a][k] >= cluster[a][k]
  BY <1>0, <1>2, CallForward
<1>4. \A v \in Workers : /\ Busy(v)' <=> Busy(v)
                         /\ Busy(v) => /\ workers'[v].app = workers[v].app
                                       /\ workers'[v].deleting = workers[v].deleting
  BY <1>0, <1>2 DEF Busy
<1>5. \A b \in Apps : Exists(b)' <=> Exists(b)
  BY <1>2 DEF Exists
<1>6. \A k \in Kinds : cluster'[a][k] \in Int /\ cluster[a][k] \in Int
  <2>1. \A k \in Kinds : cluster'[a][k] \in Int
    BY <1>0, <1>2, NextNumbers
  <2> QED BY <1>0, <1>2, <2>1, Numbers
<1>7. InOrder(a)' /\ Whole(a)'
  <2>1. InOrder(a)'
    BY <1>0, <1>2, <1>3, VersionsGrow, Numbers DEF InOrder, AppliedInv
  <2>2. Whole(a)'
    <3> SUFFICES ASSUME services[a].reconciled = services[a].desired,
                        services[a].state = "deleting" =>
                          \E v \in Workers : Holds(v, a)' /\ ~workers'[v].deleting,
                        NEW k \in Kinds
                 PROVE  services[a].covered <= cluster'[a][k]
      BY <1>2 DEF Whole
    <3>1. services[a].state = "deleting" =>
            \E v \in Workers : Holds(v, a) /\ ~workers[v].deleting
      BY <1>4 DEF Holds
    <3>2. ~old.deleting
      BY <1>0, <1>2, <3>1 DEF CleansUp, LeaseInv, SoleHolder, Holds
    <3>3. services[a].covered <= cluster[a][k] /\ services[a].covered \in Nat
      BY <1>0, <1>2, <3>1, Numbers DEF AppliedInv, Whole
    <3> QED BY <1>0, <1>3, <1>6, <3>2, <3>3
  <2> QED BY <2>1, <2>2
<1>8. ASSUME NEW b \in Apps \ {a}, Exists(b)'
      PROVE  InOrder(b)' /\ Whole(b)'
  BY <1>0, <1>2, <1>3, <1>4, <1>5, <1>8, AppKept DEF AppliedInv, Holds
<1>9. ASSUME NEW v \in Workers, v # w, Busy(v)', ~workers'[v].deleting
      PROVE  Carries(v)'
  <2>1. /\ workers'[v] = workers[v] /\ Busy(v) /\ Carries(v)
        /\ Exists(workers[v].app) /\ workers[v].app \in Apps \ {a}
    BY <1>0, <1>2, <1>4, <1>9, Numbers
    DEF Holds, AppliedInv, LeaseInv, SoleHolder, Matches
  <2> QED BY <1>0, <1>2, <1>3, <1>5, <2>1, CarriesKept, Numbers
<1>10. ASSUME ~item.deleting
       PROVE  Carries(w)'
  <2>1. /\ Carries(w) /\ InOrder(a) /\ services[a].covered \in Nat
        /\ old.row \in Nat /\ old.env \in Nat /\ old.todo \subseteq Kinds
    BY <1>0, <1>2, <1>10, Numbers DEF AppliedInv
  <2>2. \A v \in Nat : Loaded(w, v)' <=> Loaded(w, v)
    BY <1>0, <1>2 DEF Loaded
  <2>3. Loaded(w, services[a].spec)
    BY <1>0, <1>2, <2>1 DEF Loaded, InOrder
  <2>4. CASE LoadRow(w) /\ item.pc = "loadEnv"
    <3>1. /\ item.row = services[a].spec /\ item.todo = Kinds
          /\ cluster' = cluster
      BY <1>0, <1>1, <1>2, <2>1, <2>4
      DEF Proceeds, LoadRow, LoadEnv, Call, Calls, Carries
    <3> QED BY <1>0, <1>2, <2>1, <2>2, <2>3, <2>4, <3>1 DEF Carries, InOrder
  <2>5. CASE LoadEnv(w) /\ item.pc = "apply"
    <3>1. /\ item.env = services[a].spec /\ item.row = old.row
          /\ item.todo = Kinds /\ cluster' = cluster
          /\ Loaded(w, old.row)
          /\ \A k \in Kinds : cluster[a][k] <= old.row
      BY <1>0, <1>1, <1>2, <2>1, <2>5
      DEF Proceeds, LoadRow, LoadEnv, Call, Calls, Carries
    <3>2. \A k \in Kinds : cluster'[a][k] <= Source(w, k)'
      BY <1>0, <1>2, <2>1, <3>1 DEF Source, InOrder
    <3> QED BY <1>0, <1>2, <2>1, <2>2, <2>3, <2>5, <3>1, <3>2 DEF Carries
  <2>6. CASE Call(w) /\ item.pc # "fail"
    <3>1. /\ old.pc = "apply" /\ item.pc \in {"apply", "finish"}
          /\ item.todo = old.todo \ {Target(w)}
          /\ item.row = old.row /\ item.env = old.env
          /\ Calls(w) /\ CallTakesEffect(w)
      BY <1>0, <1>1, <1>2, <2>1, <2>6
      DEF Proceeds, LoadRow, LoadEnv, Call, Calls, Carries
    <3>2. \A k \in Kinds : cluster'[a][k] =
            IF k = Target(w) THEN Written(w) ELSE cluster[a][k]
      BY <1>0, <3>1, CallEffect
    <3>3. Written(w) = Source(w, Target(w))
      BY <1>0, <1>2, <1>10 DEF Written, Source
    <3>4. \A k \in Kinds : /\ Source(w, k)' = Source(w, k)
                           /\ Source(w, k) \in Nat
      BY <1>0, <1>2, <2>1, <3>1 DEF Source
    <3>5. \A k \in Kinds : /\ cluster'[a][k] <= Source(w, k)
                           /\ k \notin item.todo => cluster'[a][k] = Source(w, k)
      BY <1>0, <2>1, <3>1, <3>2, <3>3, <3>4 DEF Carries
    <3>6. Loaded(w, old.row) /\ Loaded(w, old.env)
      BY <2>1, <3>1 DEF Carries
    <3> QED BY <1>0, <1>2, <2>1, <2>2, <3>1, <3>4, <3>5, <3>6 DEF Carries
  <2>7. CASE item.pc = "fail"
    BY <1>0, <1>2, <2>7 DEF Carries
  <2>8. \/ LoadRow(w) /\ item.pc = "loadEnv"
        \/ LoadEnv(w) /\ item.pc = "apply"
        \/ Call(w) /\ item.pc # "fail"
        \/ item.pc = "fail"
    BY <1>1 DEF Proceeds
  <2> QED BY <2>4, <2>5, <2>6, <2>7, <2>8
<1>11. Forward
  BY <1>0, <1>2, <1>3, <1>6, Numbers DEF Forward, CleansUp
<1> QED BY <1>0, <1>2, <1>5, <1>7, <1>8, <1>9, <1>10, <1>11 DEF AppliedInv

(* A worker that declares a generation done has written every object from  *)
(* what that generation asked for, or newer.                               *)
LEMMA ApplyFinish ==
  ASSUME TypeOK, TypeOK', LeaseInv, LeaseInv', AppliedInv, [Next]_vars,
         NEW w \in Workers,
         FinishApply(w) \/ FinishDelete(w) \/ RecordFailure(w) \/ Crash(w)
  PROVE  AppliedInv' /\ Forward
<1>0. PICK a \in Apps : a = workers[w].app
  BY FinishesRow, Numbers DEF Finishes
<1> DEFINE old == services[a]
<1>1. PICK row \in Row \cup {NoRow} : Finishes(w, row)
  BY FinishesRow
<1>2. /\ Busy(w) /\ a \in Apps /\ Exists(a) /\ CleansUp(w)
      /\ old.spec \in Nat /\ old.covered \in Nat
      /\ \A v \in Workers : Holds(v, a) => v = w
      /\ services'[a] = row /\ workers'[w] = Idle
      /\ \A b \in Apps \ {a} : services'[b] = services[b]
      /\ \A v \in Workers \ {w} : workers'[v] = workers[v]
      /\ UNCHANGED cluster \/ (Calls(w) /\ CallTakesEffect(w))
      /\ FinishApply(w) => UNCHANGED cluster
  <2>1. /\ Busy(w) /\ a \in Apps /\ Exists(a) /\ CleansUp(w)
        /\ old.spec \in Nat /\ old.covered \in Nat
        /\ \A v \in Workers : Holds(v, a) => v = w
    BY <1>0, <1>1, Numbers DEF Finishes, LeaseInv, SoleHolder, Matches
  <2>2. /\ UNCHANGED cluster \/ (Calls(w) /\ CallTakesEffect(w))
        /\ FinishApply(w) => UNCHANGED cluster
    BY DEF FinishApply, FinishDelete, RecordFailure, Crash, LastCallMayHaveReached
  <2> QED BY <1>0, <1>1, <2>1, <2>2 DEF Finishes, TypeOK
<1>3. /\ \A b \in Apps \ {a} : cluster'[b] = cluster[b]
      /\ \A k \in Kinds : cluster'[a][k] <= old.spec
      /\ ~workers[w].deleting => \A k \in Kinds : cluster'[a][k] >= cluster[a][k]
  BY <1>0, <1>2, CallForward
<1>4. \A k \in Kinds : cluster'[a][k] \in Int /\ cluster[a][k] \in Int
  <2>1. \A k \in Kinds : cluster'[a][k] \in Int
    BY <1>0, <1>2, NextNumbers
  <2> QED BY <1>0, <1>2, <2>1, Numbers
<1>5. \A v \in Workers : Busy(v)' =>
        /\ v # w /\ workers'[v] = workers[v] /\ Busy(v)
        /\ Exists(workers[v].app) /\ workers[v].app \in Apps \ {a}
  BY <1>0, <1>2, Numbers DEF Busy, Holds, LeaseInv, SoleHolder, Matches
<1>6. ASSUME row # NoRow
      PROVE  InOrder(a)' /\ Whole(a)'
  <2>1. row.covered = old.covered /\ row.spec = old.spec /\ row.desired = old.desired
    BY <1>0, <1>1, <1>6 DEF Finishes
  <2>2. InOrder(a)'
    BY <1>0, <1>2, <1>3, <2>1, VersionsGrow, Numbers DEF InOrder, AppliedInv
  <2>3. Whole(a)'
    <3> SUFFICES ASSUME row.reconciled = row.desired, row.state # "deleting",
                        NEW k \in Kinds
                 PROVE  row.covered <= cluster'[a][k]
      BY <1>0, <1>2, <1>5 DEF Whole, Holds
    <3>1. ~workers[w].deleting => cluster'[a][k] >= cluster[a][k]
      BY <1>3
    <3>2. CASE row.reconciled = old.reconciled
      <4>1. ~workers[w].deleting
        BY <1>0, <1>1, <1>2, <1>6, <2>1, <3>2 DEF Finishes, CleansUp, FinishApply
      <4>2. old.covered <= cluster[a][k]
        BY <1>0, <1>2, <2>1, <3>2, <4>1 DEF AppliedInv, Whole, Holds
      <4> QED BY <1>0, <1>2, <1>4, <2>1, <3>1, <4>1, <4>2
    <3>3. CASE FinishApply(w) /\ row.reconciled = workers[w].generation
      <4>1. /\ workers[w].pc = "finish" /\ ~workers[w].deleting
            /\ workers[w].todo = {} /\ cluster' = cluster
        BY <1>0, <1>2, <3>3 DEF FinishApply, LeaseInv
      <4>2. Carries(w)
        BY <1>0, <1>2, <4>1 DEF AppliedInv
      <4>3. /\ cluster[a][k] = Source(w, k)
            /\ old.covered <= workers[w].row /\ old.covered <= workers[w].env
        BY <1>0, <1>2, <2>1, <3>3, <4>1, <4>2 DEF Carries, Loaded
      <4> QED BY <2>1, <4>1, <4>3 DEF Source
    <3> QED BY <1>0, <1>1, <1>6, <3>2, <3>3 DEF Finishes
  <2> QED BY <2>2, <2>3
<1>7. ASSUME NEW b \in Apps \ {a}, Exists(b)'
      PROVE  InOrder(b)' /\ Whole(b)'
  <2>1. Exists(b) /\ services'[b] = services[b] /\ cluster'[b] = cluster[b]
    BY <1>0, <1>2, <1>3, <1>7 DEF Exists
  <2> QED BY <1>0, <1>5, <2>1, AppKept DEF AppliedInv, Holds
<1>8. ASSUME NEW v \in Workers, Busy(v)', ~workers'[v].deleting
      PROVE  Carries(v)'
  <2>1. /\ workers'[v] = workers[v] /\ Busy(v) /\ Carries(v)
        /\ Exists(workers[v].app) /\ workers[v].app \in Apps \ {a}
    BY <1>0, <1>5, <1>8 DEF AppliedInv
  <2>2. services'[workers[v].app] = services[workers[v].app]
    BY <1>0, <1>2, <2>1
  <2> QED BY <1>0, <1>3, <2>1, <2>2, CarriesKept, Numbers DEF Exists
<1>9. Forward
  BY <1>0, <1>2, <1>3, <1>4, Numbers DEF Forward, CleansUp
<1> QED BY <1>0, <1>2, <1>6, <1>7, <1>8, <1>9 DEF AppliedInv, Exists

LEMMA ApplyQuiet ==
  ASSUME TypeOK, AppliedInv, UNCHANGED <<services, workers, cluster, version>>
  PROVE  AppliedInv' /\ Forward
<1>1. AppliedInv'
  BY DEF AppliedInv, InOrder, Whole, Carries, Loaded, Source, Exists, Holds, Busy
<1>2. Forward
  BY Numbers DEF Forward
<1> QED BY <1>1, <1>2

(* Together: every step keeps the invariant, and no object goes back.      *)
LEMMA ApplyStep ==
  ASSUME TypeOK, TypeOK', LeaseInv, LeaseInv', GenerationInv, AppliedInv,
         NoOverlap, NoDrift, [Next]_vars
  PROVE  AppliedInv' /\ Forward
<1>1. \A a \in Apps, k \in Kinds : ~Drift(a, k)
  BY DEF Drift, NoDrift
<1> QED BY <1>1, StepShapes, ApplyQuiet, ApplyCreate, ApplyRewrite, ApplyClaim,
           ApplyProceed, ApplyFinish

(* Without drift and overlapping workers, what is recorded as reconciled   *)
(* is in the cluster, and items under way are versions of their rows.      *)
THEOREM WhatIsRecordedIsApplied ==
  ASSUME NoOverlap, NoDrift
  PROVE  Spec => []AppliedInv
<1>1. Init => AppliedInv
  BY DEF Init, AppliedInv, Exists, Busy
<1>2. TypeOK /\ TypeOK' /\ LeaseInv /\ LeaseInv' /\ GenerationInv /\ AppliedInv
        /\ [Next]_vars => AppliedInv'
  BY ApplyStep
<1> QED BY <1>1, <1>2, TypeCorrect, LeaseIsExclusive, GenerationsOrdered, PTL
        DEF Spec

(* When the reconciled generation has caught up with the desired one, each *)
(* object is at least as new as what that generation asked for.            *)
THEOREM ReconciledApplied ==
  ASSUME NoOverlap, NoDrift
  PROVE  Spec => []ReconciledMeansApplied
<1>1. TypeOK /\ AppliedInv => ReconciledMeansApplied
  <2> SUFFICES ASSUME TypeOK, AppliedInv, NEW a \in Apps, Exists(a),
                      services[a].state # "deleting",
                      services[a].reconciled = services[a].desired,
                      NEW k \in Kinds
               PROVE  cluster[a][k] >= services[a].covered
    BY DEF ReconciledMeansApplied
  <2> QED BY Numbers DEF AppliedInv, Whole
<1> QED BY <1>1, TypeCorrect, WhatIsRecordedIsApplied, PTL

(* No step puts an older version of an object over a newer one, or takes   *)
(* one from an app that is not being deleted.                              *)
THEOREM ObjectsOnlyAdvance ==
  ASSUME NoOverlap, NoDrift
  PROVE  Spec => NeverRollsBack
<1>1. TypeOK /\ TypeOK' /\ LeaseInv /\ LeaseInv' /\ GenerationInv /\ AppliedInv
        /\ [Next]_vars =>
        [\A a \in Apps, k \in Kinds :
           \/ cluster'[a][k] >= cluster[a][k]
           \/ Exists(a) /\ services[a].state = "deleting"]_vars
  BY ApplyStep DEF Forward
<1> QED BY <1>1, TypeCorrect, LeaseIsExclusive, GenerationsOrdered,
           WhatIsRecordedIsApplied, PTL
        DEF Spec, NeverRollsBack

-----------------------------------------------------------------------------
(* The lives of apps.                                                      *)

(* What a step leaves of an app's life as it is.                           *)
StaysAs(a) ==
  /\ Phase(a)' = Phase(a) /\ Wanted(a)' = Wanted(a)
  /\ Asked(a)' = Asked(a) /\ Met(a)' = Met(a)

LEMMA Untouched ==
  ASSUME NEW a \in Apps, services'[a] = services[a], Applying(a)' <=> Applying(a)
  PROVE  StaysAs(a)
<1>1. Exists(a)' <=> Exists(a)
  BY DEF Exists
<1>2. Phase(a)' = Phase(a)
  BY <1>1 DEF Phase
<1>3. Wanted(a)' = Wanted(a) /\ Asked(a)' = Asked(a)
  BY <1>1 DEF Wanted, Asked
<1>4. Met(a)' = Met(a)
  BY <1>1, Zenon DEF Met
<1> QED BY <1>2, <1>3, <1>4 DEF StaysAs

(* A step that concerns one app changes the maps in one place.             *)
LEMMA OneLife ==
  ASSUME NEW a \in Apps, \A b \in Apps \ {a} : StaysAs(b)
  PROVE  /\ [b \in Apps |-> Phase(b)]' =
              [[b \in Apps |-> Phase(b)] EXCEPT ![a] = Phase(a)']
         /\ [b \in Apps |-> Wanted(b)]' =
              [[b \in Apps |-> Wanted(b)] EXCEPT ![a] = Wanted(a)']
         /\ [b \in Apps |-> Asked(b)]' =
              [[b \in Apps |-> Asked(b)] EXCEPT ![a] = Asked(a)']
         /\ [b \in Apps |-> Met(b)]' =
              [[b \in Apps |-> Met(b)] EXCEPT ![a] = Met(a)']
BY DEF StaysAs

LEMMA AllStay ==
  ASSUME \A b \in Apps : StaysAs(b)
  PROVE  /\ [b \in Apps |-> Phase(b)]' = [b \in Apps |-> Phase(b)]
         /\ [b \in Apps |-> Wanted(b)]' = [b \in Apps |-> Wanted(b)]
         /\ [b \in Apps |-> Asked(b)]' = [b \in Apps |-> Asked(b)]
         /\ [b \in Apps |-> Met(b)]' = [b \in Apps |-> Met(b)]
BY DEF StaysAs

(* What the phases say of the row, and of the worker that holds it.        *)
LEMMA PhaseOf ==
  ASSUME TypeOK, LeaseInv, NEW a \in Apps, Exists(a)
  PROVE  /\ Phase(a) \in {"live", "leaving", "removing"}
         /\ Phase(a) = "live" <=> ~services[a].tombstone
         /\ Phase(a) = "removing" <=> services[a].state = "deleting" /\ ~Applying(a)
BY DEF Phase, LeaseInv

LEMMA HolderOf ==
  ASSUME TypeOK, LeaseInv, NEW w \in Workers, Busy(w)
  PROVE  /\ workers[w].app \in Apps /\ Exists(workers[w].app)
         /\ Applying(workers[w].app) <=> ~workers[w].deleting
         /\ workers[w].deleting => Phase(workers[w].app) = "removing"
         /\ ~workers[w].deleting => Phase(workers[w].app) \in {"live", "leaving"}
<1>1. workers[w].app \in Apps /\ Exists(workers[w].app)
  BY ItemType DEF LeaseInv, SoleHolder, Matches
<1>2. Applying(workers[w].app) <=> ~workers[w].deleting
  BY DEF LeaseInv, SoleHolder, Holds, Applying
<1>3. workers[w].deleting => services[workers[w].app].state = "deleting"
  BY DEF LeaseInv, CleansUp
<1> QED BY <1>1, <1>2, <1>3, PhaseOf

LifeStep == Life!Next \/ UNCHANGED Life!vars

LEMMA LifeQuiet ==
  ASSUME UNCHANGED <<services, workers, cluster>>
  PROVE  LifeStep
<1>1. \A b \in Apps : StaysAs(b)
  BY Untouched DEF Applying, Holds, Busy
<1> QED BY <1>1, AllStay DEF LifeStep, Life!vars

(* A new row finds no object of the name, and no worker about it.          *)
LEMMA LifeCreate ==
  ASSUME TypeOK, TypeOK', LeaseInv, NEW a \in Apps, CreateApp(a)
  PROVE  LifeStep
<1>1. /\ ~Exists(a) /\ workers' = workers /\ cluster' = cluster
      /\ services'[a] = [id |-> version'[a], spec |-> version'[a],
                         covered |-> version'[a], desired |-> 1, reconciled |-> 0,
                         state |-> "pending", due |-> TRUE, leased |-> FALSE,
                         tombstone |-> FALSE]
      /\ \A b \in Apps \ {a} : services'[b] = services[b]
      /\ version'[a] \in Version
  BY DEF CreateApp, TypeOK
<1>2. services'[a] # NoRow
  <2>1. services'[a] \in Row
    BY <1>1 DEF Row, States, Generation
  <2> QED BY <2>1, SentinelAssumption
<1>3. \A b \in Apps \ {a} : StaysAs(b)
  BY <1>1, Untouched DEF Applying, Holds, Busy
<1>4. /\ Phase(a) = "absent" /\ Phase(a)' = "live"
      /\ Wanted(a)' = version'[a] /\ Asked(a)' = version'[a]
  BY <1>1, <1>2 DEF Phase, Wanted, Asked, Exists
<1>5. Met(a)' = Met(a)
  <2>1. ~Met(a) /\ ~Met(a)'
    BY <1>1 DEF Met
  <2> QED BY <2>1, Zenon DEF Met
<1>6. [b \in Apps |-> Met(b)]' = [b \in Apps |-> Met(b)]
  BY <1>3, <1>5 DEF StaysAs
<1>7. \A k \in Kinds : cluster[a][k] = NoObject
  BY <1>1 DEF LeaseInv, TombstoneUntilClean
<1>8. Life!Create(a, version'[a])
  BY <1>1, <1>3, <1>4, <1>6, <1>7, OneLife DEF Life!Create
<1> QED BY <1>1, <1>8 DEF LifeStep, Life!Next

(* A handler's statement stores, asks, requests a deletion, or does not    *)
(* show.                                                                   *)
LEMMA LifeRewrite ==
  ASSUME TypeOK, TypeOK', LeaseInv, GenerationInv, AppliedInv, [Next]_vars,
         NEW a \in Apps, Rewrites(a)
  PROVE  LifeStep
<1> DEFINE old == services[a]
<1>1. PICK r \in Row :
        /\ services' = [services EXCEPT ![a] = r]
        /\ r.reconciled = old.reconciled
        /\ \/ r.desired = old.desired /\ r.covered = old.covered
           \/ r.desired = old.desired + 1 /\ r.covered = r.spec
        /\ r.spec = old.spec \/ (r.spec = version'[a] /\ r.spec > version[a])
        /\ old.state = "deleting" => r.state = "deleting"
        /\ r.desired # old.desired => ~old.tombstone
        /\ \/ /\ r.tombstone = old.tombstone
              /\ r.state = "deleting" => old.state = "deleting"
           \/ /\ r.tombstone /\ r.state = "deleting"
              /\ r.spec = old.spec /\ r.desired = old.desired
  BY DEF Rewrites
<1>2. /\ Exists(a) /\ workers' = workers /\ cluster' = cluster
      /\ services'[a] = r /\ Exists(a)'
      /\ \A b \in Apps \ {a} : services'[b] = services[b]
  BY <1>1, SentinelAssumption DEF Rewrites, TypeOK, Exists
<1>3. Applying(a)' <=> Applying(a)
  BY <1>2 DEF Applying, Holds, Busy
<1>4. \A b \in Apps \ {a} : StaysAs(b)
  BY <1>2, Untouched DEF Applying, Holds, Busy
<1>5. /\ old.spec \in Nat /\ old.desired \in Nat /\ old.reconciled \in Nat
      /\ old.reconciled <= old.desired
      /\ r.spec \in Version /\ r.spec >= old.spec
      /\ r.spec \in Nat
  <2>1. /\ old.spec \in Nat /\ old.desired \in Nat /\ old.reconciled \in Nat
        /\ old.reconciled <= old.desired /\ old.spec <= version[a]
    BY <1>2, Numbers DEF GenerationInv, AppliedInv, InOrder
  <2>2. r.spec \in Version /\ r.spec \in Nat /\ version[a] \in Nat
    BY VersionsGrow, BoundsAssumption DEF Row, Version
  <2> QED BY <1>1, <2>1, <2>2
<1>6. /\ Wanted(a) = old.spec /\ Wanted(a)' = r.spec
      /\ Asked(a) = old.covered /\ Asked(a)' = r.covered
  BY <1>2 DEF Wanted, Asked
<1>7. CASE r.desired # old.desired
  <2>1. /\ r.covered = r.spec /\ r.desired = old.desired + 1 /\ ~old.tombstone
        /\ ~r.tombstone
    BY <1>1, <1>7
  <2>2. Phase(a) = "live" /\ Phase(a)' = "live"
    BY <1>2, <2>1 DEF Phase
  <2>3. Met(a)' = FALSE
    <3>1. r.reconciled # r.desired
      BY <1>1, <1>5, <2>1
    <3> QED BY <1>2, <3>1 DEF Met
  <2>4. [b \in Apps |-> Phase(b)]' = [b \in Apps |-> Phase(b)]
    BY <1>4, <2>2 DEF StaysAs
  <2>5. Life!Ask(a, r.spec)
    BY <1>2, <1>4, <1>5, <1>6, <2>1, <2>2, <2>3, <2>4, OneLife DEF Life!Ask
  <2> QED BY <1>5, <2>5 DEF LifeStep, Life!Next
<1>8. CASE r.desired = old.desired
  <2>1. r.covered = old.covered
    BY <1>1, <1>5, <1>8
  <2>2. Asked(a)' = Asked(a)
    BY <1>6, <2>1
  <2>3. Met(a)' = Met(a)
    BY <1>1, <1>2, <1>8, Zenon DEF Met
  <2>4. /\ [b \in Apps |-> Asked(b)]' = [b \in Apps |-> Asked(b)]
        /\ [b \in Apps |-> Met(b)]' = [b \in Apps |-> Met(b)]
    BY <1>4, <2>2, <2>3 DEF StaysAs
  <2>5. CASE r.tombstone = old.tombstone /\ (r.state = "deleting" => old.state = "deleting")
    <3>1. Phase(a)' = Phase(a)
      BY <1>1, <1>2, <1>3, <2>5 DEF Phase
    <3>2. [b \in Apps |-> Phase(b)]' = [b \in Apps |-> Phase(b)]
      BY <1>4, <3>1 DEF StaysAs
    <3>3. CASE r.spec = old.spec
      <4>1. [b \in Apps |-> Wanted(b)]' = [b \in Apps |-> Wanted(b)]
        BY <1>4, <1>6, <3>3 DEF StaysAs
      <4> QED BY <1>2, <2>4, <3>2, <4>1 DEF LifeStep, Life!vars
    <3>4. CASE r.spec # old.spec
      <4>1. Phase(a) # "absent"
        BY <1>2, PhaseOf
      <4>2. [b \in Apps |-> Wanted(b)]' =
              [[b \in Apps |-> Wanted(b)] EXCEPT ![a] = r.spec]
        BY <1>4, <1>6, OneLife
      <4>3. r.spec > [b \in Apps |-> Wanted(b)][a]
        BY <1>5, <1>6, <3>4
      <4>4. Life!Store(a, r.spec)
        BY <1>2, <2>4, <3>2, <4>1, <4>2, <4>3 DEF Life!Store
      <4> QED BY <1>5, <4>4 DEF LifeStep, Life!Next
    <3> QED BY <3>3, <3>4
  <2>6. CASE r.tombstone /\ r.state = "deleting" /\ r.spec = old.spec
    <3>1. [b \in Apps |-> Wanted(b)]' = [b \in Apps |-> Wanted(b)]
      BY <1>4, <1>6, <2>6 DEF StaysAs
    <3>2. Phase(a)' = IF Applying(a) THEN "leaving" ELSE "removing"
      BY <1>2, <1>3, <2>6 DEF Phase
    <3>3. CASE Phase(a) = "removing"
      <4>1. Phase(a)' = Phase(a)
        BY <1>2, <3>2, <3>3, PhaseOf
      <4>2. [b \in Apps |-> Phase(b)]' = [b \in Apps |-> Phase(b)]
        BY <1>4, <4>1 DEF StaysAs
      <4> QED BY <1>2, <2>4, <3>1, <4>2 DEF LifeStep, Life!vars
    <3>4. CASE Phase(a) # "removing"
      <4>1. Phase(a) \in {"live", "leaving"}
        BY <1>2, <3>4, PhaseOf
      <4>2. Life!Leave(a) \/ Life!BeginRemoval(a)
        BY <1>2, <1>4, <2>4, <3>1, <3>2, <4>1, OneLife
        DEF Life!Leave, Life!BeginRemoval
      <4> QED BY <4>2 DEF LifeStep, Life!Next
    <3> QED BY <3>3, <3>4
  <2> QED BY <1>1, <2>5, <2>6
<1> QED BY <1>7, <1>8

(* A claim does not show: an item deletes exactly when the row says so.    *)
LEMMA LifeClaim ==
  ASSUME TypeOK, TypeOK', LeaseInv, NEW w \in Workers, NEW a \in Apps, ClaimNext(w, a)
  PROVE  LifeStep
<1> DEFINE old == services[a]
<1>1. /\ Exists(a) /\ ~Busy(w) /\ cluster' = cluster /\ ~old.leased
      /\ services'[a] = Leased(old)
      /\ \A b \in Apps \ {a} : services'[b] = services[b]
      /\ workers'[w] = ItemOf(a, old)
      /\ \A v \in Workers \ {w} : workers'[v] = workers[v]
  BY DEF ClaimNext, Claimable, TypeOK
<1>2. old \in Row
  BY <1>1 DEF TypeOK, Exists
<1>3. /\ Leased(old).spec = old.spec /\ Leased(old).covered = old.covered
      /\ Leased(old).desired = old.desired /\ Leased(old).reconciled = old.reconciled
      /\ Leased(old).state = "deleting" <=> old.state = "deleting"
  BY <1>2 DEF Leased, Row
<1>4. Leased(old).tombstone = old.tombstone /\ Exists(a)'
  BY <1>1, <1>2, LeasedRow, SentinelAssumption DEF Exists
<1>5. workers'[w].app = a /\ (workers'[w].deleting <=> old.state = "deleting")
  <2>1. ItemOf(a, old).deleting = (old.state = "deleting")
    BY Zenon DEF ItemOf
  <2>2. ItemOf(a, old).app = a
    BY DEF ItemOf
  <2> QED BY <1>1, <2>1, <2>2
<1>6. ~Applying(a)
  BY <1>1 DEF Applying, Holds, LeaseInv, SoleHolder
<1>7. old.state = "deleting" => ~Applying(a)'
  BY <1>1, <1>5, <1>6 DEF Applying, Holds, Busy
<1>8. Phase(a)' = Phase(a)
  BY <1>1, <1>3, <1>4, <1>6, <1>7 DEF Phase
<1>9. Wanted(a)' = Wanted(a) /\ Asked(a)' = Asked(a)
  BY <1>1, <1>3, <1>4 DEF Wanted, Asked
<1>10. Met(a)' = Met(a)
  BY <1>1, <1>3, <1>4, Zenon DEF Met
<1>11. ASSUME NEW b \in Apps \ {a}
       PROVE  StaysAs(b)
  <2>1. Applying(b)' <=> Applying(b)
    BY <1>1, <1>5 DEF Applying, Holds, Busy
  <2> QED BY <1>1, <2>1, Untouched
<1>12. \A b \in Apps : StaysAs(b)
  BY <1>8, <1>9, <1>10, <1>11 DEF StaysAs
<1> QED BY <1>1, <1>12, AllStay DEF LifeStep, Life!vars

(* What the effect of a call, whether it is answered or not, does to the   *)
(* life of its app: with phase p after it.                                 *)
LEMMA LifeCall ==
  ASSUME TypeOK, LeaseInv, AppliedInv, NEW w \in Workers, Calls(w),
         CallTakesEffect(w), Target(w) \in Kinds,
         [b \in Apps |-> Wanted(b)]' = [b \in Apps |-> Wanted(b)],
         [b \in Apps |-> Asked(b)]' = [b \in Apps |-> Asked(b)],
         [b \in Apps |-> Met(b)]' = [b \in Apps |-> Met(b)],
         \/ [b \in Apps |-> Phase(b)]' = [b \in Apps |-> Phase(b)]
         \/ /\ Phase(workers[w].app) = "leaving"
            /\ [b \in Apps |-> Phase(b)]' =
                 [[b \in Apps |-> Phase(b)] EXCEPT ![workers[w].app] = "removing"]
  PROVE  LifeStep
<1> DEFINE a == workers[w].app
           k == Target(w)
<1>1. /\ Busy(w) /\ a \in Apps /\ Exists(a)
      /\ workers[w].deleting => Phase(a) = "removing"
      /\ ~workers[w].deleting => Phase(a) \in {"live", "leaving"}
  BY HolderOf DEF Calls
<1>2. cluster' = [cluster EXCEPT ![a][k] = Written(w)]
  BY DEF CallTakesEffect
<1>3. CASE workers[w].deleting
  <2>1. Written(w) = NoObject
    BY <1>3 DEF Written
  <2>2. Life!Remove(a, k)
    BY <1>1, <1>2, <1>3, <2>1 DEF Life!Remove
  <2> QED BY <1>1, <2>2 DEF LifeStep, Life!Next
<1>4. CASE ~workers[w].deleting
  <2>1. Carries(w) /\ workers[w].pc = "apply"
    BY <1>1, <1>4 DEF AppliedInv, Carries, Calls
  <2>2. Written(w) = Source(w, k)
    BY <1>4 DEF Written, Source
  <2>3. Source(w, k) <= services[a].spec /\ cluster[a][k] <= Source(w, k)
    BY <2>1 DEF Carries, Loaded, Source
  <2>4. Written(w) \in Version
    BY <1>1, <1>4, ItemType DEF Written, WorkItem
  <2>5. Wanted(a) = services[a].spec
    BY <1>1 DEF Wanted
  <2> HIDE DEF k, a
  <2>6. Life!Apply(a, k, Written(w))
    BY <1>1, <1>2, <1>4, <2>2, <2>3, <2>5 DEF Life!Apply, a
  <2> QED BY <1>1, <2>4, <2>6 DEF LifeStep, Life!Next, k
<1> QED BY <1>3, <1>4

(* A call on no object has no effect.                                      *)
LEMMA NoTarget ==
  ASSUME TypeOK, NEW w \in Workers, Calls(w), CallTakesEffect(w), Target(w) \notin Kinds
  PROVE  cluster' = cluster
<1>1. /\ cluster' \in [Apps -> [Kinds -> Version \cup {NoObject}]]
      /\ \A b \in Apps \ {workers[w].app} : cluster'[b] = cluster[b]
      /\ \A k \in Kinds : cluster'[workers[w].app][k] = cluster[workers[w].app][k]
  BY CallEffect
<1>2. workers[w].app \in Apps
  BY ItemType DEF Calls
<1>3. cluster'[workers[w].app] = cluster[workers[w].app]
  BY <1>1, <1>2 DEF TypeOK
<1> QED BY <1>1, <1>2, <1>3 DEF TypeOK

(* A worker that goes on with its item.                                    *)
LEMMA LifeProceed ==
  ASSUME TypeOK, LeaseInv, AppliedInv, NEW w \in Workers,
         LoadRow(w) \/ LoadEnv(w) \/ Call(w) \/ CallFails(w)
  PROVE  LifeStep
<1>1. PICK item \in WorkItem : Proceeds(w, item)
  BY ProceedsItem
<1>2. /\ services' = services
      /\ UNCHANGED cluster \/ (Calls(w) /\ CallTakesEffect(w))
  BY DEF LoadRow, LoadEnv, Call, CallFails, LastCallMayHaveReached
<1>3. /\ Busy(w) /\ workers'[w] = item /\ item # Idle
      /\ item.app = workers[w].app /\ item.deleting = workers[w].deleting
      /\ \A v \in Workers \ {w} : workers'[v] = workers[v]
  BY <1>1, SentinelAssumption
  DEF Proceeds, TypeOK, LoadRow, LoadEnv, Call, CallFails, Calls
<1>4. ASSUME NEW b \in Apps
      PROVE  StaysAs(b)
  <2>1. Applying(b)' <=> Applying(b)
    BY <1>3 DEF Applying, Holds, Busy
  <2> QED BY <1>2, <2>1, Untouched
<1>5. CASE UNCHANGED cluster
  BY <1>4, <1>5, AllStay DEF LifeStep, Life!vars
<1>6. CASE Calls(w) /\ CallTakesEffect(w) /\ Target(w) \in Kinds
  BY <1>4, <1>6, AllStay, LifeCall
<1>7. CASE Calls(w) /\ CallTakesEffect(w) /\ Target(w) \notin Kinds
  BY <1>5, <1>7, NoTarget
<1> QED BY <1>2, <1>5, <1>6, <1>7

(* A worker lets its item go: the apps of others stay as they are.         *)
LEMMA LetsGo ==
  ASSUME TypeOK, LeaseInv, NEW w \in Workers, Busy(w),
         NEW a \in Apps, a = workers[w].app,
         workers' = [workers EXCEPT ![w] = Idle],
         \A b \in Apps \ {a} : services'[b] = services[b]
  PROVE  /\ ~Applying(a)'
         /\ \A b \in Apps \ {a} : StaysAs(b)
<1>1. workers'[w] = Idle /\ \A v \in Workers \ {w} : workers'[v] = workers[v]
  BY DEF TypeOK
<1>2. ~Applying(a)'
  BY <1>1 DEF Applying, Holds, Busy, LeaseInv, SoleHolder
<1>3. ASSUME NEW b \in Apps \ {a}
      PROVE  StaysAs(b)
  <2>1. Applying(b)' <=> Applying(b)
    BY <1>1 DEF Applying, Holds, Busy
  <2> QED BY <1>3, <2>1, Untouched
<1> QED BY <1>2, <1>3

(* The end of an apply says that what was asked for runs, or does not      *)
(* show.                                                                   *)
LEMMA LifeFinishApply ==
  ASSUME TypeOK, LeaseInv, GenerationInv, AppliedInv, NEW w \in Workers, FinishApply(w)
  PROVE  LifeStep
<1>1. PICK a \in Apps : a = workers[w].app
  BY HolderOf DEF FinishApply
<1>2. PICK g \in Generation : g = workers[w].generation
  BY ItemType DEF FinishApply
<1>3. PICK old \in Row : old = services[a]
  BY <1>1, ItemType, HolderOf DEF FinishApply
<1>4. PICK r : r = Reconciled(old, g)
  OBVIOUS
<1>5. /\ Busy(w) /\ ~workers[w].deleting /\ workers[w].pc = "finish"
      /\ workers' = [workers EXCEPT ![w] = Idle] /\ cluster' = cluster
      /\ Exists(a) /\ Phase(a) \in {"live", "leaving"}
      /\ workers[w].todo = {} /\ Carries(w) /\ Matches(w)
  BY <1>1, HolderOf DEF FinishApply, LeaseInv, AppliedInv, SoleHolder
<1>6. /\ services'[a] = r
      /\ \A b \in Apps \ {a} : services'[b] = services[b]
  BY <1>1, <1>2, <1>3, <1>4, <1>5 DEF FinishApply, TypeOK
<1>7. /\ r \in Row /\ r.reconciled = g /\ r.desired = old.desired
      /\ r.covered = old.covered /\ r.spec = old.spec
      /\ r.tombstone = old.tombstone /\ r.state # "deleting"
  BY <1>4, ReconciledRow, ReconciledProgress
<1>8. Exists(a)'
  BY <1>6, <1>7, SentinelAssumption DEF Exists
<1>9. ~Applying(a)' /\ \A b \in Apps \ {a} : StaysAs(b)
  BY <1>1, <1>5, <1>6, LetsGo
<1>10. Phase(a)' = Phase(a)
  <2>1. ~(old.state = "deleting" /\ ~Applying(a))
    BY <1>3, <1>5, PhaseOf
  <2> QED BY <1>3, <1>5, <1>6, <1>7, <1>8, <2>1 DEF Phase
<1>11. Wanted(a)' = Wanted(a) /\ Asked(a)' = Asked(a)
  BY <1>3, <1>5, <1>6, <1>7, <1>8 DEF Wanted, Asked
<1>12. /\ [b \in Apps |-> Phase(b)]' = [b \in Apps |-> Phase(b)]
       /\ [b \in Apps |-> Wanted(b)]' = [b \in Apps |-> Wanted(b)]
       /\ [b \in Apps |-> Asked(b)]' = [b \in Apps |-> Asked(b)]
  BY <1>9, <1>10, <1>11 DEF StaysAs
<1>13. CASE g = old.desired
  <2>1. Met(a)' = TRUE
    BY <1>6, <1>7, <1>8, <1>13 DEF Met
  <2>2. \A k \in Kinds : Asked(a) <= cluster[a][k]
    <3>1. Asked(a) = old.covered
      BY <1>3, <1>5 DEF Asked
    <3>2. old.covered <= workers[w].row /\ old.covered <= workers[w].env
      BY <1>1, <1>2, <1>3, <1>5, <1>13 DEF Carries, Loaded
    <3>3. \A k \in Kinds : cluster[a][k] = Source(w, k)
      BY <1>1, <1>5 DEF Carries
    <3> QED BY <3>1, <3>2, <3>3 DEF Source
  <2>3. [b \in Apps |-> Met(b)]' = [[b \in Apps |-> Met(b)] EXCEPT ![a] = TRUE]
    BY <1>9, <2>1, OneLife
  <2>4. Life!Meet(a)
    BY <1>5, <1>12, <2>2, <2>3 DEF Life!Meet
  <2> QED BY <2>4 DEF LifeStep, Life!Next
<1>14. CASE g # old.desired
  <2>1. old.reconciled <= g /\ g <= old.desired
    BY <1>1, <1>2, <1>3, <1>5 DEF GenerationInv
  <2>2. old.reconciled # old.desired
    BY <1>14, <2>1 DEF Row, Generation
  <2>3. ~Met(a) /\ ~Met(a)'
    BY <1>3, <1>6, <1>7, <1>14, <2>2 DEF Met
  <2>4. Met(a)' = Met(a)
    BY <2>3, Zenon DEF Met
  <2>5. [b \in Apps |-> Met(b)]' = [b \in Apps |-> Met(b)]
    BY <1>9, <2>4 DEF StaysAs
  <2> QED BY <1>5, <1>12, <2>5 DEF LifeStep, Life!vars
<1> QED BY <1>13, <1>14

(* The end of a removal finds that nothing is left.                        *)
LEMMA LifeFinishDelete ==
  ASSUME TypeOK, LeaseInv, LeaseInv', NEW w \in Workers, FinishDelete(w)
  PROVE  LifeStep
<1>1. PICK a \in Apps : a = workers[w].app
  BY HolderOf DEF FinishDelete
<1>2. /\ Busy(w) /\ workers[w].deleting
      /\ workers' = [workers EXCEPT ![w] = Idle] /\ cluster' = cluster
      /\ Exists(a) /\ Phase(a) = "removing" /\ Matches(w)
      /\ services[a].state = "deleting"
  BY <1>1, HolderOf DEF FinishDelete, LeaseInv, SoleHolder, CleansUp
<1>3. /\ services'[a] = NoRow
      /\ \A b \in Apps \ {a} : services'[b] = services[b]
  BY <1>1, <1>2 DEF FinishDelete, TypeOK
<1>4. \A b \in Apps \ {a} : StaysAs(b)
  BY <1>1, <1>2, <1>3, LetsGo
<1>5. /\ Phase(a)' = "absent" /\ Wanted(a)' = 0 /\ Asked(a)' = 0
  BY <1>3 DEF Phase, Wanted, Asked, Exists
<1>6. Met(a)' = FALSE
  BY <1>3 DEF Met, Exists
<1>7. \A k \in Kinds : cluster[a][k] = NoObject
  BY <1>2, <1>3 DEF LeaseInv, TombstoneUntilClean, Exists
<1>8. Life!Gone(a)
  BY <1>2, <1>4, <1>5, <1>6, <1>7, OneLife DEF Life!Gone
<1> QED BY <1>8 DEF LifeStep, Life!Next

(* A failure is recorded: a removal stays one, and an apply may only take  *)
(* the row out of state deleting before a removal has begun.               *)
LEMMA LifeFailure ==
  ASSUME TypeOK, LeaseInv, NEW w \in Workers, RecordFailure(w)
  PROVE  LifeStep
<1>1. PICK a \in Apps : a = workers[w].app
  BY HolderOf DEF RecordFailure
<1>2. PICK old \in Row : old = services[a]
  BY <1>1, ItemType, HolderOf DEF RecordFailure
<1>3. PICK r : r = Failed(old, FailedState(w))
  OBVIOUS
<1>4. /\ Busy(w) /\ workers' = [workers EXCEPT ![w] = Idle] /\ cluster' = cluster
      /\ Exists(a) /\ Matches(w)
      /\ workers[w].deleting => Phase(a) = "removing" /\ old.state = "deleting"
      /\ ~workers[w].deleting => Phase(a) \in {"live", "leaving"}
  BY <1>1, <1>2, HolderOf DEF RecordFailure, LeaseInv, SoleHolder, CleansUp
<1>5. /\ services'[a] = r
      /\ \A b \in Apps \ {a} : services'[b] = services[b]
  BY <1>1, <1>2, <1>3, <1>4 DEF RecordFailure, TypeOK
<1>6. /\ FailedState(w) \in States
      /\ workers[w].deleting <=> FailedState(w) = "deleting"
  BY DEF FailedState, States
<1>7. /\ r \in Row /\ r.tombstone = old.tombstone
      /\ r.state = "deleting" <=> workers[w].deleting
  BY <1>3, <1>6, FailedRow
<1>8. /\ r.desired = old.desired /\ r.covered = old.covered
      /\ r.spec = old.spec /\ r.reconciled = old.reconciled
  BY <1>3 DEF Failed, Row
<1>9. Exists(a)'
  BY <1>5, <1>7, SentinelAssumption DEF Exists
<1>10. ~Applying(a)' /\ \A b \in Apps \ {a} : StaysAs(b)
  BY <1>1, <1>4, <1>5, LetsGo
<1>11. Phase(a)' = Phase(a)
  <2>1. Phase(a) = IF ~old.tombstone THEN "live"
                   ELSE IF workers[w].deleting THEN "removing" ELSE "leaving"
    BY <1>2, <1>4, PhaseOf
  <2> QED BY <1>5, <1>7, <1>9, <1>10, <2>1 DEF Phase
<1>12. Wanted(a)' = Wanted(a) /\ Asked(a)' = Asked(a)
  BY <1>2, <1>4, <1>5, <1>8, <1>9 DEF Wanted, Asked
<1>13. Met(a)' = Met(a)
  <2>1. Met(a)' <=> Met(a)
    BY <1>2, <1>4, <1>5, <1>8, <1>9 DEF Met
  <2> QED BY <2>1, Zenon DEF Met
<1>14. \A b \in Apps : StaysAs(b)
  BY <1>10, <1>11, <1>12, <1>13 DEF StaysAs
<1> QED BY <1>4, <1>14, AllStay DEF LifeStep, Life!vars

(* A worker dies.  Its last call may have taken effect, and with an apply  *)
(* goes what held up the removal.                                          *)
LEMMA LifeCrash ==
  ASSUME TypeOK, LeaseInv, AppliedInv, NEW w \in Workers, Crash(w)
  PROVE  LifeStep
<1>1. PICK a \in Apps : a = workers[w].app
  BY HolderOf DEF Crash
<1>2. /\ Busy(w) /\ workers' = [workers EXCEPT ![w] = Idle] /\ services' = services
      /\ UNCHANGED cluster \/ (Calls(w) /\ CallTakesEffect(w))
      /\ Exists(a) /\ Exists(a)'
      /\ workers[w].deleting => Phase(a) = "removing"
      /\ ~workers[w].deleting => Phase(a) \in {"live", "leaving"}
  BY <1>1, HolderOf DEF Crash, LastCallMayHaveReached, Exists
<1>3. ~Applying(a)' /\ \A b \in Apps \ {a} : StaysAs(b)
  BY <1>1, <1>2, LetsGo
<1>4. Wanted(a)' = Wanted(a) /\ Asked(a)' = Asked(a)
  BY <1>2 DEF Wanted, Asked
<1>5. Met(a)' = Met(a)
  BY <1>2, Zenon DEF Met
<1>6. /\ [b \in Apps |-> Wanted(b)]' = [b \in Apps |-> Wanted(b)]
      /\ [b \in Apps |-> Asked(b)]' = [b \in Apps |-> Asked(b)]
      /\ [b \in Apps |-> Met(b)]' = [b \in Apps |-> Met(b)]
  BY <1>3, <1>4, <1>5 DEF StaysAs
<1>7. Phase(a)' = Phase(a) \/ (Phase(a) = "leaving" /\ Phase(a)' = "removing")
  <2>1. Phase(a)' = IF ~services[a].tombstone THEN "live"
                    ELSE IF services[a].state = "deleting" THEN "removing"
                    ELSE "leaving"
    BY <1>2, <1>3 DEF Phase
  <2> QED BY <1>2, <2>1, PhaseOf
<1>8. \/ [b \in Apps |-> Phase(b)]' = [b \in Apps |-> Phase(b)]
      \/ /\ Phase(a) = "leaving"
         /\ [b \in Apps |-> Phase(b)]' =
              [[b \in Apps |-> Phase(b)] EXCEPT ![a] = "removing"]
  <2>1. CASE Phase(a)' = Phase(a)
    BY <1>3, <2>1 DEF StaysAs
  <2>2. CASE Phase(a) = "leaving" /\ Phase(a)' = "removing"
    BY <1>3, <2>2, OneLife
  <2> QED BY <1>7, <2>1, <2>2
<1>9. CASE UNCHANGED cluster
  <2>1. CASE [b \in Apps |-> Phase(b)]' = [b \in Apps |-> Phase(b)]
    BY <1>6, <1>9, <2>1 DEF LifeStep, Life!vars
  <2>2. CASE /\ Phase(a) = "leaving"
             /\ [b \in Apps |-> Phase(b)]' =
                  [[b \in Apps |-> Phase(b)] EXCEPT ![a] = "removing"]
    <3>1. Life!BeginRemoval(a)
      BY <1>6, <1>9, <2>2 DEF Life!BeginRemoval
    <3> QED BY <3>1 DEF LifeStep, Life!Next
  <2> QED BY <1>8, <2>1, <2>2
<1>10. CASE Calls(w) /\ CallTakesEffect(w) /\ Target(w) \in Kinds
  BY <1>1, <1>6, <1>8, <1>10, LifeCall
<1>11. CASE Calls(w) /\ CallTakesEffect(w) /\ Target(w) \notin Kinds
  BY <1>9, <1>11, NoTarget
<1> QED BY <1>2, <1>9, <1>10, <1>11

(* The control plane leads the life of AppLife with every app, through     *)
(* queue, leases, failures and retries: for any number of apps, replicas,  *)
(* versions and faults, without drift and overlapping workers.             *)
THEOREM LivesAreLed ==
  ASSUME NoOverlap, NoDrift
  PROVE  Spec => LeadsLives
<1>1. Init => Life!Init
  BY DEF Init, Life!Init, Phase, Wanted, Asked, Met, Exists
<1>2. TypeOK /\ TypeOK' /\ LeaseInv /\ LeaseInv' /\ GenerationInv /\ AppliedInv
        /\ [Next]_vars => [Life!Next]_(Life!vars)
  <2> SUFFICES ASSUME TypeOK, TypeOK', LeaseInv, LeaseInv', GenerationInv, AppliedInv,
                      [Next]_vars
               PROVE  LifeStep
    BY DEF LifeStep
  <2>1. \A a \in Apps, k \in Kinds : ~Drift(a, k)
    BY DEF Drift, NoDrift
  <2> QED BY <2>1, StepShapes, LifeQuiet, LifeCreate, LifeRewrite, LifeClaim,
             LifeProceed, LifeFinishApply, LifeFinishDelete, LifeFailure, LifeCrash
<1> QED BY <1>1, <1>2, TypeCorrect, LeaseIsExclusive, GenerationsOrdered,
           WhatIsRecordedIsApplied, PTL
        DEF Spec, LeadsLives, Life!Spec
=============================================================================
