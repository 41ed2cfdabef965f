# A verification project for edinstance-lab

TLA+ modules of the platform kept in this repository, TLC configurations that
check them on small instances, and TLAPS proofs of what holds for every
instance. Paths below are relative to `src/`.

Contents: [the system](#the-system), [the modules](#the-modules),
[the runs](#the-runs), [what is proved](#what-is-proved),
[not modelled](#what-is-not-modelled), [further work](#further-work).

## The system

The repository describes a small home-lab cloud: `services/platform-api` (Go)
keeps apps and databases in PostgreSQL and makes a Kubernetes cluster agree with
them, `services/frontend` (TypeScript) is the console and the issuer of tokens,
and `kubernetes`, `scripts`, `ansible` and `.github` deploy the two by Flux.

| Component | State it keeps | Operations | What is hard about it | What makes it correct |
|---|---|---|---|---|
| Reconciliation queue (`internal/reconciler/worker.go`, `reconciler.go`, `spec.go`; `internal/server/server.go`, `store.go`, `env.go`) | the `services` row: generations, `reconcile_state`, lease, tombstone; an app's Kubernetes objects | create, update, redeploy, delete, write or upload env; claim, load, apply, remove, finish, fail | three replicas of `platform-api` poll one table; handlers write rows that a worker is busy with; calls fail half-way and replicas die | one worker per app; newest specification wins and is reached; a deletion is carried out and leaves nothing |
| PostgreSQL databases (`internal/server/postgres.go`, `reconciler.DeletePostgres`) | the `postgres_databases` row; five objects; a password kept twice (row and Secret) | create, delete, credentials: each a synchronous sequence of check, object calls and row statement | no lease, no transaction around the sequence: requests for one name interleave, the client may go away in the middle | a row has its objects; row and Secret agree on the password; nothing is left behind a delete |
| App status (`RefreshAppStatus`, `status.go`) | `status`, `last_reconcile_error`, `updated_at` | refresh on GET, write by handlers and worker | a status is read from the cluster and written later | `ready` is only said of a running Deployment; status does not stay behind for ever |
| Migrations (`internal/platformdb`) | `schema_migrations` | migrate at start-up | replicas start together and migrate one database; a replica dies in between | each migration takes effect once, in order; every replica gets to serve |
| Key store (`internal/auth`) | a map of public keys per replica | verify a token, refresh on an unknown key | refreshes overlap and answers arrive out of order while the issuer rotates keys | a token signed by a current key is accepted, once the refresh it causes has ended |
| Env files (`internal/envfile`, `internal/secrets`) | none | parse, encrypt | escapes and quoting | parse keeps what was written |
| Operations of the console (`useManageController.ts`, `platform/api.ts`) | lists of variables loaded so far, one `busyApp`, one `envApp` | load, save, remove, import, redeploy, health path, create, delete | handlers close over a past render; one field is cleared by whichever operation ends; a request that timed out may succeed later | what is shown agrees with what is stored; nothing stays disabled |
| Manage page (`routes/manage.tsx`, drawers, tabs, modals) | what is selected and open, what was typed and revealed | select, type, reveal, save, create, remove | React keeps a tab mounted when another service takes its place; calls come back to tabs that are gone | nothing of one service shows under another; nothing typed is hidden or lost |
| Lists and canvas (`useManageController.ts`, `TopologyCanvas.tsx`, `lib/topology.ts`) | the cached lists; the canvas's nodes and its frame | fetch, refetch, append, render | fetches overlap changes; a frame runs after a newer render; identifiers are joined strings | at rest the lists are those stored and the canvas shows them; identifiers are distinct |
| Sign-in, sign-up and its limit (`lib/auth.ts`, `lib/rate-limit.ts`, `routes/login.tsx`) | failures per address and window; the cached session | count, refuse, forgive; submit, redirect | fixed windows; a session that was cached as signed out just before signing in | guesses are limited; nobody is locked out for longer than a window; who signs in gets in |
| Mock mode (`platform/mock-data.ts`) | arrays and side tables | every call of `platform/api.ts` | several structures hold what one row holds in the API | it keeps what the console relies on of the API |
| Image rollout (`.github/workflows/platform-images.yml`, `scripts/update-platform-deployments.sh`, `kubernetes/gitops/sync`) | images in a registry, tags in git, the Flux kustomizations | build, push, commit, reconcile | runs overtake and cancel each other; kustomizations wait for one another | what git names exists; the deployed tag does not go back |
| Logs, metrics and their views, middleware, configuration, telemetry, manifests, playbooks, rebuild scripts | none of their own, or declarative | | | |

The parts meet in three places. Handlers and workers share the row: they never
call each other, every message between them is a column (`reconcile_state`,
`desired_generation`, `next_reconcile_at`, `reconcile_lease_until`,
`deletion_requested_at`). Workers and the cluster meet in server-side apply and
delete calls, which are idempotent, but say nothing of the order between two
callers. The console meets the API in requests that it abandons after ten
seconds.

`PROJECT.json` lists the components with their status, and under `hazards` the
places where this code is hard to test, with the properties that cover them.

## The modules

### Reconciliation

The app control plane as one state machine: handlers, workers, the objects in
the cluster, and faults.

| Variable | In the code |
|---|---|
| `services[a]` | the row of `services` named `a`, or `NoRow` |
| `cluster[a][k]` | `a`'s object of kind `k`, as the version it was rendered from, or `NoObject` |
| `workers[w]` | the `workItem` of one replica's worker goroutine and where it is in `processNext`, or `Idle` |
| `envCalls[a]` | a request on `a`'s variables between the lookup of the service and its last statement |
| `refreshes[a]` | a GET that has found `a`'s Deployment ready and has not yet updated the row |
| `version[a]` | a counter of the specifications of `a` ever stored; `id` of a row is the version it was created with, for the code's fresh UUID |
| `faults` | faults so far, bounded by `MaxFaults` |

A row's `spec` is the version last stored, `covered` the version that
`desired_generation` was last raised for (the code has no such column; it lets
the properties say what a generation asked for), `due` stands for
`next_reconcile_at <= now()`, `leased` for a lease in the future, `tombstone` for
`deletion_requested_at is not null`. Each SQL statement, or transaction, is one
action; a handler or worker that makes several of them is several actions, and
anything may happen in between:

* `CreateApp`, `UpdateApp`, `DeleteApp`, `RedeployApp`: one statement (or one
  transaction) each.
* `FindService`, then `ReplaceEnv` (an upload, one transaction) or `StoreEnvVar`
  and `EnqueueEnvReconciliation` (PUT and DELETE of a variable, two statements).
* `ReadDeployment`, `RefreshAppStatus`: GET of an app.
* `ClaimNext`, then `LoadRow`, `LoadEnv`, one `Call` per object and `FinishApply`;
  or one `Call` per object and `FinishDelete`; `RecordFailure` after an error.
* `CallFails` (an error or timeout, perhaps after the call took effect), `Crash`
  (of a worker), `RequestDies` (of a handler), `Drift` (another client removes an
  object), `BecomesDue`, `LeaseExpires` (time).

`Happens` names the events a configuration allows, so that one module serves
runs that ask different questions. Left out: columns that steer nothing here
(`status`, attempts, error text, timestamps; backoff is that a failed row is due
again at an unknown later time), the contents of objects, apps without domains
(they have one object fewer), and the mode without reconciler.

`LeaseExpires` is the one place where time orders events. A lease lasts twice
`reconcileTimeout`, and every Kubernetes call of the item runs under a context
with that timeout, so when a lease ends its holder sends no more calls, and a
call that it gave up is assumed to have reached the cluster or not by then. Its
last statement runs under the worker's own context without a timeout: with
`"stall"` in `Happens` it may come after the lease has ended.

### AppLife

What whoever asks the control plane for apps may rely on, without queue, leases,
workers and retries. An app has a `phase` (absent, live, leaving, removing), the
version last stored (`wanted`), the version its objects were last `asked` to reach,
whether they are said to have `met` it, and the version each of them is `running`.
An object only becomes a newer version, and one that was stored; only what runs is
said to have been met; an app that was asked to go may still be brought up to date
until its removal begins, which ends in absence and nowhere else; nothing is left of an
app when it is absent.

`LeadsLives` in `Reconciliation` is the refinement. `Phase` maps a row without tombstone
to live, one with a tombstone to leaving, and to removing once it is in state
`deleting` and no apply is under way that could overwrite that state; `Wanted` and `Asked`
are the row's `spec` and `covered`, `Met` says that its generations are equal, `running` is
the cluster. That a DELETE can be forgotten is no contradiction: an app may leave for
ever, since `AppLife` promises nothing of when.

### MCReconciliation

Extends `Reconciliation` for TLC with the symmetry of workers, used in the safety
run only.

### ReconciliationProofs

Theorems about `Reconciliation`; see [below](#what-is-proved). The two inductive
invariants that say something of the system itself, `LeaseInv` and `AppliedInv`, are
in `Reconciliation` and checked by the safety run as well.

### PostgresDatabases

The life of one database name: `row`, `objects` (five kinds), and `requests`, the
POSTs and DELETEs of that name, each sent once. A request has a kind, a `pc`
(`call`, `store`, `late`, `done`), the optional resources it asks for, the kinds it
still has `todo`, the row its existence check `found` and its `answer`. What a
create asks for, its password included, is represented by the request itself:
row and objects say which request they are from.

`SendCreate` and `SendDelete` are the handlers up to and including the existence
check, `Call` is one apply or delete call, `InsertRow` and `DeleteRow` the last
statement. `CallFails` ends a handler whose call failed, or whose client hung up,
which cancels `r.Context()`; the call itself may still arrive (`LateCall`).
`StatementFails` is a last statement that fails, or commits unanswered.
`Overlaps` says which kinds of request may be under way together. Left out: the
encryption of the password, validation (its one rule that shapes the objects is
`Options`), an existence check that itself fails (it has no effect), what
CloudNativePG makes of the objects, and finalizers: a deleted object is gone when
the call has taken effect. The list and the
credentials read the row only. `RefreshPostgresStatus` has no caller.

`MCPostgresDatabases` gives `Overlaps` its values and the symmetry of requests;
`PostgresProofs` holds the theorems.

### SignUpLimit, SignIn

`SignUpLimit` is the limiter alone: `attempts` is the Map `failedSignupPasswords`
of one server process, `now` the clock, and the ghost `guesses` lists when each
address guessed wrong since it was last right, which the code does not keep.
`WrongPassword` and `RightPassword` are the two ways through the plugin's hook
for an address that is not blocked; each is one step, since from check to count
nothing is awaited. `Restart` is a new process, with an empty Map.

`SignIn` extends it with one person at one browser: the login page (`page`,
`mode`, `submitting`, `request`), the session query of the console (`cached`,
`fresh`, `reading`), the cookie and the account. `Mount`, `SessionAnswered`,
`GoStale` and `Forget` are what the query cache does with `staleTime` and
collection; the redirect to the login page happens in the step that makes the
cached answer "out". `Submit`, `HandleSignIn`, `HandleSignUp`, `Welcomed` and
`TurnedAway` follow a form to its answer. Other people guess from the same
address, answers are lost, sessions end, the server restarts, pages are
reloaded. better-auth is modelled from how the code uses it. `SignIn` is put together
from the limiter's own steps, so that what is shown of `SignUpLimit` carries over.

### ServiceConsole

The operations of `useManageController` on services and their variables.

| Variable | In the code |
|---|---|
| `apps`, `env` | what the platform stores: services, and the names of their variables |
| `late` | requests that land after their sender has given up |
| `listed`, `envVars`, `envApp`, `busyApp` | the cached list and the state of the same names |
| `ops[o]` | one run of a handler: its kind, its service, the list in the render it closes over (`base`), what is still to send, and where it is |
| `doubt`, `alone` | ghosts: the names that the list of a service may have wrong, and operations that nothing met |

`OpenVariables`, `ImportEnv`, `SaveEnvVar`, `RemoveEnvVar`, `SaveEnvChanges`,
`Request` and `CreateApp` are the handlers up to their first request, with the
conditions under which the drawers enable them; `LoadAnswered` ...
`EndsInError` are their continuations; `Handle`, `HandleOneOf`, `Fails`, `Hang`,
`LateLands` are the connection. An edit sends its values side by side
(`Promise.all`), so that the first refusal ends the wait while others may land.

An answer that is an error does not say that nothing was done. The API stores or removes
a variable and then enqueues the reconciliation, in two statements (`store.go:260-286`),
and answers 500 when the second fails (`env.go:79-103`), so `Fails` may take effect
first. The console then keeps the list it has (`useManageController.ts:371-398`), which
is wrong with nothing overlapping: what was saved is not shown, or what was removed is,
and a removal tried again is answered 404 and leaves the name listed until the variables
are loaded or imported anew. `doubt` holds just the names such an error was about
(`Touched`), the name that a draft brings back unlisted (`Doubts`), or all names once
two operations on the list met. A save that nothing met takes its own name out of doubt,
a load or import that nothing met all of them. `ListAgrees` says that list and store
agree on every other name.

`MCServiceConsole` says what is offered on which of two services and starts
with or without a loaded list; `ServiceConsoleProofs` holds the theorems.

### ManagePage

What the user sees and has typed. `selected`, `tab`, `creating` are the page;
`drafts`, `values`, `visible`, `revealing` the variables tab; `healthDraft` the
settings tab; `unmasked` the database drawer. A draft and a value remember the
service they are from, which the code does not know and the properties are
about. `Shows` is what React does when the page shows something else: contents
stay as long as the same component stays in its place, and go otherwise.
Each control is an action under the condition that enables it, and each call
ends in an action that may find its tab gone (`here`). A click on the variables tab
loads the variables, also when that tab is open already (`SelectTab`). Four ghosts name the
situations in which the code does not keep what the properties say:

* `jumped`: a creation opened the new service in the place of another one, under
  the tab that was open, and the tab's contents stayed.
* `switched`: a database was selected while another one's drawer was open;
  credentials that were unmasked stay unmasked.
* `overlapped`: two values were being revealed at once; the first answer enables
  the input of the second, whose answer then writes over what was typed.
* `reenabled`: another operation ended during a save and enabled the inputs;
  what is typed then is cleared with the drafts of the save.

`MCManagePage` adds the symmetry of services, databases, names and paths;
`ManagePageProofs` holds the theorems.

### TopologyView

The query behind both pages (`cache`, `fetch`), the creations and removals
(`calls`) and the canvas (`nodes`, and the `frame` that is due). A fetch reads
two lists separately (`Read`), and `Fetched` puts them in the cache. `Refreshes`
is the end of an operation that invalidates the query: the fetch under way is given
up if the query has something to show meanwhile, and is joined if it is the first
(`Restarted`; TanStack Query cancels a fetch only where there is data). A service
created while the first fetch runs, which the user can do, may then be in neither list nor
fetch (`Misses`); `Appends` is the end of a database's creation, which writes to the
cache and fetches nothing. `Renders` is the canvas's two effects: one copies the
nodes whenever they change, the other asks for a frame when the lengths of the
lists do. Names are sequences of their parts between dashes, so that `NodeId`
and `EdgeId` join them as the code does. Ghosts: `suspect` (a fetch met the
creation of a database, the first fetch missed a service, something failed, or
others changed what is stored; a fetch that meets none of it clears it),
`overtaken` (the lists changed and their lengths did not while a frame was due),
`met` and `clean` (who met whom). `NamesAssumption` is what `appNamePattern` makes of a
name, in the model's terms: it has a part, and none of its parts is the prefix
`database:`. `TopologyViewProofs` holds the theorems.

### PlatformStore, MockPlatform

`PlatformStore` is what the console relies on of a platform, whichever is behind
`platform/api.ts`: services, names of variables, values, databases and passwords as
plain sets and functions, and the last `call` with its answer. A file has a value for
each of its names, and the value of a variable is the one last given, by itself or in a
file. It leaves open what the API and mock mode do differently, each named in its
comments. `MockPlatform` is `mock-data.ts`: the arrays as sets of entries, the side
tables of values and passwords, and one action per function. The ghost `fileValues` is
what the code does not keep, the value that a file gave a variable since it was last set
by itself.

`KeepsPromisesButFileValues` is the refinement, as far as there is one
(`INSTANCE PlatformStore WITH apps <- NamesOf(apps), ...`): every step of mock mode is one
of the platform, or `FileValueForgotten`. That is the one promise mock mode breaks:
`mockUploadEnvFile` takes the names of a file and drops its values
(`mock-data.ts:215-226`), so that a variable set to 1, uploaded as 2 and read is 1,
where the API has replaced it (`store.go:203-212`). The exception is as narrow as that:
a read, of a variable that a file has set since, answered by the value set before
it. What stays behind a deletion in a side table is seen by a successor of the same name only.

## The runs

| Run | Question | Instance | Result |
|---|---|---|---|
| `reconciliation_safety` | Is the lease exclusive, are removals clean and final, do generations and objects only move forward, does all of it lead the lives of `AppLife`, while updates, env writes, deletes and refreshes interleave with two workers? | one app, two workers, all five kinds, 3 stored versions, 2 faults | holds |
| `reconciliation_liveness` | Whatever races, crashes, lost enqueues, drift, redeploys and overdue final statements there were, does a live app come to run what is stored? Is a deletion carried out? | one app, two workers, Secret and Deployment, 2 versions, 1 fault | holds |
| `reconciliation_lost_delete` | Is every DELETE answered 202 carried out? | one app, one worker, no fault | violated |
| `reconciliation_lease_cleared` | Is a name without a row without objects even when apps are redeployed? | one app, two workers, no fault | violated |
| `postgres_kinds_apart` | Creates racing creates, deletes racing deletes: does a stored database have its objects, and does it leave nothing behind? | 3 requests, 2 faults | holds |
| `postgres_creates_alone` | Do Secret, objects and row of a create that runs alone agree, after others failed half-way? | 4 requests, 2 faults | holds |
| `postgres_delete_meets_create` | Does a deleted database leave nothing behind when deletes overlap creates? | 4 requests, no fault | violated |
| `sign_in` | Are guesses limited, and blocks earned? Does whoever fills in the forms correctly again and again get in, past stale answers, the guesses of others, failures and restarts? | one address, limit 3, window 2, clock to 5, 2 faults | holds |
| `service_console` | Is the list of variables wrong about no name but those that an error was about or that operations which met may have touched, is a service disabled only while something is under way for it, and not for ever, when operations overlap, fail with or without effect, hang and land late? | 2 services, 2 names, 2 operations at once, 3 in all, 1 fault | holds |
| `manage_page` | Does anything typed or revealed for one service show under another? Is anything typed hidden or dropped? | 2 services, 2 databases, 1 platform node, 2 names, 2 paths, 2 calls at once, 3 in all | holds |
| `topology_view` | At rest, are the lists those stored, does the canvas show them, are identifiers distinct? | 3 services, 1 database, 2 calls at once, 2 in all, 1 fault | holds |
| `mock_platform` | Does mock mode keep what the console relies on, but for the values in files? | 1 service, 2 names, 2 values, 1 database, 2 passwords, 2 paths; any number of calls | holds |

Bounds. Rows of different names share nothing but the workers, so one app shows
the races of an app, and two workers the races of two holders; the proofs cover
any number of both. Three versions let an app be created, changed twice, or
deleted and re-created with a change while a worker holds a version from before.
Two faults allow a failure during the recovery from another. Two kinds suffice
for the liveness run, since what they add is that a pass over the objects can
stop in the middle; the Secret is the one that is rendered from the variables.
`desired_generation` needs no bound of its own: it only grows with versions or
with an env request, of which each stores a version first.

For databases, three requests are two that race and one before or after them,
with a fault in each of two; four, where creates run alone, add a retry.

For the limiter, a limit of three in a window of two lets a burst run over the end of a
window and two windows pass; the others stop at `QuietFrom` so that a block can end
within the clock. The person's own mistakes are fewer than the limit. In the console,
three operations of which two overlap are two that race and one before or after, which
has to cope with what they left; everything is offered on one service but for health
path and redeploy, which touch no list; loads and redeploys, which can disturb it
through the shared fields, on the other. A file names the variable that is not there and
leaves out the one that is, so that an import both adds and removes. On the page, two of
each kind are what it takes to move from one to the other and back. On the canvas, the
names are a service and a database of one name and two services whose names read like
identifiers (`platform-api`, `database-x`). In mock mode two values tell a superseded
one from the last, two passwords do the same for a database created anew, and the proof
covers more of everything. Mock mode has no bound on calls: its state is finite by
itself.

Deadlock is checked where something can always happen: `mock_platform`,
`manage_page`. Elsewhere the bounds run out: a row is deleted and `MaxVersion`
reached, every request sent, the clock at its end, or no operation left to
start, and then the system rightly stops.

Fairness of `Reconciliation` (`FairSpec`). `Run` loops for ever, so a worker that holds
an item goes on (weak fairness of `Work`); the faults are separate actions without
fairness. A due row is claimed in the end although it may be leased and freed again and
again, because `claimNext` takes the row that has been due longest (strong fairness of
`ClaimNext` per app). Time passes (`BecomesDue`, `LeaseExpires`), and a handler past its
first statement goes on to the second or dies with its replica
(`EnqueueEnvReconciliation`). No handler is ever obliged to be called.

Fairness of `SignIn`. Requests are answered, answers grow stale and time passes
(weak fairness). The property is about a person who keeps trying, so the person
selects either mode and submits it correctly again and again as often as that is
possible (strong fairness); mistakes, lost answers, reloads and restarts are
separate actions without fairness. Of `ServiceConsole`: a request that does not
hang is answered, the timer of `apiFetch` fires and handlers go on (weak
fairness of `GoesOn`); nobody is obliged to start anything, and a late request need
never land. `BusyClears` says nothing of a body that stalls after
its headers, or of a token request that hangs: neither has a timer
(`api.ts:472-483`), and neither is in the model.

What the violations show. `FinishApply` writes `ready` over the `deleting` that a DELETE
wrote during the apply (`worker.go:77`); `desired_generation` does not tell them apart
because DELETE does not raise it. And `redeployApp` clears a lease that may be in use
(`server.go:225`); a second worker can then delete the app under the first, which goes
on to create an object that has no row. The property that does hold of deletions,
`DeleteCompletes`, starts when no apply is under way any more; `Settles` is about apps
without a tombstone. Databases have no lease at all: a second DELETE that is still at
work when the name is created again removes the new row by its name (`postgres.go:222`)
and leaves its objects.

What the passing runs of the console do not claim. The code has no statement that these
do not happen, so they are named in the model, by its ghosts, and not counted as errors:
a save that overlaps another save, or is computed from a list that was not loaded,
leaves rows out of the list that is shown; a save or removal that took effect and was
answered by an error is not shown; a list outlives the deletion of its service; a draft
can bring back a name that is not listed any more; an operation that ends enables the
controls of a service on which another is still under way; a fetch that overlaps the
creation of a database lists it twice or not at all until the next one; a service
created during the first fetch may be missing until the next one; in mock mode the
values in a file are not kept; a frame shows older nodes when the lists have changed and
their lengths have not; a service called `platform-api`, `db` or `database-x` has the
identifier of something else; a removal that ends closes whichever drawer is open. With
its ghost or exception taken out of the property, TLC shows each of those that a
property excludes, except for `db`, which is not among the names of the run.

Nor do the runs of the control plane claim more than their atoms allow. `ClaimNext`
is one step, because selecting a row with `for update skip locked` and leasing it are one
transaction (`worker.go:102-122`) under the lock of the row; a claim whose two statements came
apart would be another program, and is not what `OneWorkerPerApp` is checked against.
`LoadRow` reads a row and its domains at once, where the code has two statements
(`spec.go:19-36`), and `Written` leaves out that a Deployment is also rendered from
the names of the variables. In `postgres_creates_alone` a call that arrives late
counts as part of its request, so no create starts before it has; nothing in the code
makes a user wait for that, and a create that does not meets a call of the one before,
like one that overlaps it.

Two more things the model shows of databases without a run of their own, since
nothing in the repository says otherwise. Two creates that overlap break
`RowAgrees`: both find the name free, the later one overwrites the Secret, and the
row may keep the earlier one's password. And a create that fails half-way leaves
objects without a row, which DELETE cannot remove; a later create of the name
takes over those it asks for itself, but a public service that it does not ask
for stays.

## What is proved

Every invariant and every action property that a passing run checks is a theorem
as well, and so are the two refinements. Where a property is not inductive, the
strengthening was checked by TLC on the instances of the runs before it was
proved.

About apps, for any `Apps`, `Workers`, `Kinds`, `MaxVersion` and `MaxFaults`, from the
four assumptions of `Reconciliation` (the kinds are known to `Rank`, the events to
`Events`, bounds are natural numbers, `NoRow` and `Idle` are no rows and items):

* `TypeCorrect`: `Spec => []TypeOK`.
* `LeaseIsExclusive`: `NoOverlap` implies `Spec => []LeaseInv`, and from it
  `OneWorker` and `NoOrphans` (`OneWorkerPerApp`, `TombstoneUntilClean`).
* `RemovalEnds`: `Spec => RemovalIsFinal`, without `NoOverlap`: redeploys and
  overdue statements do not call a deletion off either.
* `GenerationsOrdered`: `NoOverlap` implies `Spec => []GenerationInv`, and from it
  `ReconciledOnlyAdvances` (`ReconciledAdvances`), drift or not.
* `WhatIsRecordedIsApplied`: `NoOverlap` and `NoDrift` imply `Spec => []AppliedInv`,
  and from it `ReconciledApplied` and `ObjectsOnlyAdvance`
  (`ReconciledMeansApplied`, `NeverRollsBack`).
* `LivesAreLed`: `NoOverlap` and `NoDrift` imply `Spec => LeadsLives`.

`NoOverlap` says that neither redeploys nor overdue final statements happen. It
is not a convenience: `reconciliation_lease_cleared` refutes the conclusion with
redeploys, and an overdue `recordFailure` or completion frees a lease that
another worker holds by then. With two holders the one with the older
specification may write last, which refutes the properties of objects and
generations too. `NoDrift` says that nobody else removes an object: what is recorded
as reconciled is then not in the cluster until the row is due again, and the
removal itself is the step back that `NeverRollsBack` excludes.

The argument. Neither of the two properties is inductive by itself: that two
workers never share an app follows from the row being leased while an item is
held, which needs every statement that frees a lease to come from the one
holder, which needs the holder's row not to disappear or be re-created under it,
which needs removal to be the holder's as well. `LeaseInv` says all of it: a busy
worker's item matches the row in the table, that row is leased, no other worker
holds it (`SoleHolder`); an item that deletes finds the row in state `deleting`
and has already removed what it no longer has to do (`CleansUp`); such a row has
a tombstone, so no enqueue takes it out of that state; and a name without a row
has no objects. The lemmas follow the shapes of the steps rather than the
actions: `RowStep` (a statement of a handler), `ItemStep` (a worker goes on),
`ReleaseStep` (a worker lets go), `ClaimStep`, `CreateStep`, `DriftStep`,
`QuietStep`; the theorem shows for each action which shape it has.

`RemovalEnds` cannot lean on the lease, which a redeploy frees. Its invariant
`TombstoneInv` is about what no step takes back: the id of a row, or of the row
an item came from, is no greater than `version`, which every new row raises, so
an id never comes back; a row in state `deleting` has a tombstone, and so has the
row of an item that deletes while that row is there. Lemma `RowChange` then says
what one step can make of a row: it is removed, or keeps its id, its tombstone
and, unless an apply under way ends in that step, the state `deleting`.

Generations. A completed item sets `reconciled_generation` to the generation it
was claimed with. That this never takes it back, or past `desired_generation`,
needs the item's generation to lie between the two (`GenerationInv`), and that
needs the row under the item to be the one it was claimed from, which is
`LeaseInv`. Objects. That an object is never rolled back is about a worker that
holds a version from some time ago: `Carries` says of its item that the versions
it has loaded are no older than what `covered` says the generation asked for when it
was claimed, that no object is newer than what the item writes, and that the objects
it is past carry exactly that; `InOrder` that neither a row nor an object is ahead
of what was stored; `Whole` that a row which has caught up has its objects, up
to the moment its removal starts. The three together are `AppliedInv`. The steps fall
into the shapes of `StepShapes`, and each shape has its lemma (`ApplyQuiet`, `ApplyCreate`,
`ApplyRewrite`, `ApplyClaim`, `ApplyProceed`, `ApplyFinish`).

Lives. `LivesAreLed` takes the three invariants and shows of each shape which step of
`AppLife` it is, or that it is none (`LifeQuiet`, `LifeCreate`, `LifeRewrite`, `LifeClaim`,
`LifeProceed`, `LifeFinishApply`, `LifeFinishDelete`, `LifeFailure`, `LifeCrash`). They
are needed throughout: that an object is not taken back is `Carries`, that a new app
finds nothing of a former one is `LeaseInv`, that what is recorded as reconciled
runs is both. The phase of an app depends on row and worker at once, so the end of an
apply (`LetsGo`) is a step of a life as well: a failure, a crash, or an item that
another worker will finish may be the moment at which removal begins.

About databases, for any `Requests`, `MaxFaults` and `Overlaps`: `TypeCorrect`
(`Spec => []TypeOK`), and, for `Overlaps` that keep creates and deletes apart
(`Apart`), `ApartInvariant` and from it `StoredIsComplete` and `DeletedIsGone`
(`RowHasObjects`, `DeletedLeavesNothing`). `Apart` is what the code does not ensure:
`postgres_delete_meets_create` refutes the conclusion without it. The invariant
adds to the two properties that all requests under way are of one kind, that
what a handler no longer has `todo` is done (nobody of the other kind can undo
it), that a delete found the row there is, and that no request under way has
been answered 201. Its lemmas are the three shapes of a step: a request arrives
(`FirstStep`), goes on or gives up (`HandlerStep`), ends (`LastStep`).
Where no request overlaps a create (`CreatesAlone`), `AloneInvariant` gives
`StoredAgrees` (`RowAgrees`). A create under way then has the name to itself: there
is no row, and every object it has dealt with is its own, whatever an earlier
create left half-way (`HasNameAlone`). Two creates that overlap break it, as said
above.

About the limiter, for any addresses, limit and window, and without regard to
`MaxTime`: `GuessesAreLimited` (`LimitSpec => []SlidingLimit`) and
`NobodyIsLockedOut` (`LimitSpec => []BlockedForCause`). Neither follows from the
Map alone, which forgets when the guesses were made. The invariant `LimitInv` ties
the Map to the list: guesses are in order and not in the future; a counter counts
the last guesses of the list, from the one that started its window; and all but
the last `MaxFailures - 1` of the others are a whole window older than that start
(or than now, without a counter), since the windows before it held no more than
the limit each. One lemma per kind of change keeps it.
`SignInIsLimited` carries both bounds over to the whole, by the lemma that `SignIn`,
as it is composed, touches the limiter only through its own steps; `TypeCorrect` of
`SignIn` takes the types of the limiter from the same lemma.

About the console's operations, for any services, names, files, operations at once and
faults: `TypeCorrect`, `BusyOwned` (`BusyHasOwner`, inductive with the types) and
`ListsAgree` (`ListAgrees`). A list comes to differ from what is stored where two
operations on it meet, where an error was no refusal, or where a draft outlives its
name; the ghost `doubt` says about which names, and what has to be proved is that about
all others everything is harmless. The invariant `ListInv` says of each service of which
not every name is in doubt: one operation at most touches its list (`AppInv`); the list
is what is stored, but for the names that this operation may have changed (`Right`,
`Pending`); and what its handler relies on is so, its render not outdated, its answer
what is stored, no other request still to land (`OpInv`). It says of each operation that
is alone why what it settles will be right whatever was in doubt before (`AloneInv`).
One lemma per handler shows that its steps keep that of its own service, `Frame` that
they keep it of all others.

About the page, for any services, databases, names and calls: `TypeCorrect`, and
`PageInvariant`, from which follow `OnlyWhatBelongs`, `DraftShown` and `DraftsSent`
(`NothingOfAnother`, `DraftIsShown`, `DraftsAreSent`). The invariant adds to
the first two what the calls rely on: the value that a reveal under way
will put into the tab is of the service shown (`RevealsHere`), a save under way in an
open tab keeps its inputs disabled and has sent all that is typed (`SavesHere`), and
credentials are unmasked only where a database is selected (`UnmaskedHere`).

About lists and canvas, for any names that `NamesAssumption` allows and any number of
calls: `TypeCorrect`, whose strengthening `Bounded` counts how often an entry can be
listed; `CanvasShowsLists` (`CanvasExact`), by what a frame that is due will show
(`FrameInv`); `ShownIsDistinct` (`IdsDistinct`), from the shape of the joined
identifiers alone; and `ListsAreStored` (`ListsExact`), by `ListsInv`: the creation of a
database and a fetch under way know of each other (`FetchMeets`), what a fetch has read
so far is stored but for what an answer has yet to tell (`ReadIsStored`), and so is what
is listed, but for what a fetch is due for or is about to be appended
(`CachedIsStored`); and while nothing is listed nothing is removed, so that what the
first fetch has read is still stored, and what it lacks is what it missed
(`FirstFetch`).

About mock mode, for any sets: `SampleDataIsTyped`, `SampleEntriesAreUnique`, and
`MockKeepsPromisesButFileValues`, the refinement `Spec => KeepsPromisesButFileValues`:
initial states map to initial states, and each group of calls has a lemma that maps its
steps; only a read of a variable needs the exception. The unique entries are needed for
it: a password is answered from the side table and promised of the entry.

Only model-checked: `Settles`, `DeleteCompletes`, `KeepTryingGetsIn` and `BusyClears`. They
are liveness under fairness, whose ENABLED the provers cannot handle.

## What is not modelled

* The status of apps: but for the half of `RefreshAppStatus` that writes
  `reconcile_state`, it writes columns that no statement reads to decide anything.
* Migrations: what replicas that migrate at once do to each other is decided by
  PostgreSQL (concurrent DDL, the unique key of `schema_migrations`).
* The key store of `platform-api`: a cache in front of a library, whose one race
  heals with the next refresh, which any unknown key causes.
* The server's start and shutdown: a shutdown in the middle of work is `Crash`.
* The parser of env files and encryption: text, character by character, and a
  library call.
* Logs and metrics: stateless proxies, and views of the answer to one query. Their
  arithmetic is of reals.
* Components of the console that no route uses.
* Images, the deployment commit and Flux: decided by GitHub Actions, git and Flux, of
  which the repository holds the configuration. Manifests, Helm values and
  playbooks are declarative, and the rebuild scripts are run by hand.
* The collision of an app named `x-public` with the public Service of database `x`:
  each module models one kind of resource.
* Hangs without a timer, as said under fairness, and of the console's forms the
  paste box and the form of a new variable, which name the service when sent.

## Further work

1. An abstract life of a database (absent, creating, stored, deleting) that
   `PostgresDatabases` implements as long as creates run alone.
2. What remains of `AppLife` when redeploys overlap the work of others: `RemovalEnds`
   is proved there, the rest is refuted or only known of single instances.
3. The hazards of `PROJECT.json` that no property covers yet.
