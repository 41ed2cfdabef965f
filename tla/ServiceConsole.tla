--------------------------- MODULE ServiceConsole ---------------------------
(***************************************************************************)
(* The services half of the manage console: the operations that            *)
(* useManageController runs against the platform, as the drawers start     *)
(* them, over a connection on which requests fail, hang and land late.     *)
(*                                                                         *)
(* An operation computes from the state of the render it was started in,   *)
(* and holds `busyApp' for its service; but one field serves all services, *)
(* and whatever operation ends clears it.  One console, kept open.         *)
(***************************************************************************)
EXTENDS Integers, FiniteSets

CONSTANTS Apps, Names,
          MaxOps,     \* bound on operations under way at once
          Offered,    \* which kinds are explored on each service
          Files,      \* what an imported file may name
          MaxStarts,  \* bound on operations in all
          MaxFaults,  \* bound on failures of requests
          None

Slots == 1..MaxOps  \* interchangeable: an operation takes the first one free

Kinds == {"load", "import", "put", "drop", "edit", "redeploy", "health",
          "delete", "create", "createEnv"}
Sets == SUBSET Names
Lists == {None} \cup Sets

Op == [kind : Kinds, app : Apps, names : Sets,
       base : Lists,   \* envVars[app] of the render a save or removal closes over
       todo : Sets,              \* the names an edit has still to send
       second : BOOLEAN,         \* at the second request of its handler
       pc : {"sent", "hung", "answered", "refused", "refresh"},
       answer : Lists,
       alone : BOOLEAN]          \* nothing met it; the code does not know
Late == [kind : Kinds, app : Apps, names : Sets]

ASSUME OfferedAssumption == Offered \in [Apps -> SUBSET Kinds]
ASSUME FilesAssumption == Files \subseteq SUBSET Names
ASSUME MaxOpsAssumption == MaxOps \in Nat \ {0}
ASSUME MaxStartsAssumption == MaxStarts \in Nat
ASSUME MaxFaultsAssumption == MaxFaults \in Nat
ASSUME NoneAssumption == None \notin Op /\ None \notin Apps
                         /\ \A names \in Sets : None # names

VARIABLES apps, env,  \* the platform: services, and the names of their variables
          late,       \* requests that land after their sender has given up
          listed,     \* the services the console lists
          envVars,    \* the lists it has loaded, or None
          envApp, busyApp,
          ops,
          doubt,      \* the names a list may have wrong, of each service; ghost
          started, faults

platformVars == <<apps, env, late>>
vars == <<platformVars, listed, envVars, envApp, busyApp, ops, doubt, started, faults>>

TypeOK ==
  /\ apps \subseteq Apps /\ env \in [Apps -> Sets] /\ late \subseteq Late
  /\ listed \subseteq Apps /\ envVars \in [Apps -> Lists]
  /\ envApp \in Apps \cup {None} /\ busyApp \in Apps \cup {None}
  /\ ops \in [Slots -> Op \cup {None}]
  /\ doubt \in [Apps -> Sets] /\ started \in 0..MaxStarts /\ faults \in 0..MaxFaults

Fault == faults < MaxFaults /\ faults' = faults + 1

Init ==
  /\ apps \in SUBSET Apps /\ env \in [Apps -> Sets] /\ late = {}
  /\ \A a \in Apps \ apps : env[a] = {}
  /\ listed = apps /\ envVars = [a \in Apps |-> None]
  /\ envApp = None /\ busyApp = None
  /\ ops = [o \in Slots |-> None]
  /\ doubt = [a \in Apps |-> {}] /\ started = 0 /\ faults = 0

-----------------------------------------------------------------------------
(* The platform.                                                           *)

Accepts(kind, a, names) ==
  CASE kind = "create" -> a \notin apps
    [] kind = "drop" -> a \in apps /\ names \subseteq env[a]
    [] OTHER -> a \in apps

EnvAfter(kind, a, names) ==
  CASE kind = "put" -> env[a] \cup names
    [] kind = "drop" -> env[a] \ names
    [] kind = "import" -> names
    [] kind \in {"create", "delete"} -> {}
    [] OTHER -> env[a]

TakesEffect(kind, a, names) ==
  /\ apps' = CASE kind = "create" -> apps \cup {a}
               [] kind = "delete" -> apps \ {a}
               [] OTHER -> apps
  /\ env' = [env EXCEPT ![a] = EnvAfter(kind, a, names)]

Writes(kind) == kind \in {"import", "put", "drop", "delete", "create"}

-----------------------------------------------------------------------------
(* Starting an operation.                                                  *)

Creates(kind) == kind \in {"create", "createEnv"}
Touches(kind) == kind \notin {"redeploy", "health"}
UnderWay(o) == ops[o] # None
(* What these end with is what is stored, if nothing has met them.         *)
Settles(kind) == kind \in {"load", "import", "createEnv", "put", "drop"}
Meets(o, a) == UnderWay(o) /\ ops[o].app = a /\ Touches(ops[o].kind)
Met(a) == (\E o \in Slots : Meets(o, a)) \/ (\E r \in late : r.app = a)

(* What may be wrong in the list of a service once an operation on it has  *)
(* started: all of it, if the two meet something or the list has outlived  *)
(* its service; the names that a draft brings back unlisted.               *)
Doubts(kind, a, names) ==
  IF (Touches(kind) /\ Met(a)) \/ (Creates(kind) /\ envVars[a] # None) THEN Names
  ELSE IF kind = "edit" THEN doubt[a] \cup (names \ envVars[a])
  ELSE doubt[a]

Start(o, kind, a, names) ==
  /\ ~UnderWay(o) /\ \A p \in 1..(o - 1) : UnderWay(p)
  /\ ops' = [p \in Slots |->
       IF p = o
       THEN [kind |-> kind, app |-> a, names |-> names,
             base |-> IF kind \in {"put", "drop"} THEN envVars[a] ELSE None,
             todo |-> IF kind = "edit" THEN names ELSE {}, second |-> FALSE,
             pc |-> "sent", answer |-> None, alone |-> Settles(kind) /\ ~Met(a)]
       ELSE IF Touches(kind) /\ Meets(p, a) THEN [ops[p] EXCEPT !.alone = FALSE]
       ELSE ops[p]]
  /\ doubt' = [doubt EXCEPT ![a] = Doubts(kind, a, names)]
  /\ started < MaxStarts /\ started' = started + 1
  /\ UNCHANGED <<platformVars, listed, envVars, faults>>

(* The controls that work on a listed service, and those that an operation *)
(* on it disables.                                                         *)
Shown(a, kind) == a \in listed /\ kind \in Offered[a]
Enabled(a, kind) == Shown(a, kind) /\ busyApp # a

(* selectTab and toggleEnvironment: one load of a list at a time, and none *)
(* of a list that is there; a second one joins the first.                  *)
OpenVariables(o, a) ==
  /\ Shown(a, "load") /\ envApp # a
  /\ envApp' = a
  /\ \/ /\ envVars[a] = None
        /\ \A p \in Slots : UnderWay(p) => ~(ops[p].kind = "load" /\ ops[p].app = a)
        /\ Start(o, "load", a, {})
        /\ busyApp' = a
     \/ /\ envVars[a] = None
        /\ \E p \in Slots : UnderWay(p) /\ ops[p].kind = "load" /\ ops[p].app = a
        /\ busyApp' = a
        /\ UNCHANGED <<platformVars, listed, envVars, ops, doubt, started, faults>>
     \/ /\ envVars[a] # None
        /\ UNCHANGED <<platformVars, listed, envVars, busyApp, ops, doubt, started, faults>>

(* The file input is not disabled by anything.                             *)
ImportEnv(o, a, names) ==
  /\ Shown(a, "import")
  /\ Start(o, "import", a, names)
  /\ busyApp' = a /\ UNCHANGED envApp

SaveEnvVar(o, a, n) ==
  /\ Enabled(a, "put")
  /\ Start(o, "put", a, {n})
  /\ busyApp' = a /\ UNCHANGED envApp

RemoveEnvVar(o, a, n) ==
  /\ Enabled(a, "drop") /\ envVars[a] # None /\ n \in envVars[a]
  /\ Start(o, "drop", a, {n})
  /\ busyApp' = a /\ UNCHANGED envApp

(* Values may have been typed for any names that were listed at some time: *)
(* a draft outlives the row it was typed into.                             *)
SaveEnvChanges(o, a, names) ==
  /\ Enabled(a, "edit") /\ envVars[a] # None /\ names # {}
  /\ Start(o, "edit", a, names)
  /\ busyApp' = a /\ UNCHANGED envApp

Request(o, a, kind) ==
  /\ kind \in {"redeploy", "health", "delete"} /\ Enabled(a, kind)
  /\ Start(o, kind, a, {})
  /\ busyApp' = a /\ UNCHANGED envApp

(* One creation at a time; it does not hold busyApp.                       *)
CreateApp(o, a, kind, names) ==
  /\ kind \in Offered[a]
  /\ \A p \in Slots : UnderWay(p) => ~Creates(ops[p].kind)
  /\ Start(o, kind, a, names)
  /\ UNCHANGED <<envApp, busyApp>>

-----------------------------------------------------------------------------
(* The connection.                                                         *)

At(o, pc) == UnderWay(o) /\ ops[o].pc = pc
Sending(o) == CASE ops[o].kind = "edit" -> IF ops[o].second THEN "redeploy" ELSE "put"
                [] ops[o].kind = "createEnv" -> IF ops[o].second THEN "import" ELSE "create"
                [] OTHER -> ops[o].kind
InParallel(o) == ops[o].kind = "edit" /\ ~ops[o].second
Goes(o, pc) == ops' = [ops EXCEPT ![o].pc = pc]
ConsoleStays == UNCHANGED <<listed, envVars, envApp, busyApp, doubt, started>>

Handle(o) ==
  /\ At(o, "sent") /\ ~InParallel(o)
  /\ LET a == ops[o].app
         names == ops[o].names
     IN IF Accepts(Sending(o), a, names)
        THEN /\ TakesEffect(Sending(o), a, names)
             /\ ops' = [ops EXCEPT ![o].pc = "answered", ![o].answer =
                          IF Sending(o) \in {"load", "import"} THEN env'[a] ELSE None]
        ELSE Goes(o, "refused") /\ UNCHANGED <<apps, env>>
  /\ ConsoleStays /\ UNCHANGED <<late, faults>>

(* The values of an edit travel side by side.  The first that is refused   *)
(* ends the wait; the others may land all the same.                        *)
(* Mutant: the one that ended the wait, if any, is not left out.           *)
OthersAll(o, n) == {[kind |-> "put", app |-> ops[o].app, names |-> {m}] :
                      m \in ops[o].todo \cup {n}}
Others(o, n) == {[kind |-> "put", app |-> ops[o].app, names |-> {m}] :
                   m \in ops[o].todo \ {n}}

HandleOneOf(o) ==
  /\ At(o, "sent") /\ InParallel(o)
  /\ \E n \in ops[o].todo :
       IF Accepts("put", ops[o].app, {n})
       THEN /\ TakesEffect("put", ops[o].app, {n})
            /\ ops' = [ops EXCEPT ![o].todo = @ \ {n},
                         ![o].pc = IF ops[o].todo = {n} THEN "answered" ELSE @]
            /\ UNCHANGED late
       ELSE /\ Goes(o, "refused") /\ UNCHANGED <<apps, env>>
            /\ late' = late \cup Others(o, n)
  /\ ConsoleStays /\ UNCHANGED faults

(* An error answer, or none because the connection broke.  What was asked  *)
(* for may be done all the same: a variable is stored, or removed, before  *)
(* the reconciliation is enqueued, and an answer can be lost.              *)
DoneAllTheSame(kind, a, names) ==
  \/ UNCHANGED <<apps, env>>
  \/ Accepts(kind, a, names) /\ TakesEffect(kind, a, names)

Fails(o) ==
  /\ Fault /\ At(o, "sent")
  /\ Goes(o, "refused")
  /\ \/ /\ ~InParallel(o) /\ UNCHANGED late
        /\ DoneAllTheSame(Sending(o), ops[o].app, ops[o].names)
     \/ /\ InParallel(o)
        /\ \E n \in ops[o].todo : /\ late' = late \cup Others(o, n)
                                  /\ DoneAllTheSame("put", ops[o].app, {n})
  /\ ConsoleStays

(* No answer comes; the request may be on its way, or have taken effect.   *)
Hang(o) ==
  /\ Fault
  /\ At(o, "sent") \/ At(o, "answered")
  /\ Goes(o, "hung")
  /\ \/ UNCHANGED late
     \/ /\ At(o, "sent")
        /\ \/ InParallel(o) /\ late' = late \cup Others(o, None)
           \/ /\ Writes(Sending(o)) /\ ~InParallel(o)
              /\ late' = late \cup {[kind |-> Sending(o), app |-> ops[o].app,
                                     names |-> ops[o].names]}
  /\ ConsoleStays /\ UNCHANGED <<apps, env>>

LateLands ==
  /\ \E r \in late :
       /\ late' = late \ {r}
       /\ DoneAllTheSame(r.kind, r.app, r.names)
  /\ ConsoleStays /\ UNCHANGED <<ops, faults>>

-----------------------------------------------------------------------------
(* What the handlers do with an answer.                                    *)

(* Mutant: an end that leaves the field as it is.                          *)
KeepsBusy(o) == busyApp' = busyApp
(* `finally': the one field is cleared for whichever service holds it.     *)
Releases(o) == busyApp' = IF Creates(ops[o].kind) THEN busyApp ELSE None
Ends(o) == ops' = [ops EXCEPT ![o] = None] /\ Releases(o)

ShowList(o, list) ==
  /\ envVars' = [envVars EXCEPT ![ops[o].app] = list]
  /\ doubt' = [doubt EXCEPT ![ops[o].app] = IF ops[o].alone THEN {} ELSE @]

LoadAnswered(o) ==
  /\ At(o, "answered") /\ ops[o].kind = "load"
  /\ ShowList(o, ops[o].answer)
  /\ Ends(o)
  /\ UNCHANGED <<platformVars, listed, envApp, started, faults>>

ImportAnswered(o) ==
  /\ At(o, "answered") /\ Sending(o) = "import"
  /\ ShowList(o, ops[o].answer)
  /\ ops' = [ops EXCEPT ![o].pc = "refresh", ![o].answer = None]
  /\ UNCHANGED <<platformVars, listed, envApp, busyApp, started, faults>>

(* Mutant: a variable that is deleted stays in the list.                   *)
NextListKeeps(o) == (IF ops[o].base = None THEN {} ELSE ops[o].base) \cup ops[o].names
NextList(o) ==
  LET before == IF ops[o].base = None THEN {} ELSE ops[o].base
  IN IF ops[o].kind = "put" THEN before \cup ops[o].names ELSE before \ ops[o].names

(* The list comes from the render the operation was started in, and from   *)
(* nothing if the list had not been loaded by then.  Of the variable that  *)
(* was saved or removed it is right, if nothing met the operation.         *)
VariableAnswered(o) ==
  /\ At(o, "answered") /\ ops[o].kind \in {"put", "drop"}
  /\ envVars' = [envVars EXCEPT ![ops[o].app] = NextList(o)]
  /\ doubt' = [doubt EXCEPT ![ops[o].app] =
                 (IF ops[o].base = None THEN Names ELSE @)
                   \ (IF ops[o].alone THEN ops[o].names ELSE {})]
  /\ Ends(o)
  /\ UNCHANGED <<platformVars, listed, envApp, started, faults>>

Continues(o) ==
  /\ At(o, "answered") /\ ~ops[o].second
  /\ ops[o].kind \in {"edit", "createEnv"}
  /\ ops' = [ops EXCEPT ![o].second = TRUE, ![o].pc = "sent"]
  /\ ConsoleStays /\ UNCHANGED <<platformVars, faults>>

Acknowledged(o) ==
  /\ At(o, "answered")
  /\ Sending(o) \in {"redeploy", "health", "delete", "create"}
  /\ ops[o].kind # "createEnv"
  /\ Goes(o, "refresh")
  /\ UNCHANGED <<platformVars, listed, envVars, envApp, busyApp, doubt, started, faults>>

(* The list of services is fetched again before the operation ends.        *)
Refreshed(o) ==
  /\ At(o, "refresh")
  /\ \/ listed' = apps /\ UNCHANGED faults
     \/ Fault /\ UNCHANGED listed
  /\ Ends(o)
  /\ UNCHANGED <<platformVars, envVars, envApp, doubt, started>>

(* Mutant: a request without a timer.                                      *)
NoTimer(o) == FALSE
(* The timer of apiFetch ends a wait for the answer.  A wait for a token,  *)
(* before the timer is set, and for the rest of an answer, after it is     *)
(* cleared, have none: they do not end here, and are left out.             *)
TimerFires(o) == At(o, "hung")

(* What a request may have changed of the variables, whatever is answered. *)
Touched(o) ==
  CASE Sending(o) \in {"put", "drop"} /\ ~InParallel(o) -> ops[o].names
    [] Sending(o) = "import" -> Names
    [] OTHER -> {}

(* An error, from the platform or from the timer of apiFetch: the list     *)
(* stays as it was.  A service created without its variables counts as     *)
(* created.                                                                *)
EndsInError(o) ==
  /\ At(o, "refused") \/ TimerFires(o)
  /\ IF ops[o].kind = "createEnv" /\ ops[o].second
     THEN Goes(o, "refresh") /\ UNCHANGED busyApp
     ELSE Ends(o)
  /\ doubt' = [doubt EXCEPT ![ops[o].app] = @ \cup Touched(o)]
  /\ UNCHANGED <<platformVars, listed, envVars, envApp, started, faults>>

-----------------------------------------------------------------------------
Begins(o) == \E a \in Apps :
  \/ OpenVariables(o, a)
  \/ \E names \in Files : ImportEnv(o, a, names) \/ CreateApp(o, a, "createEnv", names)
  \/ CreateApp(o, a, "create", {})
  \/ \E names \in Sets : SaveEnvChanges(o, a, names)
  \/ \E n \in Names : SaveEnvVar(o, a, n) \/ RemoveEnvVar(o, a, n)
  \/ \E kind \in Kinds : Request(o, a, kind)

GoesOn(o) ==
  \/ Handle(o) \/ HandleOneOf(o)
  \/ LoadAnswered(o) \/ ImportAnswered(o) \/ VariableAnswered(o)
  \/ Continues(o) \/ Acknowledged(o) \/ Refreshed(o) \/ EndsInError(o)

Next ==
  \/ \E o \in Slots : Begins(o) \/ GoesOn(o) \/ Fails(o) \/ Hang(o)
  \/ LateLands

(* Requests that do not hang are answered, and timers fire.                *)
Spec == Init /\ [][Next]_vars /\ \A o \in Slots : WF_vars(GoesOn(o))

-----------------------------------------------------------------------------
(* What the console shows of a service's variables is what is stored, but  *)
(* for the names that are in doubt: an undisturbed save, removal or import *)
(* keeps the list right, and makes its own variable right again after an   *)
(* error; an error leaves a doubt about the variable it was about and      *)
(* about no other, whether or not the platform had done what was asked; an *)
(* import or a load that runs alone settles everything (saveEnvVar,        *)
(* removeEnvVar, saveEnvChanges, importEnv, toggleEnvironment).            *)
ListAgrees ==
  \A a \in apps : envVars[a] # None /\ ~Met(a)
                    => envVars[a] \ doubt[a] = env[a] \ doubt[a]

(* The controls of a service are disabled only while something is under    *)
(* way for it: no way through a handler leaves busyApp behind.             *)
BusyHasOwner ==
  busyApp # None => \E o \in Slots : /\ UnderWay(o) /\ ops[o].app = busyApp
                                     /\ ~Creates(ops[o].kind)

(* And they are enabled again in the end, whatever fails (apiFetch).       *)
BusyClears == \A a \in Apps : busyApp = a ~> busyApp # a
=============================================================================
