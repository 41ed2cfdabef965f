---------------------------- MODULE TopologyView ----------------------------
(***************************************************************************)
(* The services and databases the console shows: the cached answer of one  *)
(* fetch, which reads two lists side by side; the creations and removals   *)
(* that change what is stored and then the cache; and the canvas, which    *)
(* copies the cache into nodes of its own at once, and again in an         *)
(* animation frame.                                                        *)
(*                                                                         *)
(* A name is the sequence of its parts between dashes, so that identifiers *)
(* are made of names as the code makes them.                               *)
(***************************************************************************)
EXTENDS Integers, Sequences, FiniteSets, Functions

CONSTANTS Apps, Databases,  \* names
          MaxCalls,   \* bound on creations and removals at once
          MaxStarts,  \* bound on them in all
          MaxFaults,  \* bound on failures, and on changes made by others
          None

Entries == [kind : {"app"}, name : Apps] \cup [kind : {"database"}, name : Databases]
Slots == 1..MaxCalls
Call == [does : {"create", "remove"}, entry : Entries,
         pc : {"sent", "answered"},
         met : BOOLEAN]    \* a fetch was under way at some time; ghost
Fetch == [apps : (SUBSET Entries) \cup {None}, databases : (SUBSET Entries) \cup {None},
          clean : BOOLEAN]  \* it met nothing that it may have missed; ghost
Lists == [Entries -> 0..(MaxStarts + 1)]  \* how often each is listed

ASSUME BoundsAssumption == MaxCalls \in Nat /\ MaxStarts \in Nat /\ MaxFaults \in Nat
(* appNamePattern: only a-z, 0-9 and dashes, and at least one of them.     *)
ASSUME NamesAssumption == \A n \in Apps \cup Databases :
  n \in Seq(STRING) /\ n # << >> /\ \A i \in 1..Len(n) : n[i] # "database:"
ASSUME NoneAssumption == None \notin Call \cup Fetch
                         /\ \A entries \in SUBSET Entries : None # entries
                         /\ \A lists \in Lists : None # lists

VARIABLES stored,   \* what the platform has
          cache,    \* topologyQueryKey: the lists, or None
          fetch, calls,
          nodes,    \* what the canvas shows
          frame,    \* what the frame that is due will show, or None
          overtaken,  \* the cache has changed since the frame was asked for; ghost
          suspect,    \* the lists may differ from what is stored; ghost
          started, faults

canvas == <<nodes, frame, overtaken>>
vars == <<stored, cache, fetch, calls, canvas, suspect, started, faults>>

Empty == [x \in Entries |-> 0]
Listed(entries) == [x \in Entries |-> IF x \in entries THEN 1 ELSE 0]
Shown(lists) == IF lists = None THEN Empty ELSE lists
Length(kind, lists) ==
  FoldFunctionOnSet(+, 0, lists, {x \in DOMAIN lists : x.kind = kind})

TypeOK ==
  /\ stored \subseteq Entries
  /\ cache = None \/ cache \in Lists
  /\ fetch \in Fetch \cup {None} /\ calls \in [Slots -> Call \cup {None}]
  /\ nodes \in Lists /\ (frame = None \/ frame \in Lists)
  /\ overtaken \in BOOLEAN /\ suspect \in BOOLEAN
  /\ started \in 0..MaxStarts /\ faults \in 0..MaxFaults

(* The page is mounted: nothing is loaded, and the first frame is due.     *)
Init ==
  /\ stored \in SUBSET Entries
  /\ cache = None /\ calls = [c \in Slots |-> None]
  /\ fetch = [apps |-> None, databases |-> None, clean |-> TRUE]
  /\ nodes = Empty /\ frame = Empty /\ overtaken = FALSE
  /\ suspect = FALSE /\ started = 0 /\ faults = 0

Fault == faults < MaxFaults /\ faults' = faults + 1

-----------------------------------------------------------------------------
(* The canvas.                                                             *)

(* Mutant: a frame that is due is not cancelled.                           *)
FrameKept(lists) == IF frame = None THEN lists ELSE frame
FrameFor(lists) == lists

(* Its effects, after a render with these lists: one for what they are,    *)
(* and one for how long they are.                                          *)
Renders(lists) ==
  LET sameLength == \A kind \in {"app", "database"} :
                      Length(kind, lists) = Length(kind, Shown(cache))
  IN IF lists = Shown(cache)
     THEN UNCHANGED canvas
     ELSE /\ nodes' = lists
          /\ frame' = IF sameLength THEN frame ELSE FrameFor(lists)
          /\ overtaken' = (sameLength /\ frame # None)

ResetCanvas ==
  /\ frame # None
  /\ nodes' = frame /\ frame' = None
  /\ UNCHANGED <<stored, cache, fetch, calls, overtaken, suspect, started, faults>>

-----------------------------------------------------------------------------
(* The fetch.                                                              *)

CreatesDatabase(c) ==
  calls[c] # None /\ calls[c].does = "create" /\ calls[c].entry.kind = "database"
Fresh == [apps |-> None, databases |-> None,
          clean |-> \A c \in Slots : ~CreatesDatabase(c)]

(* What is under way is taken for an answer.  As Restarted: mutant.        *)
Joined == IF fetch = None THEN Fresh ELSE fetch
(* invalidateQueries: what is under way is given up, but only if there is  *)
(* something to show meanwhile.                                            *)
Restarted == IF cache = None THEN Joined ELSE Fresh

Meeting(cs) == [c \in Slots |-> IF cs[c] = None THEN None ELSE [cs[c] EXCEPT !.met = TRUE]]

(* The page is mounted or focused again.                                   *)
Refetch ==
  /\ fetch = None
  /\ fetch' = Fresh /\ calls' = Meeting(calls)
  /\ UNCHANGED <<stored, cache, canvas, suspect, started, faults>>

Read(list, kind) ==
  /\ fetch # None /\ fetch[list] = None
  /\ fetch' = [fetch EXCEPT ![list] = {x \in stored : x.kind = kind}]
  /\ UNCHANGED <<stored, cache, calls, canvas, suspect, started, faults>>

Fetched ==
  /\ fetch # None /\ fetch.apps # None /\ fetch.databases # None
  /\ fetch' = None
  /\ cache' = Listed(fetch.apps \cup fetch.databases)
  /\ Renders(cache')
  /\ suspect' = (suspect /\ ~fetch.clean)
  /\ UNCHANGED <<stored, calls, started, faults>>

FetchFails ==
  /\ fetch # None /\ Fault
  /\ fetch' = None /\ suspect' = TRUE
  /\ UNCHANGED <<stored, cache, calls, canvas, started>>

-----------------------------------------------------------------------------
(* Creations and removals.                                                 *)

Soiled == IF fetch = None THEN None ELSE [fetch EXCEPT !.clean = FALSE]

Start(c, does, x) ==
  /\ calls[c] = None /\ \A d \in 1..(c - 1) : calls[d] # None
  /\ started < MaxStarts /\ started' = started + 1
  /\ calls' = [calls EXCEPT ![c] = [does |-> does, entry |-> x, pc |-> "sent",
                                    met |-> fetch # None]]
  /\ fetch' = IF does = "create" /\ x.kind = "database" THEN Soiled ELSE fetch
  /\ UNCHANGED <<stored, cache, canvas, suspect, faults>>

(* One creation at a time; removals are asked for in the drawer of what is *)
(* listed.                                                                 *)
Create(c, x) ==
  /\ \A d \in Slots : calls[d] # None => calls[d].does # "create"
  /\ Start(c, "create", x)
Remove(c, x) == Shown(cache)[x] > 0 /\ Start(c, "remove", x)

Without(c) == [calls EXCEPT ![c] = None]
Accepts(c) == (calls[c].does = "create") = (calls[c].entry \notin stored)
After(c) == IF calls[c].does = "create" THEN stored \cup {calls[c].entry}
                                        ELSE stored \ {calls[c].entry}

Handle(c) ==
  /\ calls[c] # None /\ calls[c].pc = "sent"
  /\ IF Accepts(c)
     THEN stored' = After(c) /\ calls' = [calls EXCEPT ![c].pc = "answered"]
     ELSE calls' = Without(c) /\ UNCHANGED stored
  /\ UNCHANGED <<cache, fetch, canvas, suspect, started, faults>>

(* The timer of apiFetch: the change may have been made all the same.      *)
GivesUp(c) ==
  /\ calls[c] # None /\ Fault
  /\ calls' = Without(c)
  /\ stored' \in {stored} \cup (IF Accepts(c) THEN {After(c)} ELSE {})
  /\ suspect' = TRUE /\ fetch' = Soiled
  /\ UNCHANGED <<cache, canvas, started>>

(* The first fetch has read the services, and not the one just created.    *)
Misses(c) ==
  /\ cache = None /\ fetch # None
  /\ fetch.apps # None /\ calls[c].entry \notin fetch.apps

(* createAppFromForm, removeApp, removeDatabase: the lists are fetched     *)
(* anew, or the first fetch goes on.                                       *)
Refreshes(c) ==
  /\ calls[c] # None /\ calls[c].pc = "answered" /\ ~CreatesDatabase(c)
  /\ fetch' = IF Misses(c) THEN [Restarted EXCEPT !.clean = FALSE] ELSE Restarted
  /\ calls' = Meeting(Without(c))
  /\ suspect' = (suspect \/ Misses(c))
  /\ UNCHANGED <<stored, cache, canvas, started, faults>>

(* Mutant: an answer without its services.                                 *)
BareFirst(x) == [y \in {e \in Entries : e.kind = "database"} |-> IF y = x THEN 1 ELSE 0]
First(x) == [Empty EXCEPT ![x] = 1]

(* createDatabaseFromForm: the new one is put at the end of the list that  *)
(* is there, and nothing is fetched.                                       *)
Appends(c) ==
  /\ calls[c] # None /\ calls[c].pc = "answered" /\ CreatesDatabase(c)
  /\ cache' = IF cache = None THEN First(calls[c].entry)
              ELSE [cache EXCEPT ![calls[c].entry] = @ + 1]
  /\ Renders(cache')
  /\ suspect' = (suspect \/ calls[c].met \/ cache = None)
  /\ calls' = Without(c)
  /\ UNCHANGED <<stored, fetch, started, faults>>

(* Another console, or a request that lands after its sender gave up.      *)
Others(x) ==
  /\ Fault
  /\ stored' \in {stored \cup {x}, stored \ {x}} \ {stored}
  /\ suspect' = TRUE /\ fetch' = Soiled
  /\ UNCHANGED <<cache, calls, canvas, started>>

Next ==
  \/ ResetCanvas \/ Refetch \/ Fetched \/ FetchFails
  \/ Read("apps", "app") \/ Read("databases", "database")
  \/ \E x \in Entries : Others(x)
  \/ \E c \in Slots :
       \/ \E x \in Entries : Create(c, x) \/ Remove(c, x)
       \/ Handle(c) \/ GivesUp(c) \/ Refreshes(c) \/ Appends(c)

Spec == Init /\ [][Next]_vars

-----------------------------------------------------------------------------
(* Identifiers: createServiceTopology.                                     *)

Fixed == {[kind |-> "fixed", name |-> <<"platform", "frontend">>],
          [kind |-> "fixed", name |-> <<"platform", "api">>],
          [kind |-> "fixed", name |-> <<"platform", "db">>]}
(* Mutant: a database goes by its name alone.                              *)
NodeIdBare(x) == x.name
NodeId(x) == IF x.kind = "database" THEN <<"database:">> \o x.name ELSE x.name
EdgeId(x) ==
  CASE x.kind = "app" -> <<"platform", "api">> \o x.name
    [] x.kind = "database" -> <<"platform", "api", "database">> \o x.name
    [] OTHER -> x.name  \* those between the fixed nodes: by their own names
FixedEdges == {[kind |-> "fixed", name |-> <<"platform", "frontend", "api">>],
               [kind |-> "fixed", name |-> <<"platform", "api", "db">>]}

(* At rest the lists are those of the platform: no answer that was read    *)
(* before a creation or removal of this console is kept after it, unless   *)
(* the first fetch missed a service created while it was under way, a      *)
(* fetch met the creation of a database, something failed, or others       *)
(* changed what is stored (refreshTopology, createDatabaseFromForm).       *)
ListsExact ==
  cache # None /\ fetch = None /\ (\A c \in Slots : calls[c] = None) /\ ~suspect
    => cache = Listed(stored)

(* The canvas shows what is listed, whatever frame is still due, unless    *)
(* the lists changed but not their lengths since it was asked for          *)
(* (TopologyCanvasInner).                                                  *)
CanvasExact == ~overtaken => nodes = Shown(cache)

(* Nodes of the canvas are told apart by their identifiers, and so are     *)
(* edges, unless a service has the name of a fixed node, is called `db',   *)
(* or `database-' and the name of a database (createServiceTopology).      *)
Entitled(x) == x.kind = "app" =>
  /\ \A f \in Fixed : f.name # x.name
  /\ x.name # <<"db">>
  /\ \A d \in Databases : x.name # <<"database">> \o d
OnCanvas == {x \in DOMAIN nodes : nodes[x] > 0 /\ Entitled(x)}
IdsDistinct ==
  /\ \A x, y \in OnCanvas \cup Fixed : NodeId(x) = NodeId(y) => x = y
  /\ \A x, y \in OnCanvas \cup FixedEdges : EdgeId(x) = EdgeId(y) => x = y
=============================================================================
