------------------------- MODULE TopologyViewProofs -------------------------
(***************************************************************************)
(* Theorems about TopologyView, for any names, calls and failures: what    *)
(* the canvas shows is what is listed, what is listed at rest is what is   *)
(* stored, and what is shown can be told apart.                            *)
(***************************************************************************)
EXTENDS TopologyView, SequenceTheorems, TLAPS

-----------------------------------------------------------------------------
(* Types.                                                                  *)

(* One creation at a time; an entry is listed at most once more often than *)
(* something was started, and not even that while a creation is under way. *)
Creating(c) == calls[c] # None /\ calls[c].does = "create"
Bounded ==
  /\ \A c, d \in Slots : Creating(c) /\ Creating(d) => c = d
  /\ cache # None =>
       \A x \in Entries : /\ cache[x] =< started + 1
                          /\ (\E c \in Slots : Creating(c)) => cache[x] =< started
  /\ (\E c \in Slots : Creating(c)) => started >= 1

Typed == TypeOK /\ Bounded

(* A new call holds what it was started with.                              *)
LEMMA NewCall ==
  ASSUME NEW does \in {"create", "remove"}, NEW x \in Entries, NEW met \in BOOLEAN
  PROVE  LET call == [does |-> does, entry |-> x, pc |-> "sent", met |-> met] IN
         /\ call \in Call /\ call # None
         /\ call.does = does /\ call.entry = x /\ call.pc = "sent" /\ call.met = met
BY NoneAssumption DEF Call

(* Meeting a fetch changes nothing else of a call.                         *)
LEMMA MeetingCalls ==
  ASSUME NEW cs \in [Slots -> Call \cup {None}]
  PROVE  /\ Meeting(cs) \in [Slots -> Call \cup {None}]
         /\ \A c \in Slots :
              /\ Meeting(cs)[c] = None <=> cs[c] = None
              /\ cs[c] # None => /\ Meeting(cs)[c].does = cs[c].does
                                 /\ Meeting(cs)[c].entry = cs[c].entry
                                 /\ Meeting(cs)[c].pc = cs[c].pc
                                 /\ Meeting(cs)[c].met = TRUE
<1>1. ASSUME NEW c \in Slots, cs[c] # None
      PROVE  LET call == [cs[c] EXCEPT !.met = TRUE] IN
             /\ call \in Call /\ call.does = cs[c].does /\ call.entry = cs[c].entry
             /\ call.pc = cs[c].pc /\ call.met = TRUE
  BY <1>1 DEF Call
<1>2. \A c \in Slots : Meeting(cs)[c] =
        IF cs[c] = None THEN None ELSE [cs[c] EXCEPT !.met = TRUE]
  BY DEF Meeting
<1>3. Meeting(cs) \in [Slots -> Call \cup {None}]
  BY <1>1 DEF Meeting
<1>4. None \notin Call
  BY NoneAssumption
<1>5. ASSUME NEW c \in Slots
      PROVE  /\ Meeting(cs)[c] = None <=> cs[c] = None
             /\ cs[c] # None => /\ Meeting(cs)[c].does = cs[c].does
                                /\ Meeting(cs)[c].entry = cs[c].entry
                                /\ Meeting(cs)[c].pc = cs[c].pc
                                /\ Meeting(cs)[c].met = TRUE
  <2>1. CASE cs[c] = None
    BY <1>2, <2>1
  <2>2. CASE cs[c] # None
    BY <1>1, <1>2, <1>4, <2>2
  <2> QED BY <2>1, <2>2
<1> QED BY <1>3, <1>5

(* A call that is gone frees its slot and disturbs no other.               *)
LEMMA WithoutCalls ==
  ASSUME TypeOK, NEW c \in Slots
  PROVE  /\ Without(c) \in [Slots -> Call \cup {None}]
         /\ Without(c)[c] = None
         /\ \A d \in Slots \ {c} : Without(c)[d] = calls[d]
BY DEF Without, TypeOK

(* A fetch begins with nothing read, and is clean if no database is being  *)
(* created.                                                                *)
LEMMA FreshFetch ==
  /\ Fresh \in Fetch /\ Fresh # None
  /\ Fresh.apps = None /\ Fresh.databases = None
  /\ Fresh.clean <=> \A c \in Slots : ~CreatesDatabase(c)
<1>1. PICK clean \in BOOLEAN : clean = (\A c \in Slots : ~CreatesDatabase(c))
  OBVIOUS
<1>2. Fresh = [apps |-> None, databases |-> None, clean |-> clean]
  BY <1>1 DEF Fresh
<1>3. [apps |-> None, databases |-> None, clean |-> clean] \in Fetch
  BY DEF Fetch
<1>4. Fresh.clean = clean
  BY <1>2
<1>5. Fresh \in Fetch /\ Fresh # None
  BY <1>2, <1>3, NoneAssumption
<1>6. Fresh.apps = None /\ Fresh.databases = None
  BY <1>2
<1>7. Fresh.clean <=> \A c \in Slots : ~CreatesDatabase(c)
  BY Zenon, <1>1, <1>4
<1> QED BY <1>5, <1>6, <1>7

(* A refresh gives up what is under way, or it goes on, or there is only   *)
(* one that has missed what was created.                                   *)
LEMMA RefreshedFetch ==
  ASSUME TypeOK, NEW c \in Slots, Refreshes(c)
  PROVE  \/ fetch' = Fresh
         \/ cache = None /\ fetch # None /\ ~Misses(c) /\ fetch' = fetch /\ suspect' = suspect
         \/ cache = None /\ fetch # None /\ Misses(c) /\ fetch' = Soiled /\ suspect' = TRUE
<1>1. CASE Misses(c)
  BY <1>1 DEF Refreshes, Misses, Restarted, Joined, Soiled
<1>2. CASE ~Misses(c)
  <2>1. fetch' = Restarted
    BY <1>2 DEF Refreshes
  <2>2. suspect' = suspect
    BY Zenon, <1>2 DEF Refreshes, TypeOK
  <2> QED BY <1>2, <2>1, <2>2 DEF Restarted, Joined
<1> QED BY <1>1, <1>2

(* What a fetch met stays with it.                                         *)
LEMMA SoiledFetch ==
  ASSUME TypeOK
  PROVE  /\ Soiled \in Fetch \cup {None}
         /\ Soiled = None <=> fetch = None
         /\ fetch # None => /\ Soiled.apps = fetch.apps
                            /\ Soiled.databases = fetch.databases
                            /\ ~Soiled.clean
<1>1. ASSUME fetch # None
      PROVE  LET f == [fetch EXCEPT !.clean = FALSE] IN
             /\ f \in Fetch /\ f.apps = fetch.apps
             /\ f.databases = fetch.databases /\ f.clean = FALSE
  BY <1>1 DEF TypeOK, Fetch
<1> QED BY <1>1, NoneAssumption DEF Soiled

(* The canvas copies well typed lists.                                     *)
LEMMA RendersTyped ==
  ASSUME TypeOK, NEW lists \in Lists, Renders(lists)
  PROVE  /\ nodes' \in Lists /\ (frame' = None \/ frame' \in Lists)
         /\ overtaken' \in BOOLEAN
<1>1. CASE UNCHANGED canvas
  BY <1>1 DEF canvas, TypeOK
<1>2. CASE nodes' = lists /\ frame' \in {frame, FrameFor(lists)} /\ overtaken' \in BOOLEAN
  BY <1>2 DEF FrameFor, TypeOK
<1> QED BY <1>1, <1>2 DEF Renders

(* The bounds hold on while nothing is created and lists come from fetches.*)
LEMMA BoundedStays ==
  ASSUME Typed, started' = started,
         \A c \in Slots : Creating(c)' => Creating(c),
         \/ cache' = cache
         \/ \A x \in Entries : cache'[x] \in 0..1
  PROVE  Bounded'
<1>1. started \in Nat
  BY BoundsAssumption DEF Typed, TypeOK
<1>2. CASE cache' = cache
  BY <1>1, <1>2 DEF Typed, Bounded
<1>3. CASE \A x \in Entries : cache'[x] \in 0..1
  <2>1. \A x \in Entries : cache'[x] =< started + 1
    BY <1>1, <1>3
  <2>2. (\E c \in Slots : Creating(c)) =>
          started >= 1 /\ \A x \in Entries : cache'[x] =< started
    BY <1>1, <1>3 DEF Typed, Bounded
  <2> QED BY <2>1, <2>2 DEF Typed, Bounded
<1> QED BY <1>2, <1>3

(* Starting a call takes a free slot, and disturbs no other.               *)
LEMMA StartedCalls ==
  ASSUME TypeOK, NEW c \in Slots, NEW does \in {"create", "remove"}, NEW x \in Entries,
         Start(c, does, x)
  PROVE  /\ calls' \in [Slots -> Call \cup {None}]
         /\ calls[c] = None /\ calls'[c] # None
         /\ calls'[c].does = does /\ calls'[c].entry = x /\ calls'[c].pc = "sent"
         /\ calls'[c].met <=> fetch # None
         /\ \A d \in Slots \ {c} : calls'[d] = calls[d]
<1>1. PICK met \in BOOLEAN : met = (fetch # None)
  OBVIOUS
<1> DEFINE call == [does |-> does, entry |-> x, pc |-> "sent", met |-> met]
<1>2. calls' = [calls EXCEPT ![c] = call] /\ calls[c] = None
  BY <1>1 DEF Start
<1>3. /\ call \in Call /\ call # None
      /\ call.does = does /\ call.entry = x /\ call.pc = "sent" /\ call.met = met
  BY NewCall
<1> HIDE DEF call
<1>4. /\ calls' \in [Slots -> Call \cup {None}] /\ calls'[c] = call
      /\ \A d \in Slots \ {c} : calls'[d] = calls[d]
  BY <1>2, <1>3 DEF TypeOK
<1>5. calls'[c].met = met
  BY <1>3, <1>4
<1>6. calls'[c].met <=> fetch # None
  BY <1>1, <1>5, Zenon
<1> QED BY <1>2, <1>3, <1>4, <1>6

(* The request of a call is handled: nothing else of it changes.           *)
LEMMA HandledCalls ==
  ASSUME TypeOK, NEW c \in Slots, Handle(c)
  PROVE  /\ calls[c] # None /\ calls[c].pc = "sent" /\ calls[c] \in Call
         /\ calls' \in [Slots -> Call \cup {None}]
         /\ \A d \in Slots \ {c} : calls'[d] = calls[d]
         /\ \/ /\ Accepts(c) /\ stored' = After(c)
               /\ calls'[c] # None /\ calls'[c].pc = "answered"
               /\ calls'[c].does = calls[c].does /\ calls'[c].entry = calls[c].entry
               /\ calls'[c].met = calls[c].met
            \/ stored' = stored /\ calls'[c] = None
<1>1. calls[c] # None /\ calls[c].pc = "sent" /\ calls[c] \in Call
  BY DEF Handle, TypeOK
<1>2. CASE Accepts(c)
  <2> DEFINE call == [calls[c] EXCEPT !.pc = "answered"]
  <2>1. /\ call \in Call /\ call.pc = "answered" /\ call.does = calls[c].does
        /\ call.entry = calls[c].entry /\ call.met = calls[c].met
    BY <1>1 DEF Call
  <2>2. calls' = [calls EXCEPT ![c] = call] /\ stored' = After(c)
    BY <1>2 DEF Handle
  <2> HIDE DEF call
  <2>3. calls' \in [Slots -> Call \cup {None}] /\ calls'[c] = call
        /\ \A d \in Slots \ {c} : calls'[d] = calls[d]
    BY <2>1, <2>2 DEF TypeOK
  <2> QED BY <1>1, <1>2, <2>1, <2>2, <2>3, NoneAssumption
<1>3. CASE ~Accepts(c)
  BY <1>1, <1>3, WithoutCalls DEF Handle
<1> QED BY <1>2, <1>3

(* A new database is listed once more.                                     *)
LEMMA AppendedCache ==
  ASSUME Typed, NEW c \in Slots, Appends(c)
  PROVE  /\ calls[c] \in Call /\ Creating(c) /\ calls[c].entry \in Entries
         /\ cache' \in Lists
         /\ \A x \in Entries :
              cache'[x] = Shown(cache)[x] + IF x = calls[c].entry THEN 1 ELSE 0
<1>1. calls[c] \in Call /\ Creating(c) /\ calls[c].entry \in Entries
  BY DEF Appends, CreatesDatabase, Creating, Typed, TypeOK, Call
<1>2. started \in 0..MaxStarts /\ MaxStarts \in Nat
  BY BoundsAssumption DEF Typed, TypeOK
<1>3. CASE cache = None
  <2>1. cache' = [Empty EXCEPT ![calls[c].entry] = 1]
    BY <1>3 DEF Appends, First
  <2> QED BY <1>1, <1>2, <1>3, <2>1 DEF Empty, Shown, Lists
<1>4. CASE cache # None
  <2>1. cache' = [cache EXCEPT ![calls[c].entry] = @ + 1] /\ cache \in Lists
    BY <1>4 DEF Appends, Typed, TypeOK
  <2>2. cache[calls[c].entry] \in Nat /\ cache[calls[c].entry] =< started
    BY <1>1, <1>4, <2>1 DEF Typed, Bounded, Lists
  <2> QED BY <1>1, <1>2, <1>4, <2>1, <2>2 DEF Shown, Lists
<1> QED BY <1>1, <1>3, <1>4

(* Every reachable state is well typed.                                    *)
THEOREM TypedAlways == Spec => []Typed
<1>1. Init => Typed
  <2> SUFFICES ASSUME Init
               PROVE  Typed
    OBVIOUS
  <2>1. fetch \in Fetch
    BY DEF Init, Fetch
  <2>2. Empty \in Lists
    BY BoundsAssumption DEF Empty, Lists
  <2>3. Bounded
    BY DEF Init, Bounded, Creating
  <2>4. started \in 0..MaxStarts /\ faults \in 0..MaxFaults
    BY BoundsAssumption DEF Init
  <2>5. calls \in [Slots -> Call \cup {None}]
    BY DEF Init
  <2>6. stored \subseteq Entries /\ fetch \in Fetch \cup {None}
    BY <2>1 DEF Init
  <2> QED BY <2>2, <2>3, <2>4, <2>5, <2>6 DEF Init, Typed, TypeOK
<1>2. Typed /\ [Next]_vars => Typed'
  <2> SUFFICES ASSUME Typed, [Next]_vars
               PROVE  Typed'
    OBVIOUS
  <2>1. CASE ResetCanvas
    <3>1. Bounded'
      BY <2>1, BoundedStays DEF ResetCanvas, Creating
    <3> QED BY <2>1, <3>1 DEF ResetCanvas, Typed, TypeOK
  <2>2. CASE Refetch
    <3>1. calls \in [Slots -> Call \cup {None}]
      BY DEF Typed, TypeOK
    <3>2. Bounded'
      BY <2>2, <3>1, BoundedStays, MeetingCalls DEF Refetch, Creating
    <3> QED BY <2>2, <3>1, <3>2, MeetingCalls, FreshFetch
            DEF Refetch, canvas, Typed, TypeOK
  <2>3. CASE Fetched
    <3>1. cache' \in Lists /\ \A x \in Entries : cache'[x] \in 0..1
      BY <2>3, BoundsAssumption DEF Fetched, Listed, Lists
    <3>2. Bounded'
      BY <2>3, <3>1, BoundedStays DEF Fetched, Creating
    <3>3. suspect' \in BOOLEAN
      BY <2>3 DEF Fetched
    <3>4. Renders(cache')
      BY <2>3 DEF Fetched
    <3> QED BY <2>3, <3>1, <3>2, <3>3, <3>4, RendersTyped DEF Fetched, Typed, TypeOK
  <2>4. CASE FetchFails
    <3>1. faults' \in 0..MaxFaults
      BY <2>4, BoundsAssumption DEF FetchFails, Fault, Typed, TypeOK
    <3>2. Bounded'
      BY <2>4, BoundedStays DEF FetchFails, Creating
    <3> QED BY <2>4, <3>1, <3>2 DEF FetchFails, canvas, Typed, TypeOK
  <2>5. CASE Read("apps", "app") \/ Read("databases", "database")
    <3>1. \A kind : {x \in stored : x.kind = kind} \in SUBSET Entries
      BY DEF Typed, TypeOK
    <3>2. fetch' \in Fetch
      BY <2>5, <3>1 DEF Read, Fetch, Typed, TypeOK
    <3>3. Bounded'
      BY <2>5, BoundedStays DEF Read, Creating
    <3> QED BY <2>5, <3>2, <3>3 DEF Read, canvas, Typed, TypeOK
  <2>6. ASSUME NEW x \in Entries, Others(x)
        PROVE  Typed'
    <3>1. faults' \in 0..MaxFaults
      BY <2>6, BoundsAssumption DEF Others, Fault, Typed, TypeOK
    <3>2. Bounded'
      BY <2>6, BoundedStays DEF Others, Creating
    <3>3. stored' \subseteq Entries /\ fetch' \in Fetch \cup {None}
      BY <2>6, SoiledFetch DEF Others, Typed, TypeOK
    <3> QED BY <2>6, <3>1, <3>2, <3>3 DEF Others, canvas, Typed, TypeOK
  <2>7. ASSUME NEW c \in Slots, NEW x \in Entries, Create(c, x) \/ Remove(c, x)
        PROVE  Typed'
    <3>1. PICK does \in {"create", "remove"} :
            /\ Start(c, does, x)
            /\ does = "create" => \A d \in Slots : ~Creating(d)
      BY <2>7 DEF Create, Remove, Creating
    <3>2. started \in Nat /\ started' = started + 1 /\ started' \in 0..MaxStarts
      BY <3>1, BoundsAssumption DEF Start, Typed, TypeOK
    <3>3. \A d \in Slots : Creating(d)' => Creating(d) \/ (d = c /\ does = "create")
      <4>1. calls'[c].does = does /\ \A d \in Slots \ {c} : calls'[d] = calls[d]
        BY <3>1, StartedCalls DEF Typed
      <4>2. ASSUME NEW d \in Slots, Creating(d)', d # c
            PROVE  Creating(d)
        BY <4>1, <4>2 DEF Creating
      <4>3. Creating(c)' => does = "create"
        BY <4>1 DEF Creating
      <4> QED BY <4>2, <4>3
    <3>4. UNCHANGED <<stored, cache, canvas, suspect, faults>>
      BY <3>1 DEF Start
    <3>5. cache # None => \A y \in Entries : cache[y] \in Nat /\ cache[y] =< started + 1
      BY DEF Typed, TypeOK, Bounded, Lists
    <3>6. Bounded'
      BY <3>1, <3>2, <3>3, <3>4, <3>5 DEF Typed, Bounded
    <3>7. fetch' \in Fetch \cup {None}
      BY <3>1, SoiledFetch DEF Start, Typed, TypeOK
    <3>8. calls' \in [Slots -> Call \cup {None}]
      BY <3>1, StartedCalls DEF Typed
    <3> QED BY <3>2, <3>4, <3>6, <3>7, <3>8 DEF canvas, Typed, TypeOK
  <2>8. ASSUME NEW c \in Slots, Handle(c)
        PROVE  Typed'
    <3>1. Bounded'
      BY <2>8, HandledCalls, BoundedStays DEF Handle, Creating, Typed
    <3>2. calls[c].entry \in Entries
      BY <2>8, HandledCalls DEF Typed, Call
    <3>3. stored' \subseteq Entries
      BY <2>8, <3>2, HandledCalls DEF After, Typed, TypeOK
    <3> QED BY <2>8, <3>1, <3>3, HandledCalls DEF Handle, canvas, Typed, TypeOK
  <2>9. ASSUME NEW c \in Slots, GivesUp(c)
        PROVE  Typed'
    <3>1. Bounded'
      BY <2>9, WithoutCalls, BoundedStays DEF GivesUp, Creating, Typed
    <3>2. calls[c].entry \in Entries
      BY <2>9 DEF GivesUp, Typed, TypeOK, Call
    <3>3. stored' \subseteq Entries /\ fetch' \in Fetch \cup {None}
      BY <2>9, <3>2, SoiledFetch DEF GivesUp, After, Typed, TypeOK
    <3>4. faults' \in 0..MaxFaults
      BY <2>9, BoundsAssumption DEF GivesUp, Fault, Typed, TypeOK
    <3> QED BY <2>9, <3>1, <3>3, <3>4, WithoutCalls DEF GivesUp, canvas, Typed, TypeOK
  <2>10. ASSUME NEW c \in Slots, Refreshes(c)
         PROVE  Typed'
    <3>1. Without(c) \in [Slots -> Call \cup {None}]
      BY WithoutCalls DEF Typed
    <3>2. \A d \in Slots : Creating(d)' => Creating(d)
      <4>1. /\ Without(c)[c] = None
            /\ \A d \in Slots \ {c} : Without(c)[d] = calls[d]
        BY WithoutCalls DEF Typed
      <4>2. calls' = Meeting(Without(c))
        BY <2>10 DEF Refreshes
      <4>3. \A d \in Slots : calls'[d] # None =>
              Without(c)[d] # None /\ calls'[d].does = Without(c)[d].does
        BY <3>1, <4>2, MeetingCalls
      <4> QED BY <4>1, <4>3 DEF Creating
    <3>3. Bounded'
      BY <2>10, <3>2, BoundedStays DEF Refreshes
    <3>4. fetch' \in Fetch \cup {None} /\ suspect' \in BOOLEAN
      <4>1. fetch' \in {Fresh, fetch, Soiled}
        BY <2>10, RefreshedFetch DEF Typed
      <4>2. suspect' \in BOOLEAN
        BY Zenon, <2>10 DEF Refreshes
      <4> QED BY <4>1, <4>2, FreshFetch, SoiledFetch DEF Typed, TypeOK
    <3> QED BY <2>10, <3>1, <3>3, <3>4, MeetingCalls
            DEF Refreshes, canvas, Typed, TypeOK
  <2>11. ASSUME NEW c \in Slots, Appends(c)
         PROVE  Typed'
    <3>1. Renders(cache')
      BY <2>11 DEF Appends
    <3>2. \A d \in Slots : ~Creating(d)'
      <4>1. /\ calls'[c] = None /\ \A d \in Slots \ {c} : calls'[d] = calls[d]
            /\ Creating(c)
        BY <2>11, AppendedCache, WithoutCalls DEF Appends, Typed
      <4>2. \A d \in Slots \ {c} : ~Creating(d)
        BY <4>1 DEF Typed, Bounded
      <4> QED BY <4>1, <4>2 DEF Creating
    <3>3. started \in Nat /\ \A x \in Entries :
            /\ Shown(cache)[x] \in Nat
            /\ Shown(cache)[x] + (IF x = calls[c].entry THEN 1 ELSE 0) =< started + 1
      <4>1. started \in Nat
        BY BoundsAssumption DEF Typed, TypeOK
      <4>2. Creating(c)
        BY <2>11, AppendedCache
      <4>3. CASE cache = None
        BY <4>1, <4>3 DEF Shown, Empty
      <4>4. CASE cache # None
        <5>1. \A x \in Entries : cache[x] \in Nat /\ cache[x] =< started
          BY <4>2, <4>4 DEF Typed, TypeOK, Bounded, Lists
        <5> QED BY <4>1, <4>4, <5>1 DEF Shown
      <4> QED BY <4>1, <4>3, <4>4
    <3>4. Bounded'
      <4>1. \A x \in Entries : cache'[x] =< started' + 1
        BY <2>11, <3>3, AppendedCache DEF Appends
      <4> QED BY <3>2, <4>1 DEF Bounded
    <3>5. suspect' \in BOOLEAN
      BY <2>11 DEF Appends
    <3>6. cache' \in Lists
      BY <2>11, AppendedCache
    <3> QED BY <2>11, <3>1, <3>4, <3>5, <3>6, WithoutCalls, RendersTyped
            DEF Appends, Typed, TypeOK
  <2>12. CASE UNCHANGED vars
    BY <2>12 DEF vars, canvas, Typed, TypeOK, Bounded, Creating
  <2> QED
    BY <2>1, <2>2, <2>3, <2>4, <2>5, <2>6, <2>7, <2>8, <2>9, <2>10, <2>11, <2>12 DEF Next
<1> QED BY <1>1, <1>2, PTL DEF Spec

(* The console's lists, its fetch, its calls and its canvas are well typed;*)
(* in particular no entry is ever listed more often than once for each     *)
(* creation, and once for a fetch.                                         *)
THEOREM TypeCorrect == Spec => []TypeOK
<1>1. Typed => TypeOK
  BY DEF Typed
<1> QED BY <1>1, TypedAlways, PTL

-----------------------------------------------------------------------------
(* The canvas.                                                             *)

(* A frame that is due shows what the canvas already shows.                *)
FrameInv == ~overtaken => nodes = Shown(cache) /\ (frame # None => frame = Shown(cache))

(* A render with new lists keeps that so.                                  *)
LEMMA RendersKeep ==
  ASSUME Typed, FrameInv, cache' \in Lists, Renders(cache')
  PROVE  FrameInv'
<1>1. Shown(cache') = cache' /\ Shown(cache)' = cache'
  BY NoneAssumption DEF Shown
<1>2. CASE cache' = Shown(cache)
  BY <1>1, <1>2 DEF Renders, canvas, FrameInv
<1>3. CASE cache' # Shown(cache)
  <2>1. PICK sameLength \in BOOLEAN :
          /\ nodes' = cache'
          /\ frame' = IF sameLength THEN frame ELSE cache'
          /\ overtaken' = (sameLength /\ frame # None)
    <3>1. PICK sameLength \in BOOLEAN :
            sameLength = (\A kind \in {"app", "database"} :
                            Length(kind, cache') = Length(kind, Shown(cache)))
      OBVIOUS
    <3> QED BY <1>3, <3>1 DEF Renders, FrameFor
  <2> QED BY <1>1, <2>1 DEF FrameInv
<1> QED BY <1>2, <1>3

(* The canvas shows what is listed, whatever frame is still due, unless    *)
(* the lists changed but not their lengths since it was asked for.         *)
THEOREM CanvasShowsLists == Spec => []CanvasExact
<1>1. Init => FrameInv
  BY DEF Init, FrameInv, Shown
<1>2. Typed /\ Typed' /\ FrameInv /\ [Next]_vars => FrameInv'
  <2> SUFFICES ASSUME Typed, Typed', FrameInv, [Next]_vars
               PROVE  FrameInv'
    OBVIOUS
  <2>1. CASE ResetCanvas
    BY <2>1 DEF ResetCanvas, FrameInv, Shown
  <2>2. CASE UNCHANGED <<cache, canvas>>
    BY <2>2 DEF canvas, FrameInv, Shown
  <2>3. CASE Fetched
    <3>1. cache' \in Lists
      BY <2>3, BoundsAssumption DEF Fetched, Listed, Lists
    <3> QED BY <2>3, <3>1, RendersKeep DEF Fetched
  <2>4. ASSUME NEW c \in Slots, Appends(c)
        PROVE  FrameInv'
    BY <2>4, AppendedCache, RendersKeep DEF Appends
  <2> QED
    BY <2>1, <2>2, <2>3, <2>4
    DEF Next, vars, Refetch, FetchFails, Read, Others, Create, Remove, Start, Handle,
        GivesUp, Refreshes
<1>3. FrameInv => CanvasExact
  BY DEF FrameInv, CanvasExact
<1> QED BY <1>1, <1>2, <1>3, TypedAlways, PTL DEF Spec

-----------------------------------------------------------------------------
(* Identifiers.                                                            *)

(* What names and identifiers are made of.                                 *)
Parts == STRING \cup {"database:", "database", "db", "platform", "api"}

(* A name put after a prefix can be told from one put after another, and   *)
(* from other names after the same one.                                    *)
LEMMA Prefixed ==
  ASSUME NEW p \in Seq(Parts), NEW n \in Seq(Parts), NEW m \in Seq(Parts)
  PROVE  /\ p \o n = p \o m => n = m
         /\ p \o n \in Seq(Parts) /\ Len(p \o n) = Len(p) + Len(n)
         /\ \A i \in 1..Len(p) : (p \o n)[i] = p[i]
         /\ \A i \in 1..Len(n) : (p \o n)[Len(p) + i] = n[i]
<1>1. /\ Len(p) \in Nat /\ Len(n) \in Nat
      /\ p \o n \in Seq(Parts) /\ Len(p \o n) = Len(p) + Len(n)
      /\ \A i \in 1..(Len(p) + Len(n)) :
           (p \o n)[i] = IF i <= Len(p) THEN p[i] ELSE n[i - Len(p)]
  BY ConcatProperties, LenProperties
<1>2. \A i \in 1..Len(n) : (p \o n)[Len(p) + i] = n[i]
  <2> TAKE i \in 1..Len(n)
  <2>1. Len(p) + i \in 1..(Len(p) + Len(n)) /\ ~(Len(p) + i <= Len(p))
        /\ (Len(p) + i) - Len(p) = i
    BY <1>1
  <2> QED BY <1>1, <2>1
<1>3. p \o n = p \o m => n = m
  BY ConcatSimplifications
<1> QED BY <1>1, <1>2, <1>3

(* Names, as the code that makes identifiers of them sees them.            *)
LEMMA NamesAreParts ==
  ASSUME NEW n \in Apps \cup Databases
  PROVE  /\ n \in Seq(Parts) /\ Len(n) \in Nat /\ 1 \in 1..Len(n)
         /\ n[1] # "database:"
<1>1. n \in Seq(STRING) /\ n # << >> /\ \A i \in 1..Len(n) : n[i] # "database:"
  BY NamesAssumption
<1>2. n \in Seq(Parts)
  BY <1>1, SeqMonotonic DEF Parts
<1>3. Len(n) \in Nat /\ Len(n) # 0
  BY <1>1, EmptySeq, LenProperties
<1> QED BY <1>1, <1>2, <1>3

(* The prefixes of identifiers.                                            *)
LEMMA Prefixes ==
  /\ <<"database:">> \in Seq(Parts) /\ Len(<<"database:">>) = 1
  /\ <<"database">> \in Seq(Parts) /\ Len(<<"database">>) = 1
  /\ <<"db">> \in Seq(Parts) /\ Len(<<"db">>) = 1
  /\ <<"platform", "api">> \in Seq(Parts) /\ Len(<<"platform", "api">>) = 2
  /\ <<"platform", "api", "database">> \in Seq(Parts)
  /\ Len(<<"platform", "api", "database">>) = 3
<1>1. /\ "database:" \in Parts /\ "database" \in Parts /\ "db" \in Parts
      /\ "platform" \in Parts /\ "api" \in Parts
  BY DEF Parts
<1>2. /\ \A x \in Parts : <<x>> \in Seq(Parts) /\ Len(<<x>>) = 1
      /\ \A x, y \in Parts : <<x, y>> \in Seq(Parts) /\ Len(<<x, y>>) = 2
      /\ \A x, y, z \in Parts : <<x, y, z>> \in Seq(Parts) /\ Len(<<x, y, z>>) = 3
  OBVIOUS
<1> QED BY <1>1, <1>2

(* Nodes of the canvas are told apart by their identifiers, and so are     *)
(* edges, for any names that a service or a database may have, but for the *)
(* three kinds of service that Entitled leaves out.                        *)
THEOREM ShownIsDistinct == Spec => []IdsDistinct
<1>1. Typed => IdsDistinct
  <2> SUFFICES ASSUME Typed
               PROVE  IdsDistinct
    OBVIOUS
  <2>1. OnCanvas \subseteq {x \in Entries : Entitled(x)}
    BY DEF OnCanvas, Typed, TypeOK, Lists
  <2>2. ASSUME NEW x \in Entries
        PROVE  /\ x = [kind |-> x.kind, name |-> x.name]
               /\ \/ x.kind = "app" /\ x.name \in Apps
                  \/ x.kind = "database" /\ x.name \in Databases
    BY DEF Entries
  <2>4. ASSUME NEW n \in Apps \cup Databases, NEW m \in Apps \cup Databases
        PROVE  /\ <<"database:">> \o n = <<"database:">> \o m => n = m
               /\ (<<"database:">> \o n)[1] = "database:"
    BY NamesAreParts, Prefixes, Prefixed
  <2>5. ASSUME NEW x \in {y \in Entries : Entitled(y)} \cup Fixed,
               NEW y \in {z \in Entries : Entitled(z)} \cup Fixed,
               NodeId(x) = NodeId(y)
        PROVE  x = y
    <3>1. \A f \in Fixed : f.kind = "fixed" /\ f = [kind |-> "fixed", name |-> f.name]
                           /\ f.name[1] = "platform"
      BY DEF Fixed
    <3>2. \A z \in Entries \cup Fixed : z.kind = "database" => NodeId(z)[1] = "database:"
      BY <2>2, <2>4, <3>1 DEF NodeId
    <3>3. \A z \in Entries \cup Fixed : z.kind # "database" => NodeId(z) = z.name
                                                          /\ z.name[1] # "database:"
      BY <2>2, NamesAreParts, <3>1 DEF NodeId
    <3>4. CASE x.kind = "database"
      <4>1. y.kind = "database"
        BY <2>5, <3>2, <3>3, <3>4
      <4>2. x \in Entries /\ y \in Entries
        BY <3>1, <3>4, <4>1
      <4>3. x.name = y.name
        BY <2>2, <2>4, <2>5, <3>4, <4>1, <4>2 DEF NodeId
      <4> QED BY <2>2, <3>4, <4>1, <4>2, <4>3
    <3>5. CASE x.kind # "database"
      <4>1. y.kind # "database"
        BY <2>5, <3>2, <3>3, <3>5
      <4>2. x.name = y.name
        BY <2>5, <3>3, <3>5, <4>1
      <4>3. x \in Fixed <=> y \in Fixed
        BY <2>2, <3>1, <3>5, <4>1, <4>2 DEF Entitled
      <4> QED BY <2>2, <3>1, <3>5, <4>1, <4>2, <4>3
    <3> QED BY <3>4, <3>5
  <2>6. ASSUME NEW x \in {y \in Entries : Entitled(y)} \cup FixedEdges,
               NEW y \in {z \in Entries : Entitled(z)} \cup FixedEdges,
               EdgeId(x) = EdgeId(y)
        PROVE  x = y
    <3> DEFINE api == <<"platform", "api">>
               apiDatabase == <<"platform", "api", "database">>
    <3>1. /\ api \in Seq(Parts) /\ Len(api) = 2
          /\ api[1] = "platform" /\ api[2] = "api"
          /\ apiDatabase \in Seq(Parts) /\ Len(apiDatabase) = 3
          /\ apiDatabase[2] = "api" /\ apiDatabase[3] = "database"
      BY Prefixes
    <3> HIDE DEF api, apiDatabase
    <3>2. ASSUME NEW n \in Apps \cup Databases
          PROVE  /\ api \o n \in Seq(Parts) /\ Len(api \o n) = 2 + Len(n)
                 /\ (api \o n)[2] = "api"
                 /\ \A i \in 1..Len(n) : (api \o n)[2 + i] = n[i]
                 /\ \A m \in Apps \cup Databases : api \o n = api \o m => n = m
      <4>1. n \in Seq(Parts) /\ \A m \in Apps \cup Databases : m \in Seq(Parts)
        BY NamesAreParts
      <4>2. /\ api \o n \in Seq(Parts) /\ Len(api \o n) = Len(api) + Len(n)
            /\ \A i \in 1..Len(api) : (api \o n)[i] = api[i]
            /\ \A i \in 1..Len(n) : (api \o n)[Len(api) + i] = n[i]
        BY <3>1, <4>1, Prefixed
      <4>3. \A m \in Apps \cup Databases : api \o n = api \o m => n = m
        BY <3>1, <4>1, Prefixed
      <4>4. 2 \in 1..Len(api)
        BY <3>1
      <4> QED BY <3>1, <4>2, <4>3, <4>4
    <3>3. ASSUME NEW n \in Apps \cup Databases
          PROVE  /\ apiDatabase \o n \in Seq(Parts) /\ Len(apiDatabase \o n) = 3 + Len(n)
                 /\ (apiDatabase \o n)[2] = "api" /\ (apiDatabase \o n)[3] = "database"
                 /\ \A i \in 1..Len(n) : (apiDatabase \o n)[3 + i] = n[i]
                 /\ \A m \in Apps \cup Databases :
                      apiDatabase \o n = apiDatabase \o m => n = m
      <4>1. n \in Seq(Parts) /\ \A m \in Apps \cup Databases : m \in Seq(Parts)
        BY NamesAreParts
      <4>2. /\ apiDatabase \o n \in Seq(Parts)
            /\ Len(apiDatabase \o n) = Len(apiDatabase) + Len(n)
            /\ \A i \in 1..Len(apiDatabase) : (apiDatabase \o n)[i] = apiDatabase[i]
            /\ \A i \in 1..Len(n) : (apiDatabase \o n)[Len(apiDatabase) + i] = n[i]
        BY <3>1, <4>1, Prefixed
      <4>3. \A m \in Apps \cup Databases : apiDatabase \o n = apiDatabase \o m => n = m
        BY <3>1, <4>1, Prefixed
      <4>4. 2 \in 1..Len(apiDatabase) /\ 3 \in 1..Len(apiDatabase)
        BY <3>1
      <4> QED BY <3>1, <4>2, <4>3, <4>4
    <3>4. ASSUME NEW n \in Apps, NEW d \in Databases, api \o n = apiDatabase \o d
          PROVE  n = <<"database">> \o d
      <4>1. Len(n) = 1 + Len(d) /\ n \in Seq(Parts) /\ Len(d) \in Nat /\ d \in Seq(Parts)
        BY <3>2, <3>3, <3>4, NamesAreParts
      <4>2. n[1] = "database"
        BY <3>2, <3>3, <3>4, NamesAreParts
      <4>3. ASSUME NEW i \in 1..Len(d)
            PROVE  n[1 + i] = d[i]
        <5>1. 1 + i \in 1..Len(n) /\ 2 + (1 + i) = 3 + i
          BY <4>1
        <5>2. (api \o n)[2 + (1 + i)] = n[1 + i] /\ (apiDatabase \o d)[3 + i] = d[i]
          BY <3>2, <3>3, <5>1
        <5> QED BY <3>4, <5>1, <5>2
      <4>4. /\ <<"database">> \o d \in Seq(Parts) /\ Len(<<"database">> \o d) = 1 + Len(d)
            /\ (<<"database">> \o d)[1] = "database"
            /\ \A i \in 1..Len(d) : (<<"database">> \o d)[1 + i] = d[i]
        <5>1. <<"database">>[1] = "database"
          OBVIOUS
        <5> QED BY <4>1, <5>1, Prefixes, Prefixed
      <4>5. \A i \in 1..Len(n) : n[i] = (<<"database">> \o d)[i]
        <5> TAKE i \in 1..Len(n)
        <5>1. CASE i = 1
          BY <4>2, <4>4, <5>1
        <5>2. CASE i # 1
          <6>1. i - 1 \in 1..Len(d) /\ 1 + (i - 1) = i
            BY <4>1, <5>2
          <6> QED BY <4>3, <4>4, <6>1
        <5> QED BY <5>1, <5>2
      <4> QED BY <4>1, <4>4, <4>5, SeqEqual
    <3>5. \A f \in FixedEdges :
            /\ f.kind = "fixed" /\ f = [kind |-> "fixed", name |-> f.name]
            /\ f.name \in {<<"platform", "frontend", "api">>, <<"platform", "api", "db">>}
            /\ EdgeId(f) = f.name
      BY DEF FixedEdges, EdgeId
    <3>6. \A z \in Entries :
            /\ z.kind = "app" => EdgeId(z) = api \o z.name
            /\ z.kind = "database" => EdgeId(z) = apiDatabase \o z.name
      BY DEF EdgeId, api, apiDatabase
    <3>7. ASSUME NEW z \in Entries, Entitled(z), NEW f \in FixedEdges, EdgeId(z) = EdgeId(f)
          PROVE  FALSE
      <4>1. f.name[2] = "api" /\ f.name[3] = "db" /\ Len(f.name) = 3
        <5>1. EdgeId(z)[2] = "api"
          BY <2>2, <3>2, <3>3, <3>6
        <5>2. f.name = <<"platform", "api", "db">>
          BY <3>5, <3>7, <5>1
        <5> QED BY <5>2
      <4>2. CASE z.kind = "database"
        BY <2>2, <3>3, <3>5, <3>6, <3>7, <4>1, <4>2
      <4>3. CASE z.kind = "app"
        <5>1. z.name \in Apps /\ z.name \in Seq(Parts) /\ Len(z.name) \in Nat
              /\ z.name # <<"db">>
          BY <2>2, <3>7, <4>3, NamesAreParts DEF Entitled
        <5>2. Len(z.name) = 1 /\ z.name[1] = "db"
          <6>1. Len(api \o z.name) = 2 + Len(z.name) /\ Len(api \o z.name) = 3
            BY <3>2, <3>5, <3>6, <3>7, <4>1, <4>3, <5>1
          <6>2. Len(z.name) = 1
            <7>1. PICK k \in Nat : k = Len(z.name)
              BY <5>1
            <7>2. 2 + k = 3
              BY <6>1, <7>1
            <7>3. k = 1
              BY <7>2
            <7> QED BY <7>1, <7>3
          <6>3. (api \o z.name)[2 + 1] = z.name[1]
            BY <3>2, <5>1, <6>2
          <6>4. api \o z.name = f.name
            BY <3>5, <3>6, <3>7, <4>3
          <6>5. (api \o z.name)[3] = z.name[1]
            <7>1. 2 + 1 = 3
              OBVIOUS
            <7> QED BY Zenon, <6>3, <7>1
          <6>6. (api \o z.name)[3] = "db"
            BY <4>1, <6>4
          <6> QED BY <6>2, <6>5, <6>6
        <5>3. z.name = <<"db">>
          <6>1. <<"db">>[1] = "db"
            OBVIOUS
          <6>2. \A i \in 1..Len(z.name) : z.name[i] = <<"db">>[i]
            BY <5>2, <6>1
          <6> QED BY <5>1, <5>2, <6>2, Prefixes, SeqEqual
        <5> QED BY <5>1, <5>3
      <4> QED BY <2>2, <4>2, <4>3
    <3>8. CASE x \in Entries /\ y \in Entries
      <4>1. Entitled(x) /\ Entitled(y)
        BY <3>5, <3>8, <2>2
      <4>2. x.kind = y.kind
        <5>1. ASSUME NEW z \in Entries, NEW w \in Entries, Entitled(z),
                     z.kind = "app", w.kind = "database", EdgeId(z) = EdgeId(w)
              PROVE  FALSE
          <6>1. z.name \in Apps /\ w.name \in Databases
            BY <2>2, <5>1
          <6>2. api \o z.name = apiDatabase \o w.name
            BY <3>6, <5>1
          <6>3. z.name = <<"database">> \o w.name
            BY <3>4, <6>1, <6>2
          <6> QED BY <5>1, <6>1, <6>3 DEF Entitled
        <5> QED BY <2>2, <2>6, <3>8, <4>1, <5>1
      <4>3. x.name = y.name
        <5>1. x.name \in Apps \cup Databases /\ y.name \in Apps \cup Databases
          BY <2>2, <3>8
        <5>2. CASE x.kind = "app"
          <6>1. api \o x.name = api \o y.name
            BY <2>6, <3>6, <3>8, <4>2, <5>2
          <6> QED BY <3>2, <5>1, <6>1
        <5>3. CASE x.kind = "database"
          <6>1. apiDatabase \o x.name = apiDatabase \o y.name
            BY <2>6, <3>6, <3>8, <4>2, <5>3
          <6> QED BY <3>3, <5>1, <6>1
        <5> QED BY <2>2, <3>8, <5>2, <5>3
      <4> QED BY <2>2, <3>8, <4>2, <4>3
    <3>9. CASE x \in FixedEdges /\ y \in FixedEdges
      BY <2>6, <3>5, <3>9
    <3> QED BY <2>6, <3>7, <3>8, <3>9
  <2> QED BY <2>1, <2>5, <2>6 DEF IdsDistinct
<1> QED BY <1>1, TypedAlways, PTL

-----------------------------------------------------------------------------
(* The lists.                                                              *)

Answered(c, x) == calls[c] # None /\ calls[c].pc = "answered" /\ calls[c].entry = x
(* A fetch is due for x.                                                   *)
Due(x) == \E c \in Slots : Answered(c, x) /\ ~CreatesDatabase(c)
(* x is stored, and about to be put at the end of its list.                *)
Coming(c, x) == Answered(c, x) /\ CreatesDatabase(c)

(* No creation of a database escapes a fetch that is under way.            *)
FetchMeets == fetch # None =>
  \A c \in Slots : CreatesDatabase(c) => calls[c].met /\ ~fetch.clean

(* What a fetch has read is stored, but for what an answer has yet to tell.*)
ReadIsStored == fetch # None /\ (fetch.clean \/ ~suspect) =>
  \A x \in Entries : (\A c \in Slots : ~Answered(c, x)) =>
    /\ x.kind = "app" /\ fetch.apps # None => (x \in fetch.apps <=> x \in stored)
    /\ x.kind = "database" /\ fetch.databases # None =>
         (x \in fetch.databases <=> x \in stored)
ReadByKind == fetch # None =>
  /\ fetch.apps # None => \A x \in fetch.apps : x.kind = "app"
  /\ fetch.databases # None => \A x \in fetch.databases : x.kind = "database"

(* What is listed is stored, but for what a fetch is due for, and what is  *)
(* about to be put in the list.                                            *)
CachedIsStored == fetch = None /\ cache # None /\ ~suspect =>
  \A x \in Entries : ~Due(x) =>
    /\ (\A c \in Slots : ~Coming(c, x)) => cache[x] = Listed(stored)[x]
    /\ \A c \in Slots : Coming(c, x) /\ ~calls[c].met => cache[x] = 0 /\ x \in stored

(* Nothing is removed before anything is listed.                           *)
FirstFetch == cache = None =>
  /\ \A c \in Slots : calls[c] # None => calls[c].does = "create"
  /\ fetch # None /\ (fetch.clean \/ ~suspect) /\ fetch.apps # None =>
       fetch.apps \subseteq stored

ListsInv == FetchMeets /\ ReadIsStored /\ ReadByKind /\ CachedIsStored /\ FirstFetch

(* Under a fetch that is given up, or that has met a change, nothing is    *)
(* claimed of what it read.                                                *)
LEMMA SuspectKeeps ==
  ASSUME Typed, ListsInv, suspect', fetch' \in {None, Soiled},
         \A c \in Slots : calls'[c] = calls[c] \/ calls'[c] = None,
         cache' = cache
  PROVE  ListsInv'
<1>1. \A c \in Slots : CreatesDatabase(c)' => CreatesDatabase(c) /\ calls'[c] = calls[c]
  BY DEF CreatesDatabase
<1>2. fetch' # None => /\ fetch # None /\ ~fetch'.clean
                       /\ fetch'.apps = fetch.apps /\ fetch'.databases = fetch.databases
  BY SoiledFetch DEF Typed
<1>3. FetchMeets'
  BY <1>1, <1>2 DEF ListsInv, FetchMeets
<1>4. ReadByKind'
  BY <1>2 DEF ListsInv, ReadByKind
<1>5. ReadIsStored'
  BY <1>2 DEF ReadIsStored
<1>6. CachedIsStored'
  BY DEF CachedIsStored
<1>7. FirstFetch'
  BY <1>2 DEF FirstFetch, ListsInv
<1> QED BY <1>3, <1>4, <1>5, <1>6, <1>7 DEF ListsInv

(* A fetch that begins has nothing to answer for.                          *)
LEMMA FreshKeeps ==
  ASSUME fetch' = Fresh, NEW cs \in [Slots -> Call \cup {None}], calls' = Meeting(cs),
         \A c \in Slots : cs[c] = calls[c] \/ cs[c] = None,
         ListsInv, cache' = cache
  PROVE  ListsInv'
<1>1. /\ fetch' # None /\ fetch'.apps = None /\ fetch'.databases = None
      /\ fetch'.clean => \A c \in Slots : ~CreatesDatabase(c)
  BY FreshFetch
<1>2. \A c \in Slots : CreatesDatabase(c)' => CreatesDatabase(c) /\ calls'[c].met = TRUE
  BY MeetingCalls DEF CreatesDatabase
<1>3. FetchMeets'
  BY <1>1, <1>2 DEF FetchMeets
<1>4. ReadByKind' /\ ReadIsStored' /\ CachedIsStored'
  BY <1>1 DEF ReadByKind, ReadIsStored, CachedIsStored
<1>5. \A c \in Slots : calls'[c] # None => cs[c] # None /\ calls'[c].does = cs[c].does
  BY MeetingCalls
<1>6. FirstFetch'
  BY <1>1, <1>5 DEF FirstFetch, ListsInv
<1> QED BY <1>3, <1>4, <1>6 DEF ListsInv

(* Every step keeps that so, whatever is under way.                        *)
LEMMA ListsStep == Typed /\ Typed' /\ ListsInv /\ [Next]_vars => ListsInv'
<1> SUFFICES ASSUME Typed, Typed', ListsInv, [Next]_vars
             PROVE  ListsInv'
  OBVIOUS
<1>0. \A x \in Entries : x.kind \in {"app", "database"}
  BY DEF Entries
<1>1. CASE UNCHANGED <<stored, cache, fetch, calls, suspect>>
  BY <1>1 DEF ListsInv, FetchMeets, ReadIsStored, ReadByKind, CachedIsStored,
              FirstFetch, Answered, Due, Coming, CreatesDatabase, Listed
<1>2. CASE Refetch
  BY <1>2, FreshKeeps DEF Refetch, Typed, TypeOK
<1>3. CASE Fetched
  <2>1. /\ fetch # None /\ fetch.apps # None /\ fetch.databases # None
        /\ fetch' = None /\ UNCHANGED <<stored, calls>>
        /\ cache' = Listed(fetch.apps \cup fetch.databases)
        /\ ~suspect' => ~suspect \/ fetch.clean
    BY <1>3 DEF Fetched
  <2>2. FetchMeets' /\ ReadIsStored' /\ ReadByKind'
    BY <2>1 DEF FetchMeets, ReadIsStored, ReadByKind
  <2>4. FirstFetch'
    <3>1. cache' \in Lists
      BY <2>1, BoundsAssumption DEF Lists, Listed
    <3> QED BY <3>1, NoneAssumption DEF FirstFetch
  <2>3. CachedIsStored'
    <3> SUFFICES ASSUME ~suspect', NEW x \in Entries, ~Due(x)'
                 PROVE  /\ (\A c \in Slots : ~Coming(c, x)') => cache'[x] = Listed(stored')[x]
                        /\ \A c \in Slots : Coming(c, x)' /\ ~calls'[c].met =>
                             cache'[x] = 0 /\ x \in stored'
      BY DEF CachedIsStored, Listed
    <3>1. ASSUME \A c \in Slots : ~Coming(c, x)'
          PROVE  cache'[x] = Listed(stored')[x]
      <4>1. \A c \in Slots : ~Answered(c, x)
        BY <2>1, <3>1 DEF Due, Coming, Answered, CreatesDatabase
      <4>2. x \in fetch.apps \cup fetch.databases <=> x \in stored
        BY <1>0, <2>1, <4>1 DEF ListsInv, ReadIsStored, ReadByKind
      <4> QED BY <2>1, <4>2 DEF Listed
    <3>2. ASSUME NEW c \in Slots, Coming(c, x)'
          PROVE  calls'[c].met
      BY <2>1, <3>2 DEF Coming, CreatesDatabase, ListsInv, FetchMeets
    <3> QED BY <3>1, <3>2
  <2> QED BY <2>2, <2>3, <2>4 DEF ListsInv
<1>4. CASE FetchFails
  BY <1>4, SuspectKeeps DEF FetchFails
<1>5. CASE Read("apps", "app") \/ Read("databases", "database")
  <2>1. /\ fetch # None /\ fetch' # None /\ fetch'.clean = fetch.clean
        /\ UNCHANGED <<stored, cache, calls, suspect>>
        /\ \/ fetch'.apps = fetch.apps
           \/ fetch'.apps = {x \in stored : x.kind = "app"}
        /\ \/ fetch'.databases = fetch.databases
           \/ fetch'.databases = {x \in stored : x.kind = "database"}
    <3>1. fetch # None /\ fetch \in Fetch
      BY <1>5 DEF Read, Typed, TypeOK
    <3>2. CASE Read("apps", "app")
      <4>1. fetch' = [fetch EXCEPT !.apps = {x \in stored : x.kind = "app"}]
            /\ fetch' \in Fetch \cup {None}
        BY <3>2 DEF Read, Typed, TypeOK
      <4>2. {x \in stored : x.kind = "app"} \in SUBSET Entries
        BY DEF Typed, TypeOK
      <4>3. fetch' \in Fetch
        BY <3>1, <4>1, <4>2 DEF Fetch
      <4> QED BY <3>1, <3>2, <4>1, <4>3, NoneAssumption DEF Read, Fetch
    <3>3. CASE Read("databases", "database")
      <4>1. fetch' = [fetch EXCEPT !.databases = {x \in stored : x.kind = "database"}]
        BY <3>3 DEF Read
      <4>2. {x \in stored : x.kind = "database"} \in SUBSET Entries
        BY DEF Typed, TypeOK
      <4>3. fetch' \in Fetch
        BY <3>1, <4>1, <4>2 DEF Fetch
      <4> QED BY <3>1, <3>3, <4>1, <4>3, NoneAssumption DEF Read, Fetch
    <3> QED BY <1>5, <3>2, <3>3
  <2>2. FetchMeets' /\ CachedIsStored'
    BY <2>1 DEF FetchMeets, CachedIsStored, CreatesDatabase, ListsInv
  <2>3. ReadByKind'
    BY <2>1 DEF ReadByKind, ListsInv
  <2>4. ReadIsStored'
    BY <2>1 DEF ReadIsStored, Answered, ListsInv
  <2>5. FirstFetch'
    BY <2>1 DEF FirstFetch, ListsInv
  <2> QED BY <2>2, <2>3, <2>4, <2>5 DEF ListsInv
<1>6. ASSUME NEW x \in Entries, Others(x)
      PROVE  ListsInv'
  BY <1>6, SuspectKeeps DEF Others
<1>7. ASSUME NEW c \in Slots, GivesUp(c)
      PROVE  ListsInv'
  BY <1>7, SuspectKeeps, WithoutCalls DEF GivesUp, Typed
<1>8. ASSUME NEW c \in Slots, NEW x \in Entries, NEW does \in {"create", "remove"},
             Start(c, does, x), cache = None => does = "create"
      PROVE  ListsInv'
  <2>1. /\ calls'[c] # None /\ calls[c] = None
        /\ calls'[c].does = does /\ calls'[c].entry = x /\ calls'[c].pc = "sent"
        /\ calls'[c].met <=> fetch # None
        /\ \A d \in Slots \ {c} : calls'[d] = calls[d]
    BY <1>8, StartedCalls DEF Typed
  <2>2. UNCHANGED <<stored, cache, suspect>>
    BY <1>8 DEF Start
  <2>3. fetch' = IF does = "create" /\ x.kind = "database" THEN Soiled ELSE fetch
    BY <1>8 DEF Start
  <2>4. /\ fetch' = None <=> fetch = None
        /\ fetch # None => /\ fetch'.apps = fetch.apps /\ fetch'.databases = fetch.databases
                           /\ fetch'.clean => fetch.clean
                           /\ does = "create" /\ x.kind = "database" => ~fetch'.clean
    BY <2>3, SoiledFetch DEF Typed
  <2>5. \A d \in Slots : \A y : Answered(d, y)' <=> Answered(d, y)
    BY <2>1 DEF Answered
  <2>6. \A d \in Slots : \A y : Answered(d, y) => calls'[d] = calls[d]
    BY <2>1 DEF Answered
  <2>7. \A d \in Slots : d # c => (CreatesDatabase(d)' <=> CreatesDatabase(d))
    BY <2>1 DEF CreatesDatabase
  <2>8. CreatesDatabase(c)' => does = "create" /\ x.kind = "database"
    BY <2>1 DEF CreatesDatabase
  <2>9. FetchMeets'
    BY <2>1, <2>4, <2>7, <2>8 DEF FetchMeets, ListsInv
  <2>10. ReadIsStored' /\ ReadByKind'
    BY <2>2, <2>4, <2>5 DEF ReadIsStored, ReadByKind, ListsInv
  <2>11. \A y : (Due(y)' <=> Due(y)) /\ \A d \in Slots : Coming(d, y)' <=> Coming(d, y)
    <3>1. \A d \in Slots : \A y : Answered(d, y) => d # c
      BY <2>1 DEF Answered
    <3> QED BY <2>5, <2>7, <3>1 DEF Due, Coming
  <2>12. CachedIsStored'
    BY <2>2, <2>4, <2>6, <2>11 DEF CachedIsStored, Coming, Listed, ListsInv
  <2>13. FirstFetch'
    BY <1>8, <2>1, <2>2, <2>4 DEF FirstFetch, ListsInv
  <2> QED BY <2>9, <2>10, <2>12, <2>13 DEF ListsInv
<1>9. ASSUME NEW c \in Slots, Handle(c)
      PROVE  ListsInv'
  <2>0. /\ calls[c] # None /\ calls[c].pc = "sent" /\ calls[c].entry \in Entries
        /\ \A d \in Slots \ {c} : calls'[d] = calls[d]
        /\ UNCHANGED <<cache, fetch, suspect>>
    BY <1>9, HandledCalls DEF Handle, Typed, Call
  <2>a. PICK x \in Entries : x = calls[c].entry
    BY <2>0
  <2>1. /\ calls[c] # None /\ calls[c].pc = "sent" /\ x = calls[c].entry
        /\ \A d \in Slots \ {c} : calls'[d] = calls[d]
        /\ UNCHANGED <<cache, fetch, suspect>>
    BY <2>0, <2>a
  <2>2. CASE stored' = stored /\ calls'[c] = None
    <3>1. \A d \in Slots : \A y : Answered(d, y)' <=> Answered(d, y)
      BY <2>1, <2>2 DEF Answered
    <3>2. \A d \in Slots : CreatesDatabase(d)' => CreatesDatabase(d) /\ calls'[d] = calls[d]
      BY <2>1, <2>2 DEF CreatesDatabase
    <3>3. \A d \in Slots : \A y :
            Answered(d, y) => calls'[d] = calls[d] /\ (CreatesDatabase(d)' <=> CreatesDatabase(d))
      BY <2>1 DEF Answered, CreatesDatabase
    <3>4. FetchMeets'
      BY <2>1, <3>2 DEF FetchMeets, ListsInv
    <3>5. ReadIsStored' /\ ReadByKind'
      BY <2>1, <2>2, <3>1 DEF ReadIsStored, ReadByKind, ListsInv
    <3>6. \A y : (Due(y)' <=> Due(y)) /\ \A d \in Slots : Coming(d, y)' <=> Coming(d, y)
      BY <3>1, <3>3 DEF Due, Coming
    <3>7. CachedIsStored'
      BY <2>1, <2>2, <3>3, <3>6 DEF CachedIsStored, Coming, Listed, ListsInv
    <3>8. FirstFetch'
      BY <2>1, <2>2 DEF FirstFetch, ListsInv
    <3> QED BY <3>4, <3>5, <3>7, <3>8 DEF ListsInv
  <2>3. CASE /\ Accepts(c) /\ stored' = After(c)
             /\ calls'[c] # None /\ calls'[c].pc = "answered"
             /\ calls'[c].does = calls[c].does /\ calls'[c].entry = x
             /\ calls'[c].met = calls[c].met
    <3>1. Answered(c, x)' /\ \A y : ~Answered(c, y)
      BY <2>1, <2>3 DEF Answered
    <3>2. \A d \in Slots : CreatesDatabase(d)' <=> CreatesDatabase(d)
      BY <2>1, <2>3 DEF CreatesDatabase
    <3>3. \A y \in Entries \ {x} : y \in stored' <=> y \in stored
      BY <2>1, <2>3 DEF After
    <3>4. \A d \in Slots : \A y \in Entries \ {x} : Answered(d, y)' <=> Answered(d, y)
      BY <2>1, <2>3 DEF Answered
    <3>5. \A d \in Slots : CreatesDatabase(d)' => calls'[d].met = calls[d].met
      BY <2>1, <2>3
    <3>6. FetchMeets'
      BY <2>1, <3>2, <3>5 DEF FetchMeets, ListsInv
    <3>7. ReadIsStored' /\ ReadByKind'
      BY <2>1, <3>1, <3>3, <3>4 DEF ReadIsStored, ReadByKind, ListsInv
    <3>8. CachedIsStored'
      <4> SUFFICES ASSUME fetch' = None, cache' # None, ~suspect',
                          NEW y \in Entries, ~Due(y)'
                   PROVE  /\ (\A d \in Slots : ~Coming(d, y)') =>
                               cache'[y] = Listed(stored')[y]
                          /\ \A d \in Slots : Coming(d, y)' /\ ~calls'[d].met =>
                               cache'[y] = 0 /\ y \in stored'
        BY DEF CachedIsStored, Listed
      <4>1. CASE y # x
        <5>1. ~Due(y) /\ \A d \in Slots : Coming(d, y)' <=> Coming(d, y)
          BY <3>2, <3>4, <4>1 DEF Due, Coming
        <5> QED BY <2>1, <3>3, <3>5, <4>1, <5>1
                DEF CachedIsStored, Coming, Listed, ListsInv
      <4>2. CASE y = x
        <5>1. CreatesDatabase(c) /\ CreatesDatabase(c)'
          BY <3>1, <3>2, <4>2 DEF Due
        <5>2. x \notin stored /\ x \in stored'
          BY <2>1, <2>3, <5>1 DEF Accepts, After, CreatesDatabase
        <5>3. \A d \in Slots : CreatesDatabase(d) => d = c
          BY <5>1 DEF CreatesDatabase, Creating, Typed, Bounded
        <5>4. \A d \in Slots : ~Coming(d, x)
          BY <3>1, <5>3 DEF Coming
        <5>5. ~Due(x)
          <6>1. \A d \in Slots \ {c} : Answered(d, x) => Answered(d, x)'
            BY <2>1 DEF Answered
          <6> QED BY <3>1, <3>2, <4>2, <6>1 DEF Due
        <5>6. cache[x] = 0
          BY <2>1, <5>2, <5>4, <5>5 DEF CachedIsStored, Listed, ListsInv
        <5>7. Coming(c, x)'
          BY <3>1, <5>1 DEF Coming
        <5> QED BY <2>1, <4>2, <5>2, <5>6, <5>7
      <4> QED BY <4>1, <4>2
    <3>9. FirstFetch'
      <4>1. cache = None => stored \subseteq stored'
        BY <2>1, <2>3 DEF FirstFetch, ListsInv, After
      <4> QED BY <2>1, <2>3, <4>1 DEF FirstFetch, ListsInv
    <3> QED BY <3>6, <3>7, <3>8, <3>9 DEF ListsInv
  <2> QED BY <1>9, <2>1, <2>2, <2>3, HandledCalls DEF Typed
<1>10. ASSUME NEW c \in Slots, Refreshes(c)
       PROVE  ListsInv'
  <2>1. /\ Without(c) \in [Slots -> Call \cup {None}]
        /\ \A d \in Slots : Without(c)[d] = calls[d] \/ Without(c)[d] = None
    BY WithoutCalls DEF Typed
  <2>2. calls' = Meeting(Without(c)) /\ UNCHANGED <<stored, cache>>
    BY <1>10 DEF Refreshes
  <2>8. \A d \in Slots :
          /\ calls'[d] = None <=> Without(c)[d] = None
          /\ Without(c)[d] # None => /\ calls'[d].does = Without(c)[d].does
                                     /\ calls'[d].entry = Without(c)[d].entry
                                     /\ calls'[d].pc = Without(c)[d].pc
                                     /\ calls'[d].met = TRUE
    <3>1. PICK cs \in [Slots -> Call \cup {None}] : cs = Without(c)
      BY <2>1
    <3>2. \A d \in Slots :
            /\ Meeting(cs)[d] = None <=> cs[d] = None
            /\ cs[d] # None => /\ Meeting(cs)[d].does = cs[d].does
                               /\ Meeting(cs)[d].entry = cs[d].entry
                               /\ Meeting(cs)[d].pc = cs[d].pc
                               /\ Meeting(cs)[d].met = TRUE
      BY MeetingCalls
    <3>3. calls' = Meeting(cs)
      BY <2>2, <3>1
    <3> QED BY <3>1, <3>2, <3>3
  <2>3. CASE fetch' = Fresh
    BY <2>1, <2>2, <2>3, FreshKeeps
  <2>4. ASSUME cache = None, fetch # None, fetch' \in {fetch, Soiled}
        PROVE  FetchMeets' /\ ReadByKind' /\ CachedIsStored'
    <3>1. /\ fetch' # None /\ fetch'.apps = fetch.apps /\ fetch'.databases = fetch.databases
          /\ fetch'.clean => fetch.clean
      BY <2>4, SoiledFetch DEF Typed
    <3>2. \A d \in Slots : CreatesDatabase(d)' => CreatesDatabase(d) /\ calls'[d].met = TRUE
      BY <2>1, <2>2, <2>8 DEF CreatesDatabase
    <3> QED BY <2>2, <2>4, <3>1, <3>2 DEF FetchMeets, ReadByKind, CachedIsStored, ListsInv
  <2>5. cache = None => \A d \in Slots : calls'[d] # None => calls'[d].does = "create"
    <3>1. \A d \in Slots :
            calls'[d] # None => Without(c)[d] # None /\ calls'[d].does = Without(c)[d].does
      BY <2>1, <2>2, MeetingCalls
    <3> QED BY <2>1, <3>1 DEF FirstFetch, ListsInv
  <2>6. CASE cache = None /\ fetch # None /\ Misses(c) /\ fetch' = Soiled /\ suspect'
    <3>1. ~fetch'.clean
      BY <2>6, SoiledFetch DEF Typed
    <3> QED BY <2>2, <2>4, <2>5, <2>6, <3>1 DEF ReadIsStored, FirstFetch, ListsInv
  <2>7. CASE cache = None /\ fetch # None /\ ~Misses(c) /\ fetch' = fetch /\ suspect' = suspect
    <3>1. PICK e \in Entries : e = calls[c].entry
      BY <1>10 DEF Refreshes, Typed, TypeOK, Call
    <3>2. e.kind = "app" /\ (fetch.apps # None => e \in fetch.apps)
      BY <1>0, <1>10, <2>7, <3>1 DEF Refreshes, CreatesDatabase, Misses, FirstFetch, ListsInv
    <3>3. FirstFetch'
      BY <2>2, <2>5, <2>7 DEF FirstFetch, ListsInv
    <3>4. \A x \in Entries \ {e} : \A d \in Slots : Answered(d, x) => Answered(d, x)'
      <4>1. \A d \in Slots \ {c} : calls[d] # None =>
              calls'[d] # None /\ calls'[d].pc = calls[d].pc /\ calls'[d].entry = calls[d].entry
        <5>1. \A d \in Slots \ {c} : Without(c)[d] = calls[d]
          BY WithoutCalls DEF Typed
        <5> QED BY <2>2, <2>8, <5>1
      <4> QED BY <3>1, <4>1 DEF Answered
    <3>5. ReadIsStored'
      <4> SUFFICES ASSUME fetch.clean \/ ~suspect, NEW x \in Entries,
                          \A d \in Slots : ~Answered(d, x)'
                   PROVE  /\ x.kind = "app" /\ fetch.apps # None =>
                               (x \in fetch.apps <=> x \in stored)
                          /\ x.kind = "database" /\ fetch.databases # None =>
                               (x \in fetch.databases <=> x \in stored)
        BY <2>2, <2>7 DEF ReadIsStored
      <4>1. CASE x = e
        BY <2>7, <3>2, <4>1 DEF FirstFetch, ListsInv
      <4>2. CASE x # e
        BY <2>7, <3>4, <4>2 DEF ReadIsStored, ListsInv
      <4> QED BY <4>1, <4>2
    <3> QED BY <2>4, <2>7, <3>3, <3>5 DEF ListsInv
  <2> QED BY <1>10, <2>3, <2>6, <2>7, RefreshedFetch DEF Typed
<1>11. ASSUME NEW c \in Slots, Appends(c)
       PROVE  ListsInv'
  <2> DEFINE x == calls[c].entry
  <2>1. /\ calls[c] # None /\ Coming(c, x) /\ CreatesDatabase(c) /\ x \in Entries
        /\ UNCHANGED <<stored, fetch>>
        /\ calls'[c] = None /\ \A d \in Slots \ {c} : calls'[d] = calls[d]
        /\ ~suspect' => ~suspect /\ ~calls[c].met /\ cache # None
    BY <1>11, AppendedCache, WithoutCalls
    DEF Appends, Coming, Answered, CreatesDatabase, Typed
  <2>2. \A d \in Slots : d # c => ~CreatesDatabase(d) /\ ~CreatesDatabase(d)'
    BY <2>1 DEF CreatesDatabase, Creating, Typed, Bounded
  <2>3. ~CreatesDatabase(c)'
    BY <2>1 DEF CreatesDatabase
  <2>4. FetchMeets' /\ ReadByKind'
    BY <2>1, <2>2, <2>3 DEF FetchMeets, ReadByKind, ListsInv
  <2>5. fetch # None => suspect' /\ ~fetch.clean
    BY <2>1 DEF FetchMeets, ListsInv
  <2>6. ReadIsStored'
    BY <2>1, <2>5 DEF ReadIsStored
  <2>7. CachedIsStored'
    <3> SUFFICES ASSUME fetch = None, ~suspect', NEW y \in Entries, ~Due(y)'
                 PROVE  /\ cache'[y] = Listed(stored')[y]
                        /\ \A d \in Slots : ~Coming(d, y)'
      BY <2>1 DEF CachedIsStored, Listed
    <3>1. \A d \in Slots : ~Coming(d, y)'
      BY <2>2, <2>3 DEF Coming
    <3>2. ~Due(y)
      <4>1. \A d \in Slots \ {c} : Answered(d, y) => Answered(d, y)'
        BY <2>1 DEF Answered
      <4> QED BY <2>1, <2>2, <4>1 DEF Due
    <3>3. cache'[y] = cache[y] + IF y = x THEN 1 ELSE 0
      BY <1>11, <2>1, AppendedCache DEF Shown
    <3>4. cache[y] \in Nat
      BY <2>1 DEF Typed, TypeOK, Lists
    <3>5. CASE y = x
      <4>1. cache[x] = 0 /\ x \in stored
        BY <2>1, <3>2, <3>5 DEF CachedIsStored, ListsInv
      <4> QED BY <2>1, <3>1, <3>3, <3>5, <4>1 DEF Listed
    <3>6. CASE y # x
      <4>1. \A d \in Slots : ~Coming(d, y)
        BY <2>1, <2>2, <3>6 DEF Coming, Answered
      <4>2. cache[y] = Listed(stored)[y]
        BY <2>1, <3>2, <4>1 DEF CachedIsStored, ListsInv
      <4> QED BY <2>1, <3>1, <3>3, <3>4, <3>6, <4>2
    <3> QED BY <3>5, <3>6
  <2>8. FirstFetch'
    <3>1. cache' \in Lists
      BY <1>11, AppendedCache
    <3> QED BY <3>1, NoneAssumption DEF FirstFetch
  <2> QED BY <2>4, <2>6, <2>7, <2>8 DEF ListsInv
<1> QED
  BY <1>1, <1>2, <1>3, <1>4, <1>5, <1>6, <1>7, <1>8, <1>9, <1>10, <1>11
  DEF Next, vars, ResetCanvas, Create, Remove, Shown, Empty

(* At rest the lists are those of the platform, unless the first fetch     *)
(* missed a service created while it was under way, a fetch met the        *)
(* creation of a database, something failed, or others changed what is     *)
(* stored: for any number of creations and removals at once, and for any   *)
(* order in which they are handled and answered.                           *)
THEOREM ListsAreStored == Spec => []ListsExact
<1>1. Init => ListsInv
  BY DEF Init, ListsInv, FetchMeets, ReadIsStored, ReadByKind, CachedIsStored,
         FirstFetch, CreatesDatabase
<1>2. Typed /\ ListsInv => ListsExact
  <2> SUFFICES ASSUME Typed, ListsInv, cache # None, fetch = None,
                      \A c \in Slots : calls[c] = None, ~suspect
               PROVE  cache = Listed(stored)
    BY DEF ListsExact
  <2>1. \A x \in Entries : cache[x] = Listed(stored)[x]
    BY DEF ListsInv, CachedIsStored, Due, Coming, Answered
  <2>2. cache \in Lists
    BY DEF Typed, TypeOK
  <2> QED BY <2>1, <2>2 DEF Lists, Listed
<1> QED BY <1>1, <1>2, ListsStep, TypedAlways, PTL DEF Spec
=============================================================================
