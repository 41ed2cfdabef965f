-------------------------- MODULE ManagePageProofs --------------------------
(***************************************************************************)
(* Theorems about ManagePage, for any services, databases, variables and   *)
(* paths, and any number of calls: what belongs to one service is not      *)
(* shown under another, and nothing typed is hidden or dropped.            *)
(***************************************************************************)
EXTENDS ManagePage, TLAPS

(* A call that reveals names a variable of a service, and one that saves a *)
(* path has one to save.                                                   *)
CallsOK(cs) ==
  /\ cs \in [Slots -> Call \cup {None}]
  /\ \A c \in Slots : cs[c] # None =>
       /\ cs[c].kind = "reveal" => cs[c].on \in Apps /\ cs[c].name \in Names
       /\ cs[c].kind = "health" => cs[c].path \in HealthPaths

Typed == TypeOK /\ CallsOK(calls)

Starts(kind, on, name, path) ==
  [kind |-> kind, on |-> on, name |-> name, path |-> path, here |-> TRUE]

(* A call that starts takes a free slot and disturbs no other.             *)
LEMMA StartedCalls ==
  ASSUME Typed, NEW kind \in Kinds, NEW on \in Items,
         NEW name \in Names \cup {None}, NEW path \in HealthPaths \cup {None},
         kind = "reveal" => on \in Apps /\ name \in Names,
         kind = "health" => path \in HealthPaths
  PROVE  /\ CallsOK(Started(kind, on, name, path))
         /\ \A c \in Slots :
              \/ Started(kind, on, name, path)[c] = calls[c]
              \/ Started(kind, on, name, path)[c] = Starts(kind, on, name, path)
<1> DEFINE new == Starts(kind, on, name, path)
           cs == Started(kind, on, name, path)
<1>1. new \in Call /\ new.kind = kind /\ new.on = on /\ new.name = name /\ new.path = path
  BY DEF Starts, Call
<1>2. \A c \in Slots : cs[c] \in {calls[c], new}
  BY DEF Started, Starts
<1>3. cs \in [Slots -> Call \cup {None}]
  <2>1. \A c \in Slots : cs[c] \in Call \cup {None}
    BY <1>1, <1>2 DEF Typed, CallsOK
  <2>2. cs = [c \in Slots |-> cs[c]]
    BY DEF Started
  <2> HIDE DEF cs
  <2> QED BY <2>1, <2>2
<1> HIDE DEF cs, new
<1>4. CallsOK(cs)
  BY <1>1, <1>2, <1>3 DEF Typed, CallsOK
<1> QED BY <1>2, <1>4 DEF cs, new

(* One that ends frees its slot and disturbs no other.                     *)
LEMMA WithoutCalls ==
  ASSUME Typed, NEW c \in Slots
  PROVE  /\ CallsOK(Without(c))
         /\ Without(c)[c] = None
         /\ \A d \in Slots \ {c} : Without(c)[d] = calls[d]
BY DEF Without, Typed, CallsOK

(* When a tab goes its calls go on, and are no longer its calls.           *)
LEMMA AbandonedCalls ==
  ASSUME NEW cs, CallsOK(cs)
  PROVE  /\ CallsOK(Abandoned(cs))
         /\ \A c \in Slots :
              /\ Abandoned(cs)[c] = None <=> cs[c] = None
              /\ cs[c] # None => /\ Abandoned(cs)[c].kind = cs[c].kind
                                 /\ ~Abandoned(cs)[c].here
<1>1. ASSUME NEW c \in Slots, cs[c] # None
      PROVE  LET gone == [cs[c] EXCEPT !.here = FALSE] IN
             /\ gone \in Call /\ gone.kind = cs[c].kind
             /\ gone.on = cs[c].on /\ gone.name = cs[c].name
             /\ gone.path = cs[c].path /\ ~gone.here
  BY <1>1 DEF CallsOK, Call
<1>2. \A c \in Slots : Abandoned(cs)[c] =
        IF cs[c] = None THEN None ELSE [cs[c] EXCEPT !.here = FALSE]
  BY DEF Abandoned
<1>3. None \notin Call
  BY ItemsAssumption
<1>4. Abandoned(cs) \in [Slots -> Call \cup {None}]
  BY <1>1 DEF Abandoned
<1>5. \A c \in Slots : cs[c] \in Call \cup {None}
  BY DEF CallsOK
<1> HIDE DEF Abandoned
<1>6. \A c \in Slots :
        /\ Abandoned(cs)[c] = None <=> cs[c] = None
        /\ cs[c] # None => /\ Abandoned(cs)[c].kind = cs[c].kind
                           /\ Abandoned(cs)[c].on = cs[c].on
                           /\ Abandoned(cs)[c].name = cs[c].name
                           /\ Abandoned(cs)[c].path = cs[c].path
                           /\ ~Abandoned(cs)[c].here
  BY <1>1, <1>2, <1>3
<1> QED BY <1>4, <1>6 DEF CallsOK

(* What the page shows is typed, whatever it shows.                        *)
LEMMA ShowsTyped ==
  ASSUME Typed, NEW x, NEW t \in Tabs, NEW cs, CallsOK(cs), Shows(x, t, cs),
         listed' \subseteq Items
  PROVE  /\ selected' \in {None} \cup listed' \cup Platform /\ tab' \in Tabs
         /\ drafts' \in [Names -> Draft \cup {None}]
         /\ values' \in [Names -> Value \cup {None}]
         /\ visible' \subseteq Names /\ revealing' \in Names \cup {None}
         /\ healthDraft' \in Apps \cup {None}
         /\ unmasked' \in Databases \cup {None}
         /\ switched' \in BOOLEAN /\ overlapped' \in BOOLEAN /\ reenabled' \in BOOLEAN
         /\ CallsOK(calls')
<1>1. selected' \in {None} \cup listed' \cup Platform /\ tab' \in Tabs
  BY DEF Shows, SettledIn
<1>2. VariablesStay \/ VariablesGo
  BY DEF Shows
<1>3. /\ drafts' \in [Names -> Draft \cup {None}]
      /\ values' \in [Names -> Value \cup {None}]
      /\ visible' \subseteq Names /\ revealing' \in Names \cup {None}
      /\ overlapped' \in BOOLEAN /\ reenabled' \in BOOLEAN
  BY <1>2 DEF VariablesStay, VariablesGo, Typed, TypeOK
<1>4. healthDraft' \in Apps \cup {None}
  BY DEF Shows, HealthDraftFor, Typed, TypeOK
<1>5. unmasked' \in Databases \cup {None}
  BY DEF Shows, Typed, TypeOK
<1>6. switched' \in BOOLEAN
  BY DEF Shows
<1>7. CallsOK(calls')
  BY AbandonedCalls DEF Shows
<1> QED BY <1>1, <1>3, <1>4, <1>5, <1>6, <1>7

(* Marking the drafts as sent, or as not sent, drops none of them.         *)
LEMMA SetSentTyped ==
  ASSUME TypeOK, NEW sent \in BOOLEAN
  PROVE  /\ SetSent(sent) \in [Names -> Draft \cup {None}]
         /\ \A n \in Names :
              /\ SetSent(sent)[n] = None <=> drafts[n] = None
              /\ drafts[n] # None => /\ SetSent(sent)[n].from = drafts[n].from
                                     /\ SetSent(sent)[n].sent = sent
<1>1. ASSUME NEW n \in Names, drafts[n] # None
      PROVE  LET d == [drafts[n] EXCEPT !.sent = sent] IN
             d \in Draft /\ d.from = drafts[n].from /\ d.sent = sent
  BY <1>1 DEF TypeOK, Draft
<1>2. None \notin Draft
  BY ItemsAssumption
<1> QED BY <1>1, <1>2 DEF SetSent

(* Every reachable state is well typed, its calls included.                *)
THEOREM TypedAlways == Spec => []Typed
<1>1. Init => Typed
  <2> SUFFICES ASSUME Init
               PROVE  Typed
    OBVIOUS
  <2>1. CallsOK(calls) /\ calls \in [Slots -> Call \cup {None}]
    BY DEF Init, CallsOK
  <2>2. started \in 0..MaxStarts
    BY CallsAssumption DEF Init
  <2> QED BY <2>1, <2>2 DEF Init, Typed, TypeOK, Tabs
<1>2. Typed /\ [Next]_vars => Typed'
  <2> SUFFICES ASSUME Typed, [Next]_vars
               PROVE  Typed'
    OBVIOUS
  <2>a. CallsOK(calls') => CallsOK(calls)' /\ calls' \in [Slots -> Call \cup {None}]
    BY DEF CallsOK
  <2>0. MayStart => started' \in 0..MaxStarts
    BY CallsAssumption DEF MayStart, Typed, TypeOK
  <2>1. CASE Close \/ \E x \in Items \cup Platform : SelectService(x)
    <3>1. \E x : \E t \in Tabs : Shows(x, t, calls) /\ KeepsOff /\ NothingSent
      <4>1. FirstTab \in Tabs /\ tab \in Tabs
        BY <2>a DEF FirstTab, Tabs, Typed, TypeOK
      <4> QED BY <2>1, <4>1 DEF Close, SelectService
    <3>2. PICK x : \E t \in Tabs : Shows(x, t, calls) /\ KeepsOff /\ NothingSent
      BY <3>1
    <3>3. PICK t \in Tabs : Shows(x, t, calls) /\ KeepsOff /\ NothingSent
      BY <3>2
    <3> QED BY <2>a, <3>3, ShowsTyped
            DEF KeepsOff, NothingSent, loaded, Typed, TypeOK
  <2>2. CASE CloseModal \/ \E kind \in {"service", "database"} : OpenModal(kind)
    BY <2>a, <2>2 DEF CloseModal, OpenModal, loaded, page, contents, variablesTab,
                Typed, TypeOK
  <2>3. ASSUME NEW kind \in Kinds, kind # "reveal", NEW path \in HealthPaths \cup {None},
               kind = "health" => path \in HealthPaths,
               Sends(kind, path)
        PROVE  /\ UNCHANGED <<loaded, saving, page, creating>>
               /\ busyApp' \in Apps \cup {None} /\ started' \in 0..MaxStarts
               /\ CallsOK(calls')
    <3>1. selected \in Apps /\ selected \in Items
      BY <2>3 DEF Sends, Items
    <3>2. CallsOK(calls')
      BY <2>3, <3>1, StartedCalls DEF Sends
    <3> QED BY <2>0, <2>3, <3>1, <3>2 DEF Sends
  <2>4. CASE Import \/ Change
    <3>1. Sends("other", None) /\ UNCHANGED contents
      BY <2>4 DEF Import, Change
    <3> QED BY <2>a, <2>3, <3>1 DEF Kinds, loaded, page, contents, variablesTab,
                              Typed, TypeOK
  <2>5. CASE SaveChanges
    <3>1. Sends("save", None)
      BY <2>5 DEF SaveChanges
    <3> QED BY <2>a, <2>3, <2>5, <3>1, SetSentTyped
            DEF SaveChanges, Kinds, loaded, page, Typed, TypeOK
  <2>6. CASE SaveHealthPath
    <3>1. PICK path \in HealthPaths : Sends("health", path)
      BY <2>6 DEF SaveHealthPath
    <3> QED BY <2>a, <2>3, <2>6, <3>1
            DEF SaveHealthPath, Kinds, loaded, page, contents, variablesTab,
                Typed, TypeOK
  <2>7. CASE Remove
    <3>1. CASE Sends("remove", None) /\ UNCHANGED contents
      BY <2>a, <2>3, <3>1 DEF Kinds, loaded, page, contents, variablesTab, Typed, TypeOK
    <3>2. CASE NothingSent /\ Shows(None, tab, calls) /\ KeepsOff
      BY <2>a, <3>2, ShowsTyped DEF KeepsOff, NothingSent, loaded, Typed, TypeOK
    <3> QED BY <2>7, <3>1, <3>2 DEF Remove
  <2>8. ASSUME NEW t \in Tabs, SelectTab(t)
        PROVE  Typed'
    <3>1. CASE NothingSent /\ Shows(selected, t, calls)
      BY <2>a, <2>8, <3>1, ShowsTyped
      DEF SelectTab, StaysJumped, NothingSent, loaded, Typed, TypeOK
    <3>2. CASE /\ MayStart /\ busyApp' = selected
               /\ UNCHANGED <<loaded, saving, creating>>
               /\ Shows(selected, t, Started("other", selected, None, None))
      <4>1. selected \in Apps /\ selected \in Items
        BY <2>8 DEF SelectTab, Items
      <4>2. CallsOK(Started("other", selected, None, None))
        BY <4>1, StartedCalls DEF Kinds
      <4>3. started' \in 0..MaxStarts
        BY <2>0, <3>2
      <4> QED BY <2>a, <2>8, <3>2, <4>1, <4>2, <4>3, ShowsTyped
              DEF SelectTab, StaysJumped, loaded, Typed, TypeOK
    <3> QED BY <2>8, <3>1, <3>2 DEF SelectTab
  <2>9. ASSUME NEW n \in Names, ToggleValue(n)
        PROVE  Typed'
    <3>1. /\ UNCHANGED <<page, healthDraft, unmasked, jumped, switched>>
          /\ selected \in Apps /\ selected \in Items
      BY <2>9 DEF ToggleValue, OnTab, VariablesOpen, Items
    <3>2. CASE /\ visible' = IF n \in visible THEN visible \ {n} ELSE visible \cup {n}
               /\ UNCHANGED <<drafts, values, revealing, overlapped, reenabled, calls>>
               /\ NothingSent
      BY <2>a, <3>1, <3>2 DEF NothingSent, loaded, page, Typed, TypeOK
    <3>3. CASE /\ MayStart
               /\ calls' = Started("reveal", selected, n, None)
               /\ revealing' = n
               /\ overlapped' = (overlapped \/ \E c \in Slots :
                    calls[c] # None /\ calls[c].kind = "reveal" /\ calls[c].here)
               /\ UNCHANGED <<drafts, values, visible, reenabled, loaded, busyApp,
                              saving, creating>>
      <4>1. CallsOK(calls')
        BY <3>1, <3>3, StartedCalls DEF Kinds
      <4>2. overlapped' \in BOOLEAN
        BY <3>3
      <4>3. started' \in 0..MaxStarts
        BY <2>0, <3>3
      <4> QED BY <2>a, <3>1, <3>3, <4>1, <4>2, <4>3 DEF loaded, page, Typed, TypeOK
    <3> QED BY <2>9, <3>2, <3>3 DEF ToggleValue
  <2>10. ASSUME NEW n \in Names, UpdateValue(n)
         PROVE  Typed'
    <3>1. /\ [from |-> selected, sent |-> FALSE] \in Draft
          /\ [from |-> selected, typed |-> TRUE] \in Value
      BY <2>10 DEF UpdateValue, VariablesOpen, Draft, Value
    <3> QED BY <2>a, <2>10, <3>1
            DEF UpdateValue, OnTab, NothingSent, loaded, page, Typed, TypeOK
  <2>11. ASSUME NEW c \in Slots, RevealAnswered(c)
         PROVE  Typed'
    <3>1. /\ calls[c].on \in Apps /\ calls[c].name \in Names
          /\ [from |-> calls[c].on, typed |-> FALSE] \in Value
      BY <2>11 DEF RevealAnswered, Typed, CallsOK, Value
    <3>2. CallsOK(calls')
      BY <2>11, WithoutCalls DEF RevealAnswered
    <3>3. /\ revealing' \in Names \cup {None} /\ visible' \subseteq Names
          /\ values' \in [Names -> Value \cup {None}]
      BY <2>a, <2>11, <3>1 DEF RevealAnswered, Typed, TypeOK
    <3> QED BY <2>a, <2>11, <3>2, <3>3
            DEF RevealAnswered, OnTab, NothingSent, loaded, page, Typed, TypeOK
  <2>12. CASE TypeHealthPath \/ RevealCredentials
    BY <2>a, <2>12
    DEF TypeHealthPath, RevealCredentials, SettingsOpen, NothingSent, loaded, page,
        variablesTab, Typed, TypeOK
  <2>13. CASE RemoveDatabase
    <3>1. selected \in Items
      BY <2>13 DEF RemoveDatabase, Items
    <3>2. CallsOK(calls')
      BY <2>13, <3>1, StartedCalls DEF RemoveDatabase, Kinds
    <3> QED BY <2>a, <2>0, <2>13, <3>2
            DEF RemoveDatabase, page, contents, variablesTab, Typed, TypeOK
  <2>14. ASSUME NEW c \in Slots, OtherEnds(c) \/ SaveEnds(c) \/ HealthEnds(c)
         PROVE  Typed'
    <3>1. /\ CallsOK(calls') /\ busyApp' = None /\ reenabled' \in BOOLEAN
      BY <2>14, WithoutCalls DEF OtherEnds, SaveEnds, HealthEnds, Releases
    <3>2. CASE OtherEnds(c)
      BY <2>a, <3>1, <3>2 DEF OtherEnds, loaded, page, Typed, TypeOK
    <3>3. CASE SaveEnds(c)
      <4>1. /\ drafts' \in [Names -> Draft \cup {None}]
            /\ values' \in [Names -> Value \cup {None}] /\ visible' \subseteq Names
        <5>1. \A sent \in BOOLEAN : SetSent(sent) \in [Names -> Draft \cup {None}]
          BY SetSentTyped DEF Typed
        <5>2. (\E d \in Slots \ {c} : Of(d, "save") /\ calls[d].here) \in BOOLEAN
          OBVIOUS
        <5>3. SetSent(\E d \in Slots \ {c} : Of(d, "save") /\ calls[d].here)
                \in [Names -> Draft \cup {None}]
          BY <5>1, <5>2
        <5> QED BY <2>a, <3>3, <5>3 DEF SaveEnds, Typed, TypeOK
      <4> QED BY <2>a, <3>1, <3>3, <4>1 DEF SaveEnds, loaded, page, Typed, TypeOK
    <3>4. CASE HealthEnds(c)
      <4>1. calls[c].path \in HealthPaths
        BY <3>4 DEF HealthEnds, Of, Typed, CallsOK
      <4>2. /\ healthPath' \in [Apps -> HealthPaths]
            /\ healthDraft' \in Apps \cup {None}
        BY <2>a, <3>4, <4>1 DEF HealthEnds, Typed, TypeOK
      <4> QED BY <2>a, <3>1, <3>4, <4>2 DEF HealthEnds, page, Typed, TypeOK
    <3> QED BY <2>14, <3>2, <3>3, <3>4
  <2>15. ASSUME NEW c \in Slots, RemoveEnds(c) \/ RemoveDatabaseEnds(c) \/ Created(c)
         PROVE  Typed'
    <3>1. CallsOK(Without(c))
      BY WithoutCalls
    <3>2. calls[c].on \in Items
      BY <2>15 DEF RemoveEnds, RemoveDatabaseEnds, Created, Of, Typed, CallsOK, Call
    <3>3. listed' \subseteq Items
      BY <2>a, <2>15, <3>2 DEF RemoveEnds, RemoveDatabaseEnds, Created, Typed, TypeOK
    <3>4. PICK x : Shows(x, tab, Without(c))
      BY <2>15 DEF RemoveEnds, RemoveDatabaseEnds, Created
    <3>5. jumped' \in BOOLEAN
      BY <2>15 DEF RemoveEnds, RemoveDatabaseEnds, Created, KeepsOff, StaysJumped
    <3> QED BY <2>a, <2>15, <3>1, <3>3, <3>4, <3>5, ShowsTyped
            DEF RemoveEnds, RemoveDatabaseEnds, Created, Typed, TypeOK
  <2>16. ASSUME NEW x \in Items, Submit(x)
         PROVE  Typed'
    <3>1. CallsOK(calls')
      BY <2>16, StartedCalls DEF Submit, Kinds
    <3> QED BY <2>a, <2>0, <2>16, <3>1
            DEF Submit, loaded, page, contents, variablesTab, Typed, TypeOK
  <2>17. ASSUME NEW c \in Slots, DatabaseCreated(c) \/ CreateFails(c)
         PROVE  Typed'
    <3>1. CallsOK(calls')
      BY <2>17, WithoutCalls DEF DatabaseCreated, CreateFails
    <3>2. calls[c].on \in Items
      BY <2>17 DEF DatabaseCreated, CreateFails, Of, Typed, CallsOK, Call
    <3> QED BY <2>a, <2>17, <3>1, <3>2
            DEF DatabaseCreated, CreateFails, loaded, page, contents, variablesTab,
                Typed, TypeOK
  <2>18. ASSUME NEW x \in Items, Vanishes(x)
         PROVE  Typed'
    <3>1. jumped' \in BOOLEAN /\ Shows(selected, tab, calls) /\ listed' \subseteq Items
      BY <2>a, <2>18 DEF Vanishes, StaysJumped, Typed, TypeOK
    <3> QED BY <2>a, <2>18, <3>1, ShowsTyped DEF Vanishes, Typed, TypeOK
  <2>19. CASE UNCHANGED vars
    BY <2>a, <2>19 DEF vars, loaded, page, contents, variablesTab, Typed, TypeOK
  <2> QED
    BY <2>1, <2>2, <2>4, <2>5, <2>6, <2>7, <2>8, <2>9, <2>10, <2>11, <2>12,
       <2>13, <2>14, <2>15, <2>16, <2>17, <2>18, <2>19 DEF Next
<1> QED BY <1>1, <1>2, PTL DEF Spec

(* The page, its drawers and the calls under way are well typed.           *)
THEOREM TypeCorrect == Spec => []TypeOK
<1>1. Typed => TypeOK
  BY DEF Typed
<1> QED BY <1>1, TypedAlways, PTL

-----------------------------------------------------------------------------
(* What a call whose tab is still there may rely on.                       *)
OnPage(c, kind) == Of(c, kind) /\ calls[c].here

(* A value is being revealed under the service it was asked for, and when  *)
(* it is the only one, nothing is typed over it.                           *)
RevealedHere(c) ==
  /\ VariablesOpen
  /\ ~jumped => calls[c].on = selected
  /\ ~overlapped => /\ revealing = calls[c].name
                    /\ drafts[calls[c].name] = None
                    /\ \A d \in Slots : OnPage(d, "reveal") => d = c

(* While a save is under way nothing can be typed.                         *)
SavedHere ==
  /\ VariablesOpen
  /\ ~reenabled /\ ~jumped => /\ Busy
                              /\ \A n \in Names : drafts[n] # None => drafts[n].sent

RevealsHere == \A c \in Slots : OnPage(c, "reveal") => RevealedHere(c)
SavesHere == \A c \in Slots : OnPage(c, "save") => SavedHere
UnmaskedHere == unmasked # None => selected \in Databases

PageInv == /\ RevealsHere /\ SavesHere /\ UnmaskedHere
           /\ NothingOfAnother /\ DraftIsShown

(* The page may show something else, as long as the tab that keeps what it *)
(* holds keeps its service too, or counts as jumped.                       *)
LEMMA ShowsKeeps ==
  ASSUME Typed, PageInv, NEW x, NEW t \in Tabs, NEW cs, CallsOK(cs),
         Shows(x, t, cs), listed' \subseteq Items,
         \A c \in Slots : \/ cs[c] = None \/ cs[c] = calls[c]
                          \/ cs[c].kind = "other",
         selected' \in Apps /\ tab' = tab /\ tab # "deployments" /\ ~jumped' =>
           ~jumped /\ selected' = selected /\ busyApp' \in {busyApp, selected}
  PROVE  PageInv'
<1>1. tab' = t /\ (selected' \in Apps => selected' \notin Databases)
  BY ItemsAssumption DEF Shows
<1>2. CASE VariablesOpen /\ t = "variables" /\ selected' \in Apps
  <2>1. calls' = cs /\ VariablesStay
    BY <1>2 DEF Shows
  <2>2. VariablesOpen' /\ ~SettingsOpen' /\ tab' = tab
    BY <1>1, <1>2 DEF VariablesOpen, SettingsOpen
  <2>3. unmasked' = None
    BY <1>1, <1>2 DEF Shows
  <2>4. \A c \in Slots : \A kind \in {"reveal", "save"} :
          OnPage(c, kind)' => OnPage(c, kind) /\ calls'[c] = calls[c]
    BY <2>1 DEF OnPage, Of
  <2>5. ~jumped' => ~jumped /\ selected' = selected /\ busyApp' \in {busyApp, selected}
    BY <1>1, <1>2, <2>2 DEF VariablesOpen
  <2>6. RevealsHere'
    BY <2>1, <2>2, <2>4, <2>5
    DEF RevealsHere, RevealedHere, VariablesStay, PageInv
  <2>7. SavesHere'
    BY <2>1, <2>2, <2>4, <2>5
    DEF SavesHere, SavedHere, Busy, VariablesStay, PageInv
  <2>8. NothingOfAnother'
    BY <1>2, <2>1, <2>2, <2>3, <2>5 DEF NothingOfAnother, VariablesStay, PageInv
  <2>9. DraftIsShown'
    BY <2>1 DEF DraftIsShown, VariablesStay, PageInv
  <2> QED BY <2>3, <2>6, <2>7, <2>8, <2>9 DEF UnmaskedHere, PageInv
<1>3. CASE ~(VariablesOpen /\ t = "variables" /\ selected' \in Apps)
  <2>1. calls' = Abandoned(cs) /\ VariablesGo
    BY <1>3 DEF Shows
  <2>2. \A c \in Slots : \A kind : ~OnPage(c, kind)'
    BY <2>1, AbandonedCalls DEF OnPage, Of
  <2>3. DraftIsShown' /\ \A n \in Names : drafts'[n] = None /\ values'[n] = None
    BY <2>1 DEF VariablesGo, DraftIsShown
  <2>4. SettingsOpen' /\ ~jumped' => healthDraft' \in {None, selected'}
    <3> SUFFICES ASSUME SettingsOpen', ~jumped', healthDraft' # None
                 PROVE  healthDraft' = selected'
      OBVIOUS
    <3>1. SettingsOpen /\ healthDraft' = healthDraft
      BY DEF Shows, HealthDraftFor
    <3>2. ~jumped /\ selected' = selected
      BY <3>1 DEF SettingsOpen
    <3> QED BY <3>1, <3>2 DEF PageInv, NothingOfAnother
  <2>5. UnmaskedHere' /\ (~switched' => unmasked' \in {None, selected'})
    BY DEF Shows, UnmaskedHere, PageInv, NothingOfAnother
  <2>6. NothingOfAnother'
    BY <2>3, <2>4, <2>5 DEF NothingOfAnother
  <2> QED BY <2>2, <2>3, <2>5, <2>6 DEF RevealsHere, SavesHere, PageInv
<1> QED BY <1>2, <1>3

(* A call that is neither a reveal nor a save may come and go.             *)
LEMMA QuietKeeps ==
  ASSUME Typed, PageInv, UNCHANGED <<page, contents>>,
         busyApp' \in {busyApp, selected},
         \A c \in Slots : \/ calls'[c] = None \/ calls'[c] = calls[c]
                          \/ calls'[c].kind \notin {"reveal", "save"}
  PROVE  PageInv'
<1>1. \A c \in Slots : \A kind \in {"reveal", "save"} :
        OnPage(c, kind)' => OnPage(c, kind) /\ calls'[c] = calls[c]
  BY DEF OnPage, Of
<1>2. RevealsHere'
  BY <1>1 DEF RevealsHere, RevealedHere, VariablesOpen, page, contents, variablesTab,
              PageInv
<1>3. SavesHere'
  BY <1>1 DEF SavesHere, SavedHere, VariablesOpen, Busy, page, contents, variablesTab,
              PageInv
<1>4. UnmaskedHere' /\ NothingOfAnother' /\ DraftIsShown'
  BY DEF UnmaskedHere, NothingOfAnother, DraftIsShown, VariablesOpen, SettingsOpen,
         page, contents, variablesTab, PageInv
<1> QED BY <1>2, <1>3, <1>4 DEF PageInv

(* Whatever is shown belongs to what is selected.                          *)
LEMMA PageStep == Typed /\ Typed' /\ PageInv /\ [Next]_vars => PageInv'
<1> SUFFICES ASSUME Typed, Typed', PageInv, [Next]_vars
             PROVE  PageInv'
  OBVIOUS
<1>1. ASSUME NEW x, NEW t \in Tabs, t = "deployments" \/ t # tab \/ x = None,
             Shows(x, t, calls)
      PROVE  PageInv'
  <2>1. CallsOK(calls) /\ listed' \subseteq Items
    BY DEF Typed, TypeOK
  <2>2. x = None => selected' \notin Apps
    BY <1>1, ItemsAssumption DEF Shows, SettledIn, Items
  <2>3. tab' = t
    BY <1>1 DEF Shows
  <2> QED BY <1>1, <2>1, <2>2, <2>3, ShowsKeeps
<1>2. ASSUME NEW x, NEW cs, CallsOK(cs), Shows(x, tab, cs),
             \A c \in Slots : cs[c] = None \/ cs[c] = calls[c],
             \/ x = None
             \/ x = selected /\ StaysJumped /\ busyApp' = busyApp
             \/ /\ jumped' = (selected' \in Apps /\ (jumped \/ selected' # selected))
                /\ busyApp' = busyApp
      PROVE  PageInv'
  <2>1. tab \in Tabs /\ listed' \subseteq Items /\ jumped \in BOOLEAN
    BY DEF Typed, TypeOK
  <2>2. None \notin Apps
    BY ItemsAssumption DEF Items
  <2>3. x \in {None, selected} /\ selected' \in Apps => x = selected /\ selected' = selected
    BY <1>2, <2>2 DEF Shows, SettledIn
  <2>4. selected' \in Apps /\ tab' = tab /\ tab # "deployments" /\ ~jumped' =>
          ~jumped /\ selected' = selected /\ busyApp' = busyApp
    BY <1>2, <2>1, <2>2, <2>3 DEF StaysJumped
  <2> QED BY <1>2, <2>1, <2>4, ShowsKeeps
<1>3. ASSUME NEW kind \in Kinds \ {"reveal", "save"}, NEW on \in Items,
             NEW path \in HealthPaths \cup {None},
             kind = "health" => path \in HealthPaths
      PROVE  \A c \in Slots :
               \/ Started(kind, on, None, path)[c] = calls[c]
               \/ Started(kind, on, None, path)[c].kind = kind
  <2>1. kind \in Kinds /\ kind # "reveal" /\ None \in Names \cup {None}
    BY <1>3
  <2>2. \A c \in Slots :
          \/ Started(kind, on, None, path)[c] = calls[c]
          \/ Started(kind, on, None, path)[c] = Starts(kind, on, None, path)
    BY <1>3, <2>1, StartedCalls
  <2>3. Starts(kind, on, None, path).kind = kind
    BY DEF Starts
  <2> QED BY <2>2, <2>3
<1>4. ASSUME NEW kind \in Kinds \ {"reveal", "save"}, NEW path \in HealthPaths \cup {None},
             kind = "health" => path \in HealthPaths,
             Sends(kind, path), UNCHANGED contents
      PROVE  PageInv'
  <2>1. selected \in Items /\ calls' = Started(kind, selected, None, path)
    BY <1>4 DEF Sends, Items
  <2> QED BY <1>3, <1>4, <2>1, QuietKeeps DEF Sends
<1>5. ASSUME NEW c \in Slots
      PROVE  /\ CallsOK(Without(c)) /\ Without(c)[c] = None
             /\ \A d \in Slots \ {c} : Without(c)[d] = calls[d]
             /\ \A d \in Slots : Without(c)[d] = None \/ Without(c)[d] = calls[d]
  BY WithoutCalls
<1>6. ASSUME NEW n \in Names
      PROVE  /\ drafts[n] # None => drafts[n] \in Draft
             /\ values[n] # None => values[n] \in Value
  BY DEF Typed, TypeOK
<1>7. CASE Close \/ \E x \in Items \cup Platform : SelectService(x)
  <2>1. FirstTab = "deployments" /\ FirstTab \in Tabs /\ tab \in Tabs
    BY DEF FirstTab, Tabs, Typed, TypeOK
  <2> QED BY <1>1, <1>7, <2>1 DEF Close, SelectService
<1>8. CASE CloseModal \/ \E kind \in {"service", "database"} : OpenModal(kind)
  BY <1>8, QuietKeeps DEF CloseModal, OpenModal
<1>9. CASE Import \/ Change
  BY <1>4, <1>9 DEF Import, Change, Kinds
<1>10. CASE SaveHealthPath
  <2>1. PICK path \in HealthPaths : Sends("health", path) /\ UNCHANGED contents
    BY <1>10 DEF SaveHealthPath
  <2> QED BY <1>4, <2>1 DEF Kinds
<1>11. CASE Remove
  <2>1. tab \in Tabs
    BY DEF Typed, TypeOK
  <2> QED BY <1>1, <1>4, <1>11, <2>1 DEF Remove, Kinds
<1>12. ASSUME NEW t \in Tabs, SelectTab(t)
       PROVE  PageInv'
  <2>0. /\ selected \in Apps /\ listed' \subseteq Items
        /\ jumped' = (jumped /\ selected' = selected /\ tab' = tab)
        /\ busyApp' \in {busyApp, selected}
    <3>1. jumped' = (jumped /\ selected' = selected /\ tab' = tab)
      BY <1>12 DEF SelectTab, StaysJumped
    <3>2. selected \in Apps /\ UNCHANGED loaded /\ busyApp' \in {busyApp, selected}
      BY <1>12 DEF SelectTab, NothingSent
    <3>3. listed \subseteq Items
      BY DEF Typed, TypeOK
    <3> QED BY <3>1, <3>2, <3>3 DEF loaded
  <2>a. ASSUME NEW cs, Shows(selected, t, cs)
        PROVE  selected' \in Apps /\ tab' = tab /\ tab # "deployments" /\ ~jumped' =>
                 ~jumped /\ selected' = selected /\ busyApp' \in {busyApp, selected}
    <3>1. selected' = SettledIn(selected, listed')
      BY <2>a DEF Shows
    <3>2. selected' \in Apps => selected' = selected
      BY <3>1, ItemsAssumption DEF SettledIn, Items
    <3>3. selected' \in Apps /\ tab' = tab /\ ~jumped' => ~jumped
      BY <2>0, <3>2
    <3> QED BY <2>0, <3>2, <3>3
  <2>1. CASE Shows(selected, t, calls)
    <3>1. CallsOK(calls)
      BY DEF CallsOK, Typed, TypeOK
    <3> QED BY <2>0, <2>a, <2>1, <3>1, ShowsKeeps
  <2>2. CASE Shows(selected, t, Started("other", selected, None, None))
    <3>1. selected \in Items /\ listed' \subseteq Items
      BY <2>0 DEF Items
    <3>2. CallsOK(Started("other", selected, None, None))
      BY <3>1, StartedCalls DEF Kinds
    <3>3. \A c \in Slots :
            \/ Started("other", selected, None, None)[c] = calls[c]
            \/ Started("other", selected, None, None)[c].kind = "other"
      BY <1>3, <3>1 DEF Kinds
    <3> QED BY <2>a, <2>2, <3>1, <3>2, <3>3, ShowsKeeps
  <2> QED BY <1>12, <2>1, <2>2 DEF SelectTab
<1>13. ASSUME NEW n \in Names, ToggleValue(n)
       PROVE  PageInv'
  <2> USE DEF PageInv
  <2>1. /\ VariablesOpen /\ VariablesOpen' /\ ~SettingsOpen'
        /\ UNCHANGED <<page, healthDraft, unmasked, jumped, switched, drafts, values, busyApp>>
        /\ reenabled' = reenabled /\ selected \in Items
    BY <1>13 DEF ToggleValue, OnTab, NothingSent, VariablesOpen, SettingsOpen, page, Items
  <2>2. UnmaskedHere' /\ NothingOfAnother'
    BY <2>1 DEF UnmaskedHere, NothingOfAnother, page
  <2>3. CASE UNCHANGED <<revealing, overlapped, calls>>
    BY <2>1, <2>2, <2>3
    DEF RevealsHere, RevealedHere, SavesHere, SavedHere, OnPage, Of, Busy, DraftIsShown, page
  <2>4. CASE /\ values[n] = None
             /\ calls' = Started("reveal", selected, n, None)
             /\ revealing' = n
             /\ overlapped' = (overlapped \/ \E c \in Slots :
                  calls[c] # None /\ calls[c].kind = "reveal" /\ calls[c].here)
    <3>1. \A c \in Slots : calls'[c] = calls[c]
                           \/ calls'[c] = Starts("reveal", selected, n, None)
      BY <2>1, <2>4, StartedCalls DEF Kinds, VariablesOpen
    <3>2. \A c \in Slots : OnPage(c, "save")' => OnPage(c, "save")
      BY <3>1 DEF OnPage, Of, Starts
    <3>3. SavesHere'
      BY <2>1, <3>2 DEF SavesHere, SavedHere, Busy, page
    <3>4. ~overlapped' => ~overlapped /\ \A c \in Slots : ~OnPage(c, "reveal")
      BY <2>4 DEF OnPage, Of
    <3>5. DraftIsShown'
      BY <2>1, <3>4 DEF DraftIsShown
    <3>6. ~overlapped' => drafts[n] = None
      BY <2>4, <3>4 DEF DraftIsShown
    <3>7. \A c \in Slots : OnPage(c, "reveal")' =>
            \/ OnPage(c, "reveal") /\ calls'[c] = calls[c]
            \/ calls'[c].on = selected /\ calls'[c].name = n /\ calls[c] = None
      BY <2>4, <3>1 DEF OnPage, Of, Started, Starts
    <3>8. \A c, d \in Slots : calls'[c] # calls[c] /\ calls'[d] # calls[d] => c = d
      BY <2>4 DEF Started, Slots
    <3>9. RevealsHere'
      <4> SUFFICES ASSUME NEW c \in Slots, OnPage(c, "reveal")'
                   PROVE  RevealedHere(c)'
        BY DEF RevealsHere
      <4>1. ~jumped' => calls'[c].on = selected'
        BY <2>1, <3>7 DEF RevealsHere, RevealedHere, page
      <4>2. ~overlapped' => calls'[c].name = n /\ calls'[c] # calls[c]
        BY <3>4, <3>7 DEF OnPage, Of
      <4>3. ~overlapped' => \A d \in Slots : OnPage(d, "reveal")' => d = c
        <5>1. ~overlapped' => \A d \in Slots : OnPage(d, "reveal")' => calls'[d] # calls[d]
          BY <3>4 DEF OnPage, Of
        <5> QED BY <3>8, <4>2, <5>1
      <4> QED BY <2>1, <2>4, <3>6, <4>1, <4>2, <4>3 DEF RevealedHere
    <3> QED BY <2>2, <3>3, <3>5, <3>9
  <2> QED BY <1>13, <2>3, <2>4 DEF ToggleValue
<1>14. ASSUME NEW n \in Names, UpdateValue(n)
       PROVE  PageInv'
  <2> USE DEF PageInv
  <2>1. /\ VariablesOpen /\ VariablesOpen' /\ ~SettingsOpen' /\ ~Busy /\ revealing # n
        /\ UNCHANGED <<page, healthDraft, unmasked, jumped, switched, revealing,
                       overlapped, reenabled, calls, busyApp>>
        /\ drafts' = [drafts EXCEPT ![n] = [from |-> selected, sent |-> FALSE]]
        /\ values' = [values EXCEPT ![n] = [from |-> selected, typed |-> TRUE]]
    BY <1>14 DEF UpdateValue, Locked, OnTab, NothingSent, VariablesOpen, SettingsOpen, page
  <2>2. /\ \A m \in Names \ {n} : drafts'[m] = drafts[m] /\ values'[m] = values[m]
        /\ drafts'[n].from = selected /\ values'[n].from = selected /\ values'[n].typed
        /\ values'[n] # None
    <3> DEFINE v == [from |-> selected, typed |-> TRUE]
    <3>1. v \in Value /\ v.from = selected /\ v.typed /\ v # None
      <4>1. v \in Value
        BY <2>1 DEF VariablesOpen, Value
      <4>2. v.from = selected
        OBVIOUS
      <4>3. v.typed = TRUE
        OBVIOUS
      <4> QED BY <4>1, <4>2, <4>3, ItemsAssumption
    <3>2. values \in [Names -> Value \cup {None}] /\ drafts \in [Names -> Draft \cup {None}]
      BY DEF Typed, TypeOK
    <3>3. values' = [values EXCEPT ![n] = v]
      BY <2>1
    <3>4. drafts'[n].from = selected /\ \A m \in Names \ {n} : drafts'[m] = drafts[m]
      BY <2>1, <3>2
    <3> HIDE DEF v
    <3>5. values'[n] = v /\ \A m \in Names \ {n} : values'[m] = values[m]
      BY <3>2, <3>3
    <3> QED BY <3>1, <3>4, <3>5
  <2>3. RevealsHere'
    <3> SUFFICES ASSUME NEW c \in Slots, OnPage(c, "reveal")'
                 PROVE  RevealedHere(c)'
      BY DEF RevealsHere
    <3>1. OnPage(c, "reveal") /\ RevealedHere(c)
      BY <2>1 DEF OnPage, Of, RevealsHere
    <3>2. calls[c].name \in Names
      BY <3>1 DEF OnPage, Of, Typed, CallsOK
    <3>3. ~overlapped' => calls'[c].name # n /\ drafts'[calls'[c].name] = None
      BY <2>1, <2>2, <3>1, <3>2 DEF RevealedHere
    <3> QED BY <2>1, <3>1, <3>3 DEF RevealedHere, OnPage, Of, page
  <2>4. SavesHere'
    BY <2>1 DEF SavesHere, SavedHere, OnPage, Of
  <2>5. UnmaskedHere' /\ NothingOfAnother'
    BY <2>1, <2>2 DEF UnmaskedHere, NothingOfAnother, page
  <2>6. DraftIsShown'
    BY <2>1, <2>2 DEF DraftIsShown
  <2> QED BY <2>3, <2>4, <2>5, <2>6
<1>15. CASE SaveChanges
  <2> USE DEF PageInv
  <2>1. /\ VariablesOpen /\ VariablesOpen' /\ ~SettingsOpen'
        /\ UNCHANGED <<page, values, visible, revealing, overlapped, reenabled,
                       healthDraft, unmasked, jumped, switched>>
        /\ Busy' /\ drafts' = SetSent(TRUE)
        /\ calls' = Started("save", selected, None, None) /\ selected \in Items
    BY <1>15 DEF SaveChanges, Sends, VariablesOpen, SettingsOpen, Busy, page, Items
  <2>2. \A n \in Names : /\ drafts'[n] = None <=> drafts[n] = None
                         /\ drafts[n] # None => drafts'[n].from = drafts[n].from
                                                /\ drafts'[n].sent = TRUE
    BY <2>1, SetSentTyped DEF Typed
  <2>3. \A c \in Slots : OnPage(c, "reveal")' => OnPage(c, "reveal") /\ calls'[c] = calls[c]
    <3>1. \A c \in Slots : calls'[c] = calls[c]
                           \/ calls'[c] = Starts("save", selected, None, None)
      BY <2>1, StartedCalls DEF Kinds
    <3> QED BY <3>1 DEF OnPage, Of, Starts
  <2>4. RevealsHere'
    <3>1. \A c \in Slots : OnPage(c, "reveal") => calls[c].name \in Names
      BY DEF OnPage, Of, Typed, CallsOK
    <3> SUFFICES ASSUME NEW c \in Slots, OnPage(c, "reveal")'
                 PROVE  RevealedHere(c)'
      BY DEF RevealsHere
    <3>2. OnPage(c, "reveal") /\ calls'[c] = calls[c] /\ RevealedHere(c)
      BY <2>3 DEF RevealsHere
    <3>3. ~overlapped' => drafts'[calls'[c].name] = None
      BY <2>1, <2>2, <3>1, <3>2 DEF RevealedHere
    <3>4. ~overlapped' => \A d \in Slots : OnPage(d, "reveal")' => d = c
      BY <2>1, <2>3, <3>2 DEF RevealedHere
    <3> QED BY <2>1, <3>2, <3>3, <3>4 DEF RevealedHere, page
  <2>5. SavesHere'
    BY <2>1, <2>2 DEF SavesHere, SavedHere
  <2>6. UnmaskedHere' /\ NothingOfAnother' /\ DraftIsShown'
    BY <2>1, <2>2 DEF UnmaskedHere, NothingOfAnother, DraftIsShown, page
  <2> QED BY <2>4, <2>5, <2>6
<1>16. ASSUME NEW c \in Slots, RevealAnswered(c)
       PROVE  PageInv'
  <2> USE DEF PageInv
  <2>1. /\ UNCHANGED <<page, healthDraft, unmasked, jumped, switched, drafts,
                       overlapped, reenabled, busyApp>>
        /\ VariablesOpen' = VariablesOpen /\ SettingsOpen' = SettingsOpen
        /\ calls' = Without(c) /\ Of(c, "reveal")
    BY <1>16 DEF RevealAnswered, OnTab, NothingSent, VariablesOpen, SettingsOpen, page, Of
  <2>2. \A d \in Slots : \A kind \in {"reveal", "save"} :
          OnPage(d, kind)' => OnPage(d, kind) /\ calls'[d] = calls[d] /\ d # c
    BY <1>5, <2>1 DEF OnPage, Of
  <2>3. SavesHere'
    BY <2>1, <2>2 DEF SavesHere, SavedHere, Busy, page
  <2>4. CASE calls[c].here
    <3> DEFINE n == calls[c].name
    <3>1. OnPage(c, "reveal") /\ RevealedHere(c) /\ n \in Names /\ calls[c].on \in Apps
      BY <2>1, <2>4 DEF OnPage, Of, RevealsHere, Typed, CallsOK
    <3>2. \A m \in Names \ {n} : values'[m] = values[m]
      BY <1>16, <2>4, <3>1 DEF RevealAnswered, Typed, TypeOK
    <3>3. values'[n] = values[n] \/ values'[n] = [from |-> calls[c].on, typed |-> FALSE]
      BY <1>16, <2>4, <3>1 DEF RevealAnswered, Typed, TypeOK
    <3>4. RevealsHere'
      BY <2>1, <2>2, <3>1 DEF RevealsHere, RevealedHere, page
    <3>5. NothingOfAnother'
      BY <2>1, <3>1, <3>2, <3>3 DEF NothingOfAnother, RevealedHere, page
    <3>6. DraftIsShown'
      BY <2>1, <3>1, <3>2 DEF DraftIsShown, RevealedHere
    <3> QED BY <2>1, <2>3, <3>4, <3>5, <3>6 DEF UnmaskedHere, page
  <2>5. CASE ~calls[c].here
    <3>1. UNCHANGED <<revealing, values>>
      BY <1>16, <2>5 DEF RevealAnswered
    <3>2. RevealsHere'
      BY <2>1, <2>2, <3>1 DEF RevealsHere, RevealedHere, page
    <3> QED BY <2>1, <2>3, <3>1, <3>2 DEF UnmaskedHere, NothingOfAnother, DraftIsShown, page
  <2> QED BY <2>4, <2>5
<1>17. CASE TypeHealthPath \/ RevealCredentials
  <2> USE DEF PageInv
  <2>1. /\ UNCHANGED <<page, variablesTab, jumped, switched, calls, busyApp>>
        /\ VariablesOpen' = VariablesOpen /\ SettingsOpen' = SettingsOpen
    BY <1>17
    DEF TypeHealthPath, RevealCredentials, NothingSent, VariablesOpen, SettingsOpen, page
  <2>2. RevealsHere' /\ SavesHere' /\ DraftIsShown'
    BY <2>1 DEF RevealsHere, RevealedHere, SavesHere, SavedHere, OnPage, Of, Busy,
                DraftIsShown, page, variablesTab
  <2>3. UnmaskedHere' /\ NothingOfAnother'
    BY <1>17, <2>1
    DEF TypeHealthPath, RevealCredentials, UnmaskedHere, NothingOfAnother, page, variablesTab
  <2> QED BY <2>2, <2>3
<1>18. CASE RemoveDatabase
  <2>1. selected \in Items
    BY <1>18 DEF RemoveDatabase, Items
  <2>2. \A c \in Slots : calls'[c] = calls[c] \/ calls'[c].kind = "removeDatabase"
    BY <1>3, <1>18, <2>1 DEF RemoveDatabase, Kinds
  <2> QED BY <1>18, <2>2, QuietKeeps DEF RemoveDatabase
<1>19. ASSUME NEW x \in Items, Submit(x)
       PROVE  PageInv'
  <2>1. \A c \in Slots : calls'[c] = calls[c] \/ calls'[c].kind \in {"create", "createDatabase"}
    BY <1>3, <1>19 DEF Submit, Kinds
  <2> QED BY <1>19, <2>1, QuietKeeps DEF Submit
<1>20. ASSUME NEW x \in Items, Vanishes(x)
       PROVE  PageInv'
  <2>1. CallsOK(calls)
    BY DEF Typed
  <2> QED BY <1>2, <1>20, <2>1 DEF Vanishes
<1>21. ASSUME NEW c \in Slots, OtherEnds(c) \/ HealthEnds(c) \/ SaveEnds(c)
       PROVE  PageInv'
  <2> USE DEF PageInv
  <2>1. /\ UNCHANGED <<page, revealing, overlapped, jumped, switched, unmasked>>
        /\ VariablesOpen' = VariablesOpen /\ SettingsOpen' = SettingsOpen
        /\ calls' = Without(c)
        /\ reenabled' = (reenabled \/ \E d \in Slots \ {c} : OnPage(d, "save"))
    BY <1>21
    DEF OtherEnds, HealthEnds, SaveEnds, Releases, VariablesOpen, SettingsOpen, page, OnPage
  <2>2. \A d \in Slots : \A kind \in {"reveal", "save"} :
          OnPage(d, kind)' => OnPage(d, kind) /\ calls'[d] = calls[d] /\ d # c
    BY <1>5, <2>1 DEF OnPage, Of
  <2>3. SavesHere'
    BY <2>1, <2>2 DEF SavesHere, SavedHere
  <2>4. \A n \in Names :
          /\ drafts'[n] # None => drafts[n] # None /\ drafts'[n].from = drafts[n].from
          /\ \/ values'[n] = values[n]
             \/ values'[n] = None /\ drafts'[n] = None
    <3>1. CASE UNCHANGED <<drafts, values>>
      BY <3>1
    <3>2. CASE SaveEnds(c) /\ drafts' = [n \in Names |-> None] /\ values' = [n \in Names |-> None]
      BY <3>2
    <3>3. CASE drafts' = SetSent(\E d \in Slots \ {c} : Of(d, "save") /\ calls[d].here)
               /\ UNCHANGED values
      <4>1. PICK sent \in BOOLEAN :
              sent = (\E d \in Slots \ {c} : Of(d, "save") /\ calls[d].here)
        OBVIOUS
      <4>2. drafts' = SetSent(sent)
        BY <3>3, <4>1
      <4> QED BY <3>3, <4>2, SetSentTyped DEF Typed
    <3> QED BY <1>21, <3>1, <3>2, <3>3 DEF OtherEnds, HealthEnds, SaveEnds
  <2>5. RevealsHere'
    <3>1. \A d \in Slots : OnPage(d, "reveal") => calls[d].name \in Names
      BY DEF OnPage, Of, Typed, CallsOK
    <3> QED BY <2>1, <2>2, <2>4, <3>1 DEF RevealsHere, RevealedHere, page
  <2>6. healthDraft' \in {healthDraft, None}
    BY <1>21 DEF OtherEnds, HealthEnds, SaveEnds
  <2>7. UnmaskedHere' /\ NothingOfAnother' /\ DraftIsShown'
    BY <2>1, <2>4, <2>6 DEF UnmaskedHere, NothingOfAnother, DraftIsShown, page
  <2> QED BY <2>3, <2>5, <2>7
<1>22. ASSUME NEW c \in Slots, RemoveEnds(c) \/ RemoveDatabaseEnds(c) \/ Created(c)
       PROVE  PageInv'
  BY <1>2, <1>5, <1>22 DEF RemoveEnds, RemoveDatabaseEnds, Created
<1>23. ASSUME NEW c \in Slots, DatabaseCreated(c) \/ CreateFails(c)
       PROVE  PageInv'
  BY <1>5, <1>23, QuietKeeps DEF DatabaseCreated, CreateFails
<1>24. CASE UNCHANGED vars
  BY <1>24, QuietKeeps DEF vars
<1> QED
  BY <1>7, <1>8, <1>9, <1>10, <1>11, <1>12, <1>13, <1>14, <1>15, <1>16, <1>17,
     <1>18, <1>19, <1>20, <1>21, <1>22, <1>23, <1>24 DEF Next

(* The contents of the drawers are what PageInv says, in every reachable   *)
(* state: the invariant that the next three theorems need.                 *)
THEOREM PageInvariant == Spec => []PageInv
<1>1. Init => PageInv
  BY ItemsAssumption
  DEF Init, PageInv, RevealsHere, SavesHere, OnPage, Of, UnmaskedHere,
      NothingOfAnother, DraftIsShown, VariablesOpen, SettingsOpen
<1> QED BY <1>1, PageStep, TypedAlways, PTL DEF Spec

(* No text typed for one service is shown, or could be saved, under        *)
(* another, and no value or credential revealed for one is shown under     *)
(* another, for any services, databases, variables and calls.              *)
THEOREM OnlyWhatBelongs == Spec => []NothingOfAnother
<1>1. PageInv => NothingOfAnother
  BY DEF PageInv
<1> QED BY <1>1, PageInvariant, PTL

(* A change that was typed is what is shown of its variable, unless two    *)
(* values are being revealed at a time.                                    *)
THEOREM DraftShown == Spec => []DraftIsShown
<1>1. PageInv => DraftIsShown
  BY DEF PageInv
<1> QED BY <1>1, PageInvariant, PTL

(* While the tab stays open a change leaves it only after it was sent: the *)
(* only step that drops one is the end of a save, and until then nothing   *)
(* can be typed.                                                           *)
THEOREM DraftsSent == Spec => DraftsAreSent
<1>1. Typed /\ PageInv /\ [Next]_vars =>
        [VariablesOpen /\ VariablesOpen' /\ ~reenabled /\ ~jumped =>
           \A n \in Names : drafts[n] # None /\ drafts'[n] = None => drafts[n].sent]_vars
  <2> SUFFICES ASSUME Typed, PageInv, Next,
                      VariablesOpen, VariablesOpen', ~reenabled, ~jumped,
                      NEW n \in Names, drafts[n] # None, drafts'[n] = None
               PROVE  drafts[n].sent
    BY DEF vars, contents, variablesTab
  <2>1. ASSUME NEW x, NEW t, NEW cs, Shows(x, t, cs)
        PROVE  drafts' = drafts
    <3>1. t = "variables" /\ selected' = SettledIn(x, listed') /\ selected' \in Apps
      BY <2>1 DEF Shows, VariablesOpen
    <3> QED BY <2>1, <3>1 DEF Shows, VariablesStay
  <2>2. \A sent \in BOOLEAN : SetSent(sent)[n] # None
    BY SetSentTyped DEF Typed
  <2>3. CASE \E c \in Slots : SaveEnds(c)
    <3>1. PICK c \in Slots : SaveEnds(c)
      BY <2>3
    <3>2. PICK sent \in BOOLEAN :
            sent = (\E d \in Slots \ {c} : Of(d, "save") /\ calls[d].here)
      OBVIOUS
    <3>3. drafts' # SetSent(sent)
      BY <2>2
    <3>4. OnPage(c, "save")
      BY <3>1, <3>2, <3>3 DEF SaveEnds, OnPage
    <3> QED BY <3>4 DEF PageInv, SavesHere, SavedHere
  <2>4. CASE SaveChanges
    BY <2>2, <2>4 DEF SaveChanges
  <2>5. CASE \E m \in Names : UpdateValue(m)
    <3>1. PICK m \in Names : UpdateValue(m)
      BY <2>5
    <3>2. [from |-> selected, sent |-> FALSE] \in Draft
      BY DEF VariablesOpen, Draft
    <3> QED BY <3>1, <3>2, ItemsAssumption DEF UpdateValue, Typed, TypeOK
  <2>6. ASSUME drafts' # drafts, ~SaveChanges,
               \A c \in Slots : ~SaveEnds(c), \A m \in Names : ~UpdateValue(m)
        PROVE  FALSE
    <3>1. \A x : \A t : \A cs : ~Shows(x, t, cs)
      BY <2>1, <2>6
    <3> QED BY <2>6, <3>1
      DEF Next, Close, CloseModal, Import, Change, TypeHealthPath, SaveHealthPath,
          Remove, RevealCredentials, RemoveDatabase, SelectService, Submit, Vanishes,
          OpenModal, SelectTab, ToggleValue, RevealAnswered, OtherEnds, HealthEnds,
          RemoveEnds, RemoveDatabaseEnds, Created, DatabaseCreated, CreateFails,
          contents, variablesTab
  <2> QED BY <2>3, <2>4, <2>5, <2>6
<1> QED BY <1>1, TypedAlways, PageInvariant, PTL DEF Spec, DraftsAreSent
=============================================================================
