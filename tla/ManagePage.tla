----------------------------- MODULE ManagePage -----------------------------
(***************************************************************************)
(* The manage page: which drawer, tab and modal is open, what has been     *)
(* typed or revealed in it, and the calls that come back to it.            *)
(*                                                                         *)
(* The contents of a tab live as long as React keeps the tab mounted.  A   *)
(* drawer has no key, so that it stays mounted when another service (or    *)
(* another database) takes its place.  A call that comes back to a tab     *)
(* that is gone changes nothing of it.                                     *)
(***************************************************************************)
EXTENDS Integers, FiniteSets

CONSTANTS Apps, Databases, Platform,  \* what the canvas shows
          Names,                      \* of variables; services share them
          HealthPaths,
          MaxCalls,   \* bound on calls at once
          MaxStarts,  \* bound on calls in all
          None

Items == Apps \cup Databases
Slots == 1..MaxCalls  \* interchangeable: a call takes the first one free
Tabs == {"deployments", "variables", "settings"}

Kinds == {"reveal", "save", "health", "remove", "removeDatabase", "other",
          "create", "createDatabase"}
Call == [kind : Kinds, on : Items,
         name : Names \cup {None},  \* the variable to reveal
         path : HealthPaths \cup {None},
         here : BOOLEAN]            \* the tab that sent it is still there
Draft == [from : Apps,     \* the service it was typed for; the code does not know
          sent : BOOLEAN]  \* part of a save under way
Value == [from : Apps, typed : BOOLEAN]

ASSUME ItemsAssumption == /\ Apps \cap Databases = {} /\ Items \cap Platform = {}
                          /\ None \notin Items \cup Platform \cup Names \cup HealthPaths
                          /\ None \notin Draft \cup Value \cup Call
ASSUME CallsAssumption == MaxCalls \in Nat /\ MaxStarts \in Nat

VARIABLES listed, healthPath,  \* what the controller has loaded
          busyApp, busyDatabase, saving,
          selected, tab, creating,           \* the page
          drafts, values, visible, revealing,  \* the variables tab
          healthDraft,   \* the service its text was typed for, or None
          unmasked,      \* the database its credentials were revealed for, or None
          calls, started,
          jumped,      \* a creation put another service in the place of the one shown; ghost
          switched,    \* another database was put in the place of the one shown; ghost
          overlapped,  \* two values were being revealed at a time; ghost
          reenabled    \* something else ended while a save was under way; ghost

loaded == <<listed, healthPath, busyDatabase>>
page == <<selected, tab>>
variablesTab == <<drafts, values, visible, revealing, overlapped, reenabled>>
contents == <<variablesTab, healthDraft, unmasked, jumped, switched>>
vars == <<loaded, busyApp, saving, page, creating, contents, calls, started>>

(* What is selected is listed: the effect of the page sees to that.        *)
TypeOK ==
  /\ listed \subseteq Items /\ healthPath \in [Apps -> HealthPaths]
  /\ busyApp \in Apps \cup {None} /\ busyDatabase \in Databases \cup {None}
  /\ saving \in BOOLEAN
  /\ selected \in {None} \cup listed \cup Platform /\ tab \in Tabs
  /\ creating \in {"none", "service", "database"}
  /\ drafts \in [Names -> Draft \cup {None}] /\ values \in [Names -> Value \cup {None}]
  /\ visible \subseteq Names /\ revealing \in Names \cup {None}
  /\ healthDraft \in Apps \cup {None} /\ unmasked \in Databases \cup {None}
  /\ calls \in [Slots -> Call \cup {None}] /\ started \in 0..MaxStarts
  /\ jumped \in BOOLEAN /\ switched \in BOOLEAN
  /\ overlapped \in BOOLEAN /\ reenabled \in BOOLEAN

Init ==
  /\ listed \in SUBSET Items /\ healthPath \in [Apps -> HealthPaths]
  /\ busyApp = None /\ busyDatabase = None /\ saving = FALSE
  /\ selected = None /\ tab = "deployments" /\ creating = "none"
  /\ drafts = [n \in Names |-> None] /\ values = [n \in Names |-> None]
  /\ visible = {} /\ revealing = None /\ healthDraft = None /\ unmasked = None
  /\ calls = [c \in Slots |-> None] /\ started = 0
  /\ jumped = FALSE /\ switched = FALSE /\ overlapped = FALSE /\ reenabled = FALSE

VariablesOpen == selected \in Apps /\ tab = "variables"
SettingsOpen == selected \in Apps /\ tab = "settings"
(* A modal covers the page.                                                *)
Uncovered == creating = "none"
Busy == busyApp = selected

-----------------------------------------------------------------------------
(* What stays and what goes when the page shows x, under tab t.            *)

(* Mutant: without the effect, what is gone stays selected.                *)
UnsettledIn(x, items) == x
(* The effect of the page.                                                 *)
SettledIn(x, items) == IF x \in items \cup Platform THEN x ELSE None

VariablesStay ==
  UNCHANGED <<drafts, values, visible, revealing, overlapped, reenabled>>
VariablesGo ==
  /\ drafts' = [n \in Names |-> None] /\ values' = [n \in Names |-> None]
  /\ visible' = {} /\ revealing' = None
  /\ overlapped' = FALSE /\ reenabled' = FALSE
Abandoned(cs) ==
  [c \in Slots |-> IF cs[c] = None THEN None ELSE [cs[c] EXCEPT !.here = FALSE]]

(* The text of the health route is replaced when the path it is initialised*)
(* with is another one.                                                    *)
HealthDraftFor(x) ==
  IF SettingsOpen /\ tab' = "settings" /\ x \in Apps
       /\ selected \in Apps /\ healthPath'[x] = healthPath[selected]
  THEN healthDraft ELSE None

(* cs are the calls as the action leaves them.                             *)
Shows(x, t, cs) ==
  LET y == SettledIn(x, listed') IN
  /\ selected' = y /\ tab' = t
  /\ IF VariablesOpen /\ t = "variables" /\ y \in Apps
     THEN VariablesStay /\ calls' = cs
     ELSE VariablesGo /\ calls' = Abandoned(cs)
  /\ healthDraft' = HealthDraftFor(y)
  /\ unmasked' = IF y \in Databases THEN unmasked ELSE None
  /\ switched' = (y \in Databases /\ selected \in Databases
                  /\ (switched \/ y # selected))

KeepsOff == jumped' = FALSE
StaysJumped == jumped' = (jumped /\ selected' = selected /\ tab' = tab)

-----------------------------------------------------------------------------
(* The user, on the page.                                                  *)

NothingSent == UNCHANGED <<loaded, busyApp, saving, creating, started>>

(* Mutant: the tab is left as it was.                                      *)
SameTab == tab
FirstTab == "deployments"

SelectService(x) ==
  /\ Uncovered /\ x \in listed \cup Platform
  /\ NothingSent
  /\ Shows(x, FirstTab, calls) /\ KeepsOff

Close ==
  /\ Uncovered /\ selected # None
  /\ NothingSent
  /\ Shows(None, tab, calls) /\ KeepsOff

OpenModal(kind) ==
  /\ Uncovered /\ creating' = kind
  /\ UNCHANGED <<loaded, busyApp, saving, page, contents, calls, started>>

CloseModal ==
  /\ ~Uncovered /\ creating' = "none"
  /\ UNCHANGED <<loaded, busyApp, saving, page, contents, calls, started>>

(* Calls.                                                                  *)
Started(kind, on, name, path) ==
  LET free == {c \in Slots : calls[c] = None} IN
  [c \in Slots |-> IF c \in free /\ \A d \in free : c <= d
                   THEN [kind |-> kind, on |-> on, name |-> name, path |-> path,
                         here |-> TRUE]
                   ELSE calls[c]]
MayStart ==
  /\ started < MaxStarts /\ started' = started + 1
  /\ \E c \in Slots : calls[c] = None

(* The list of variables is loaded when it is not there yet, by the tab    *)
(* that is open too: a drawer that changed hands has not loaded it.        *)
SelectTab(t) ==
  /\ Uncovered /\ selected \in Apps /\ (tab # t \/ t = "variables")
  /\ \/ NothingSent /\ Shows(selected, t, calls)
     \/ /\ t = "variables" /\ MayStart
        /\ busyApp' = selected
        /\ UNCHANGED <<loaded, saving, creating>>
        /\ Shows(selected, t, Started("other", selected, None, None))
  /\ StaysJumped

(* What a control of the drawer sends: all but the file input are disabled *)
(* while the service is busy.                                              *)
Sends(kind, path) ==
  /\ Uncovered /\ selected \in Apps /\ MayStart
  /\ calls' = Started(kind, selected, None, path)
  /\ busyApp' = selected
  /\ UNCHANGED <<loaded, saving, page, creating>>

Import ==
  /\ VariablesOpen /\ Sends("other", None)
  /\ UNCHANGED contents

(* Redeploy, add a variable, remove one, import pasted ones.               *)
Change ==
  /\ tab \in {"deployments", "variables"} /\ ~Busy
  /\ Sends("other", None)
  /\ UNCHANGED contents

-----------------------------------------------------------------------------
(* The variables tab.                                                      *)

OnTab == UNCHANGED <<page, healthDraft, unmasked, jumped, switched>>

(* Mutants: an input that one of its two conditions does not disable.      *)
LockedByBusy(n) == Busy
LockedByReveal(n) == revealing = n
Locked(n) == Busy \/ revealing = n

ToggleValue(n) ==
  /\ Uncovered /\ VariablesOpen /\ ~Locked(n)
  /\ \/ /\ n \in visible \/ values[n] # None
        /\ visible' = IF n \in visible THEN visible \ {n} ELSE visible \cup {n}
        /\ UNCHANGED <<drafts, values, revealing, overlapped, reenabled, calls>>
        /\ NothingSent
     \/ /\ n \notin visible /\ values[n] = None
        /\ MayStart
        /\ calls' = Started("reveal", selected, n, None)
        /\ revealing' = n
        /\ overlapped' = (overlapped \/ \E c \in Slots :
             calls[c] # None /\ calls[c].kind = "reveal" /\ calls[c].here)
        /\ UNCHANGED <<drafts, values, visible, reenabled, loaded, busyApp, saving, creating>>
  /\ OnTab

UpdateValue(n) ==
  /\ Uncovered /\ VariablesOpen /\ ~Locked(n)
  /\ drafts' = [drafts EXCEPT ![n] = [from |-> selected, sent |-> FALSE]]
  /\ values' = [values EXCEPT ![n] = [from |-> selected, typed |-> TRUE]]
  /\ UNCHANGED <<visible, revealing, overlapped, reenabled, calls>>
  /\ OnTab /\ NothingSent

SetSent(sent) ==
  [n \in Names |-> IF drafts[n] = None THEN None ELSE [drafts[n] EXCEPT !.sent = sent]]

SaveChanges ==
  /\ VariablesOpen /\ ~Busy /\ \E n \in Names : drafts[n] # None
  /\ Sends("save", None)
  /\ drafts' = SetSent(TRUE)
  /\ UNCHANGED <<values, visible, revealing, overlapped, reenabled>>
  /\ UNCHANGED <<healthDraft, unmasked, jumped, switched>>

Without(c) == [calls EXCEPT ![c] = None]

RevealAnswered(c) ==
  /\ calls[c] # None /\ calls[c].kind = "reveal"
  /\ calls' = Without(c)
  /\ IF calls[c].here
     THEN LET n == calls[c].name IN
          /\ revealing' = None
          /\ \/ /\ values' = [values EXCEPT ![n] = [from |-> calls[c].on, typed |-> FALSE]]
                /\ visible' = visible \cup {n}
             \/ UNCHANGED <<values, visible>>
     ELSE UNCHANGED <<revealing, values, visible>>
  /\ UNCHANGED <<drafts, overlapped, reenabled>> /\ OnTab /\ NothingSent

-----------------------------------------------------------------------------
(* The settings tab, and the drawer of a database.                         *)

TypeHealthPath ==
  /\ Uncovered /\ SettingsOpen
  /\ healthDraft' = selected
  /\ UNCHANGED <<page, variablesTab, unmasked, jumped, switched, calls>> /\ NothingSent

SaveHealthPath ==
  /\ SettingsOpen /\ healthDraft # None /\ ~Busy
  /\ \E path \in HealthPaths \ {healthPath[selected]} : Sends("health", path)
  /\ UNCHANGED contents

(* The dialog may be declined; the drawer closes all the same.             *)
Remove ==
  /\ SettingsOpen /\ ~Busy
  /\ \/ Sends("remove", None) /\ UNCHANGED contents
     \/ Uncovered /\ NothingSent /\ Shows(None, tab, calls) /\ KeepsOff

RevealCredentials ==
  /\ Uncovered /\ selected \in Databases
  /\ \/ unmasked = None /\ unmasked' = selected
     \/ unmasked # None /\ unmasked' = None
  /\ UNCHANGED <<page, variablesTab, healthDraft, jumped, switched, calls>> /\ NothingSent

RemoveDatabase ==
  /\ Uncovered /\ selected \in Databases /\ busyDatabase # selected /\ MayStart
  /\ calls' = Started("removeDatabase", selected, None, None)
  /\ busyDatabase' = selected
  /\ UNCHANGED <<listed, healthPath, busyApp, saving, creating, page, contents>>

-----------------------------------------------------------------------------
(* Calls that end.                                                         *)

Of(c, kind) == calls[c] # None /\ calls[c].kind = kind

(* Something other than a save that is under way enables the controls.     *)
Releases(c) ==
  /\ busyApp' = None
  /\ reenabled' = (reenabled \/ \E d \in Slots \ {c} : Of(d, "save") /\ calls[d].here)

OtherEnds(c) ==
  /\ Of(c, "other") /\ calls' = Without(c) /\ Releases(c)
  /\ UNCHANGED <<loaded, saving, page, creating, drafts, values, visible, revealing>>
  /\ UNCHANGED <<overlapped, healthDraft, unmasked, jumped, switched, started>>

SaveEnds(c) ==
  /\ Of(c, "save") /\ calls' = Without(c) /\ Releases(c)
  /\ \/ calls[c].here /\ drafts' = [n \in Names |-> None]
        /\ values' = [n \in Names |-> None] /\ visible' = {}
     \/ drafts' = SetSent(\E d \in Slots \ {c} : Of(d, "save") /\ calls[d].here)
        /\ UNCHANGED <<values, visible>>
     \/ ~calls[c].here /\ UNCHANGED <<drafts, values, visible>>
  /\ UNCHANGED <<loaded, saving, page, creating, revealing, overlapped>>
  /\ UNCHANGED <<healthDraft, unmasked, jumped, switched, started>>

(* The text that is there, even one typed since, gives way to the new path.*)
HealthEnds(c) ==
  /\ Of(c, "health") /\ calls' = Without(c) /\ Releases(c)
  /\ \/ /\ healthPath' = [healthPath EXCEPT ![calls[c].on] = calls[c].path]
        /\ healthDraft' = IF selected = calls[c].on /\ healthPath' # healthPath
                          THEN None ELSE healthDraft
     \/ UNCHANGED <<healthPath, healthDraft>>
  /\ UNCHANGED <<listed, busyDatabase, saving, page, creating, drafts, values, visible, revealing>>
  /\ UNCHANGED <<overlapped, unmasked, jumped, switched, started>>

(* Whichever drawer is open closes.                                        *)
RemoveEnds(c) ==
  /\ Of(c, "remove") /\ busyApp' = None
  /\ listed' \in {listed, listed \ {calls[c].on}}
  /\ UNCHANGED <<healthPath, busyDatabase>>
  /\ Shows(None, tab, Without(c)) /\ KeepsOff
  /\ UNCHANGED <<saving, creating, started>>

RemoveDatabaseEnds(c) ==
  /\ Of(c, "removeDatabase")
  /\ busyDatabase' = None
  /\ listed' \in {listed, listed \ {calls[c].on}}
  /\ UNCHANGED healthPath
  /\ Shows(selected, tab, Without(c)) /\ StaysJumped
  /\ UNCHANGED <<busyApp, saving, creating, started>>

-----------------------------------------------------------------------------
(* The modals.  One field disables both forms while a creation is under    *)
(* way; closing a modal does not end it.                                   *)

Submit(x) ==
  /\ ~saving /\ MayStart
  /\ \/ creating = "service" /\ x \in Apps
        /\ calls' = Started("create", x, None, None)
     \/ creating = "database" /\ x \in Databases
        /\ calls' = Started("createDatabase", x, None, None)
  /\ saving' = TRUE
  /\ UNCHANGED <<loaded, busyApp, page, creating, contents>>

(* The new service is opened, under the tab that is open.  It may not be   *)
(* listed, when the list could not be fetched.                             *)
Created(c) ==
  /\ Of(c, "create") /\ saving' = FALSE
  /\ listed' \in {listed, listed \cup {calls[c].on}}
  /\ creating' = "none"
  /\ UNCHANGED <<healthPath, busyDatabase>>
  /\ Shows(calls[c].on, tab, Without(c))
  /\ jumped' = (selected' \in Apps /\ (jumped \/ selected' # selected))
  /\ UNCHANGED <<busyApp, started>>

DatabaseCreated(c) ==
  /\ Of(c, "createDatabase") /\ saving' = FALSE
  /\ listed' = listed \cup {calls[c].on}
  /\ creating' = "none" /\ calls' = Without(c)
  /\ UNCHANGED <<healthPath, busyDatabase, busyApp, page, contents, started>>

CreateFails(c) ==
  /\ Of(c, "create") \/ Of(c, "createDatabase")
  /\ saving' = FALSE /\ calls' = Without(c)
  /\ UNCHANGED <<loaded, busyApp, page, creating, contents, started>>

(* The list is fetched again at any time, and others remove things too.    *)
Vanishes(x) ==
  /\ x \in listed /\ listed' = listed \ {x}
  /\ UNCHANGED <<healthPath, busyDatabase>>
  /\ Shows(selected, tab, calls) /\ StaysJumped
  /\ UNCHANGED <<busyApp, saving, creating, started>>

Next ==
  \/ Close \/ CloseModal \/ Import \/ Change \/ SaveChanges
  \/ TypeHealthPath \/ SaveHealthPath \/ Remove
  \/ RevealCredentials \/ RemoveDatabase
  \/ \E x \in Items \cup Platform : SelectService(x)
  \/ \E x \in Items : Submit(x) \/ Vanishes(x)
  \/ \E kind \in {"service", "database"} : OpenModal(kind)
  \/ \E t \in Tabs : SelectTab(t)
  \/ \E n \in Names : ToggleValue(n) \/ UpdateValue(n)
  \/ \E c \in Slots :
       \/ RevealAnswered(c) \/ OtherEnds(c) \/ SaveEnds(c) \/ HealthEnds(c)
       \/ RemoveEnds(c) \/ RemoveDatabaseEnds(c)
       \/ Created(c) \/ DatabaseCreated(c) \/ CreateFails(c)

Spec == Init /\ [][Next]_vars

-----------------------------------------------------------------------------
(* No text typed for one service is shown, or could be saved, under        *)
(* another; no value or credential revealed for one is shown under         *)
(* another: whatever comes back late, and however the user moves about,    *)
(* but for the two ways in which a drawer changes hands (selectService,    *)
(* onCreated, ServiceDrawer, DatabaseDrawer).                              *)
NothingOfAnother ==
  /\ VariablesOpen /\ ~jumped =>
       \A n \in Names : /\ drafts[n] # None => drafts[n].from = selected
                        /\ values[n] # None => values[n].from = selected
  /\ SettingsOpen /\ ~jumped => healthDraft \in {None, selected}
  /\ ~switched => unmasked \in {None, selected}

(* What is shown of a variable with an unsaved change is the change, and   *)
(* not the stored value that a reveal brought back over it, unless two are *)
(* revealed at a time (toggleValue, updateValue).                          *)
DraftIsShown ==
  ~overlapped => \A n \in Names :
                   drafts[n] # None => values[n] # None /\ values[n].typed

(* While the tab stays open a change is dropped only after it was sent,    *)
(* unless something else that ended made the service editable during the   *)
(* save, or a creation changed the service (saveChanges).                  *)
DraftsAreSent ==
  [][VariablesOpen /\ VariablesOpen' /\ ~reenabled /\ ~jumped =>
       \A n \in Names : drafts[n] # None /\ drafts'[n] = None => drafts[n].sent]_vars
=============================================================================
