------------------------------- MODULE SignIn -------------------------------
(***************************************************************************)
(* One person at one browser who wants to see the console: the login page, *)
(* the cached answer to "who am I?", the redirect that depends on it, and  *)
(* the sign-up limit of the server, which other people use up as well.     *)
(***************************************************************************)
EXTENDS SignUpLimit

CONSTANTS Mine,       \* the address this browser is counted under
          QuietFrom,  \* nobody else guesses from this time on
          MaxFaults   \* bound on mistakes, failures and reloads

Modes == {"login", "signup"}
Known == {"in", "out"}
Request == [kind : Modes, right : BOOLEAN, answer : {"ok", "refused", None}]

ASSUME MineAssumption == Mine \in Addresses
ASSUME NoRequestAssumption == None \notin Request
(* Time goes on until a block has ended, and one person's mistakes alone   *)
(* are no cause for one.                                                   *)
ASSUME BoundsAssumption == /\ QuietFrom + Window <= MaxTime
                           /\ MaxFaults \in Nat
                           /\ MaxFaults < MaxFailures

VARIABLES page,        \* the route shown
          mode,        \* of the form of the login page
          submitting,  \* its button is disabled
          request,     \* the sign-in or sign-up on the wire
          cached,      \* the query cache's data of the session query
          fresh,       \* it is younger than staleTime
          reading,     \* what the get-session under way will answer
          signedIn,    \* the browser's cookie names a session
          account,     \* the person has an account
          faults

clientVars == <<page, mode, submitting, request>>
cacheVars == <<cached, fresh, reading>>
vars == <<limitVars, clientVars, cacheVars, signedIn, account, faults>>

TypeOK ==
  /\ LimitTypeOK
  /\ page \in {"login", "manage"} /\ mode \in Modes /\ submitting \in BOOLEAN
  /\ request \in Request \cup {None}
  /\ cached \in Known \cup {None} /\ fresh \in BOOLEAN
  /\ reading \in Known \cup {None}
  /\ signedIn \in BOOLEAN /\ account \in BOOLEAN /\ faults \in 0..MaxFaults

Fault == faults < MaxFaults /\ faults' = faults + 1
(* Mutant: the data of the session as it comes, null without one.          *)
AnswerRaw(signed) == IF signed THEN "in" ELSE "null"
Answer(signed) == IF signed THEN "in" ELSE "out"

Init ==
  /\ LimitInit
  /\ page = "manage" /\ mode = "login" /\ submitting = FALSE /\ request = None
  /\ cached = None /\ fresh = FALSE /\ reading = "out"
  /\ signedIn = FALSE /\ account \in BOOLEAN /\ faults = 0

-----------------------------------------------------------------------------
(* The session query.                                                      *)

(* The console is mounted, with cookie `signed': the cache is read again   *)
(* unless it is fresh or being read, and cached data counts meanwhile.     *)
Mount(signed) ==
  /\ page' = IF cached = "out" THEN "login" ELSE "manage"
  /\ reading' = IF reading = None /\ (cached = None \/ ~fresh)
                THEN Answer(signed) ELSE reading
  /\ UNCHANGED <<cached, fresh>>

LeaveForm == mode' = "login" /\ submitting' = FALSE /\ request' = None

(* Whatever is not an answer with a user in it says: not signed in.        *)
SessionAnswered ==
  /\ reading # None
  /\ \/ cached' = reading /\ UNCHANGED faults
     \/ cached' = "out" /\ Fault
  /\ fresh' = TRUE /\ reading' = None
  /\ \/ /\ page = "manage" /\ cached' = "out"
        /\ page' = "login" /\ LeaveForm
     \/ /\ ~(page = "manage" /\ cached' = "out")
        /\ UNCHANGED clientVars
  /\ UNCHANGED <<limitVars, signedIn, account>>

GoStale ==
  /\ fresh
  /\ fresh' = FALSE
  /\ UNCHANGED <<limitVars, clientVars, cached, reading, signedIn, account, faults>>

(* A query nobody looks at is dropped in the end.                          *)
Forget ==
  /\ page = "login" /\ cached # None /\ reading = None /\ ~fresh
  /\ cached' = None
  /\ UNCHANGED <<limitVars, clientVars, fresh, reading, signedIn, account, faults>>

(* The browser loads a page anew: all memory of the old one is gone.       *)
Load(p) ==
  /\ Fault
  /\ page' = p /\ LeaveForm
  /\ cached' = None /\ fresh' = FALSE
  /\ reading' = IF p = "manage" THEN Answer(signedIn) ELSE None
  /\ UNCHANGED <<limitVars, signedIn, account>>

-----------------------------------------------------------------------------
(* The login page.                                                         *)

SelectMode(m) ==
  /\ page = "login" /\ mode # m
  /\ mode' = m
  /\ UNCHANGED <<limitVars, page, submitting, request, cacheVars, signedIn, account, faults>>

Submit(right) ==
  /\ page = "login" /\ ~submitting
  /\ submitting' = TRUE
  /\ request' = [kind |-> mode, right |-> right, answer |-> None]
  /\ IF right THEN UNCHANGED faults ELSE Fault
  /\ UNCHANGED <<limitVars, page, mode, cacheVars, signedIn, account>>

Unanswered(kind) == request # None /\ request.kind = kind /\ request.answer = None
AnswerIf(granted) ==
  request' = [request EXCEPT !.answer = IF granted THEN "ok" ELSE "refused"]

HandleSignIn ==
  /\ Unanswered("login")
  /\ AnswerIf(request.right /\ account)
  /\ UNCHANGED <<limitVars, page, mode, submitting, cacheVars, signedIn, account, faults>>

(* The plugin's hook runs before the account is looked for.                *)
HandleSignUp ==
  /\ Unanswered("signup")
  /\ \/ Blocked(Mine) /\ AnswerIf(FALSE) /\ UNCHANGED <<limitVars, account>>
     \/ ~request.right /\ WrongPassword(Mine) /\ AnswerIf(FALSE) /\ UNCHANGED account
     \/ request.right /\ RightPassword(Mine) /\ AnswerIf(~account) /\ account' = TRUE
  /\ UNCHANGED <<page, mode, submitting, cacheVars, signedIn, faults>>

(* An answer with a session: on to the console, which may send one back.   *)
Welcomed ==
  /\ request # None /\ request.answer = "ok"
  /\ signedIn' = TRUE
  /\ Mount(TRUE) /\ LeaveForm
  /\ UNCHANGED <<limitVars, account, faults>>

(* Mutant: the button is enabled again after a success only.               *)
SubmittingForGood == TRUE
SubmittingAfterError == FALSE

(* A refusal, or no answer at all: the form shows an error.                *)
TurnedAway ==
  /\ request # None
  /\ IF request.answer = "refused" THEN UNCHANGED faults ELSE Fault
  /\ request' = None /\ submitting' = SubmittingAfterError
  /\ UNCHANGED <<limitVars, page, mode, cacheVars, signedIn, account>>

-----------------------------------------------------------------------------
(* Everybody else, and time.                                               *)

OthersGuess ==
  /\ now < QuietFrom
  /\ \E a \in Addresses : WrongPassword(a) \/ RightPassword(a)
  /\ UNCHANGED <<clientVars, cacheVars, signedIn, account, faults>>

ServerRestarts ==
  /\ Restart /\ Fault
  /\ UNCHANGED <<clientVars, cacheVars, signedIn, account>>

SessionEnds ==
  /\ signedIn /\ Fault
  /\ signedIn' = FALSE
  /\ UNCHANGED <<limitVars, clientVars, cacheVars, account>>

TimePasses ==
  /\ Tick
  /\ UNCHANGED <<clientVars, cacheVars, signedIn, account, faults>>

Next ==
  \/ SessionAnswered \/ GoStale \/ Forget
  \/ \E p \in {"login", "manage"} : Load(p)
  \/ \E m \in Modes : SelectMode(m)
  \/ \E right \in BOOLEAN : Submit(right)
  \/ HandleSignIn \/ HandleSignUp \/ Welcomed \/ TurnedAway
  \/ OthersGuess \/ ServerRestarts \/ SessionEnds \/ TimePasses

(* Requests are answered, answers grow stale, time passes; and the person  *)
(* fills in either form correctly again and again, as long as it is shown. *)
Fairness ==
  /\ WF_vars(SessionAnswered) /\ WF_vars(GoStale) /\ WF_vars(TimePasses)
  /\ WF_vars(HandleSignIn) /\ WF_vars(HandleSignUp)
  /\ WF_vars(Welcomed) /\ WF_vars(TurnedAway)
  /\ \A m \in Modes : /\ SF_vars(SelectMode(m) /\ ~submitting)
                       /\ SF_vars(Submit(TRUE) /\ mode = m)

Spec == Init /\ [][Next]_vars /\ Fairness

-----------------------------------------------------------------------------
(* Whoever keeps filling in the forms correctly gets to see the console in *)
(* the end: neither the cached answer from before signing in, which sends  *)
(* them back to the login page, nor the guesses of others, nor an answer   *)
(* that was lost shuts them out for good (login.tsx, useManageController). *)
KeepTryingGetsIn == <>(page = "manage" /\ cached = "in")

=============================================================================
