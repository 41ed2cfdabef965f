---------------------------- MODULE SignInProofs ----------------------------
(***************************************************************************)
(* What is proved of the limiter holds of it where it is used.             *)
(***************************************************************************)
EXTENDS SignIn, SignUpLimitProofs

(* Every step of a browser, of the server and of everybody else is a step  *)
(* of the limiter or leaves it alone, as they are written: what is proved  *)
(* of the limiter carries over.                                            *)
LEMMA SignInKeepsToTheLimit == Spec => LimitSpec
<1>1. Init => LimitInit
  BY DEF Init
<1>2. [Next]_vars => [LimitNext]_limitVars
  <2> SUFFICES ASSUME [Next]_vars PROVE [LimitNext]_limitVars
    OBVIOUS
  <2>1. CASE UNCHANGED vars
    BY <2>1 DEF vars
  <2>2. CASE SessionAnswered \/ GoStale \/ Forget \/ \E p \in {"login", "manage"} : Load(p)
    BY <2>2 DEF SessionAnswered, GoStale, Forget, Load
  <2>3. CASE \/ \E m \in Modes : SelectMode(m)
             \/ \E right \in BOOLEAN : Submit(right)
             \/ HandleSignIn \/ Welcomed \/ TurnedAway \/ SessionEnds
    BY <2>3 DEF SelectMode, Submit, HandleSignIn, Welcomed, TurnedAway, SessionEnds
  <2>4. CASE HandleSignUp
    BY <2>4, MineAssumption DEF HandleSignUp, LimitNext
  <2>5. CASE OthersGuess
    BY <2>5 DEF OthersGuess, LimitNext
  <2>6. CASE ServerRestarts \/ TimePasses
    BY <2>6 DEF ServerRestarts, TimePasses, LimitNext
  <2> QED BY <2>1, <2>2, <2>3, <2>4, <2>5, <2>6 DEF Next
<1> QED BY <1>1, <1>2, PTL DEF Spec, LimitSpec

(* Where the limiter is used a burst of guesses stays within twice the     *)
(* limit in any window, and nobody is refused without a cause, whatever    *)
(* the browser, other people and restarts do in between (auth.ts).         *)
THEOREM SignInIsLimited == Spec => [](SlidingLimit /\ BlockedForCause)
BY SignInKeepsToTheLimit, GuessesAreLimited, NobodyIsLockedOut, PTL

-----------------------------------------------------------------------------
(* The types: those of the limiter are known from what it implements, and  *)
(* leave those of the browser.                                             *)
ClientTypeOK ==
  /\ page \in {"login", "manage"} /\ mode \in Modes /\ submitting \in BOOLEAN
  /\ request \in Request \cup {None}
  /\ cached \in Known \cup {None} /\ fresh \in BOOLEAN
  /\ reading \in Known \cup {None}
  /\ signedIn \in BOOLEAN /\ account \in BOOLEAN /\ faults \in 0..MaxFaults

LEMMA FaultTyped ==
  ASSUME faults \in 0..MaxFaults, Fault
  PROVE  faults' \in 0..MaxFaults
BY BoundsAssumption DEF Fault

(* What is answered goes to the request that is on the wire.               *)
LEMMA AnswerTyped ==
  ASSUME ClientTypeOK, NEW kind, Unanswered(kind), NEW granted, AnswerIf(granted)
  PROVE  request' \in Request
<1>1. request \in Request
  BY DEF ClientTypeOK, Unanswered
<1>2. PICK a \in {"ok", "refused"} : request' = [request EXCEPT !.answer = a]
  BY Zenon DEF AnswerIf
<1> QED BY <1>1, <1>2 DEF Request

LEMMA LeaveTyped ==
  ASSUME LeaveForm
  PROVE  /\ mode' \in Modes
         /\ submitting' \in BOOLEAN
         /\ request' \in Request \cup {None}
BY DEF LeaveForm, Modes

LEMMA MountTyped ==
  ASSUME ClientTypeOK, NEW signed, Mount(signed)
  PROVE  /\ page' \in {"login", "manage"}
         /\ reading' \in Known \cup {None}
         /\ cached' = cached /\ fresh' = fresh
BY DEF ClientTypeOK, Mount, Answer, Known

LEMMA ClientStep ==
  ASSUME ClientTypeOK, [Next]_vars
  PROVE  ClientTypeOK'
<1> USE FaultTyped DEF ClientTypeOK
<1>1. CASE UNCHANGED vars
  BY <1>1 DEF vars, clientVars, cacheVars
<1>2. CASE SessionAnswered
  <2>1. /\ cached' \in Known \cup {None} /\ fresh' = TRUE /\ reading' = None
        /\ faults' \in 0..MaxFaults /\ signedIn' = signedIn /\ account' = account
    BY <1>2 DEF SessionAnswered, Known
  <2>2. /\ page' \in {"login", "manage"} /\ mode' \in Modes
        /\ submitting' \in BOOLEAN /\ request' \in Request \cup {None}
    BY <1>2, LeaveTyped DEF SessionAnswered, clientVars
  <2> QED BY <2>1, <2>2
<1>3. CASE GoStale \/ Forget
  BY <1>3 DEF GoStale, Forget, clientVars
<1>4. ASSUME NEW p \in {"login", "manage"}, Load(p)
      PROVE  ClientTypeOK'
  <2>1. reading' \in Known \cup {None}
    BY <1>4 DEF Load, Answer, Known
  <2> QED BY <1>4, <2>1, LeaveTyped DEF Load
<1>5. ASSUME NEW m \in Modes, SelectMode(m)
      PROVE  ClientTypeOK'
  BY <1>5 DEF SelectMode, cacheVars
<1>6. ASSUME NEW right \in BOOLEAN, Submit(right)
      PROVE  ClientTypeOK'
  <2>1. request' \in Request
    BY <1>6 DEF Submit, Request
  <2>2. faults' \in 0..MaxFaults
    BY <1>6 DEF Submit
  <2> QED BY <1>6, <2>1, <2>2 DEF Submit, cacheVars
<1>7. CASE HandleSignIn
  <2>1. request' \in Request
    BY <1>7, AnswerTyped DEF HandleSignIn
  <2> QED BY <1>7, <2>1 DEF HandleSignIn, cacheVars
<1>8. CASE HandleSignUp
  <2>1. request' \in Request
    BY <1>8, AnswerTyped DEF HandleSignUp
  <2>2. account' \in BOOLEAN
    BY <1>8 DEF HandleSignUp
  <2> QED BY <1>8, <2>1, <2>2 DEF HandleSignUp, cacheVars
<1>9. CASE Welcomed
  BY <1>9, LeaveTyped, MountTyped DEF Welcomed
<1>10. CASE TurnedAway
  <2>1. faults' \in 0..MaxFaults
    BY <1>10 DEF TurnedAway
  <2> QED BY <1>10, <2>1 DEF TurnedAway, SubmittingAfterError, cacheVars
<1>11. CASE OthersGuess \/ TimePasses
  BY <1>11 DEF OthersGuess, TimePasses, clientVars, cacheVars
<1>12. CASE ServerRestarts \/ SessionEnds
  BY <1>12 DEF ServerRestarts, SessionEnds, clientVars, cacheVars
<1> QED
  BY <1>1, <1>2, <1>3, <1>4, <1>5, <1>6, <1>7, <1>8, <1>9, <1>10, <1>11, <1>12
  DEF Next

(* Every reachable state of the sign-in is well typed: what is answered is *)
(* a request that is on the wire, and what the session query puts into the *)
(* cache says that there is a user or that there is none (login.tsx).      *)
THEOREM TypeCorrect == Spec => []TypeOK
<1>1. Init => ClientTypeOK
  <2> SUFFICES ASSUME Init
               PROVE  ClientTypeOK
    OBVIOUS
  <2>1. /\ page \in {"login", "manage"} /\ mode \in Modes
        /\ reading \in Known \cup {None} /\ faults \in 0..MaxFaults
    BY BoundsAssumption DEF Init, Modes, Known
  <2>2. /\ request \in Request \cup {None} /\ cached \in Known \cup {None}
        /\ submitting \in BOOLEAN /\ fresh \in BOOLEAN
        /\ signedIn \in BOOLEAN /\ account \in BOOLEAN
    BY Zenon DEF Init
  <2> QED BY <2>1, <2>2 DEF ClientTypeOK
<1>2. LimitInv /\ ClientTypeOK => TypeOK
  BY DEF LimitInv, ClientTypeOK, TypeOK
<1> QED
  BY <1>1, <1>2, ClientStep, SignInKeepsToTheLimit, LimitAlways, PTL DEF Spec
=============================================================================
