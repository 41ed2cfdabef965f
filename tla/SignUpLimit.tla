---------------------------- MODULE SignUpLimit ----------------------------
(***************************************************************************)
(* How often one may guess the password that a sign-up needs.  Each server *)
(* process of the console keeps a Map from the address a request is        *)
(* counted under to the number of wrong guesses in the current window.     *)
(* From the check to the count a request runs without an await, so a guess *)
(* is one step.                                                            *)
(***************************************************************************)
EXTENDS Integers, Sequences

CONSTANTS Addresses,    \* what clientIp returns: "unknown" alone, without TRUST_PROXY
          MaxFailures,  \* maxFailedSignupPasswords
          Window,       \* signupPasswordWindowMs
          MaxTime,      \* bound on the clock
          None

ASSUME MaxFailuresAssumption == MaxFailures \in Nat \ {0}
ASSUME WindowAssumption == Window \in Nat \ {0}
ASSUME MaxTimeAssumption == MaxTime \in Nat

Attempt == [count : Nat \ {0}, resetAt : Nat]
ASSUME NoneAssumption == None \notin Attempt

VARIABLES now,       \* Date.now()
          attempts,  \* failedSignupPasswords
          guesses    \* when each address guessed wrong since it was last right;
                     \* the code keeps no such list

limitVars == <<now, attempts, guesses>>

LimitTypeOK ==
  /\ now \in Nat
  /\ attempts \in [Addresses -> Attempt \cup {None}]
  /\ guesses \in [Addresses -> Seq(Nat)]

LimitInit ==
  /\ now = 0
  /\ attempts = [a \in Addresses |-> None]
  /\ guesses = [a \in Addresses |-> <<>>]

-----------------------------------------------------------------------------
Expired(a) == now >= attempts[a].resetAt

(* Mutants: one guess too many; no limit at all.                           *)
BlockedLate(a) ==
  /\ attempts[a] # None
  /\ ~Expired(a)
  /\ attempts[a].count > MaxFailures
Blocked(a) ==
  /\ attempts[a] # None
  /\ ~Expired(a)
  /\ attempts[a].count >= MaxFailures

Swept == [a \in Addresses |->
            IF attempts[a] # None /\ Expired(a) THEN None ELSE attempts[a]]

Counted(a) == IF Swept[a] = None
              THEN [count |-> 1, resetAt |-> now + Window]
              ELSE [Swept[a] EXCEPT !.count = @ + 1]

(* The refusal of a blocked address changes nothing.                       *)
WrongPassword(a) ==
  /\ ~Blocked(a)
  /\ attempts' = [Swept EXCEPT ![a] = Counted(a)]
  /\ guesses' = [guesses EXCEPT ![a] = Append(@, now)]
  /\ UNCHANGED now

(* Mutant: the right password does not forgive the wrong ones.             *)
NotForgiven(a) == attempts
Forgiven(a) == [attempts EXCEPT ![a] = None]

RightPassword(a) ==
  /\ ~Blocked(a)
  /\ attempts' = Forgiven(a)
  /\ guesses' = [guesses EXCEPT ![a] = <<>>]
  /\ UNCHANGED now

(* The process starts anew with an empty Map.                              *)
Restart ==
  /\ attempts' = [a \in Addresses |-> None]
  /\ guesses' = [a \in Addresses |-> <<>>]
  /\ UNCHANGED now

Tick ==
  /\ now < MaxTime
  /\ now' = now + 1
  /\ UNCHANGED <<attempts, guesses>>

LimitNext ==
  \/ \E a \in Addresses : WrongPassword(a) \/ RightPassword(a)
  \/ Restart
  \/ Tick

(* What the limiter does, whoever calls it.                                *)
LimitSpec == LimitInit /\ [][LimitNext]_limitVars

-----------------------------------------------------------------------------
(* Whatever the moments an address picks, twice the limit of wrong guesses *)
(* takes it a whole window: the windows are fixed, so that one may end in  *)
(* the middle of a burst, and this is all the code promises of any         *)
(* interval (isBlocked, incrementFailure).                                 *)
SlidingLimit ==
  \A a \in Addresses : \A i, j \in DOMAIN guesses[a] :
    j - i >= 2 * MaxFailures - 1 => guesses[a][j] - guesses[a][i] >= Window

(* An address is refused only for as many wrong guesses of its own as the  *)
(* limit, all of them within the last window: nobody is locked out longer, *)
(* or for what was forgiven (isBlocked, resetFailures).                    *)
BlockedForCause ==
  \A a \in Addresses : Blocked(a) =>
    /\ Len(guesses[a]) >= MaxFailures
    /\ now - guesses[a][Len(guesses[a]) - MaxFailures + 1] < Window
=============================================================================
