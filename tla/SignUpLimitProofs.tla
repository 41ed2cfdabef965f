------------------------- MODULE SignUpLimitProofs -------------------------
(***************************************************************************)
(* The sign-up limit, proved for every limit, window and set of addresses. *)
(***************************************************************************)
EXTENDS SignUpLimit, TLAPS

(* The guesses are in the order of time.                                   *)
Ordered(a) ==
  \A i, j \in 1..Len(guesses[a]) :
    /\ guesses[a][i] <= now
    /\ i <= j => guesses[a][i] <= guesses[a][j]

Slides(a) ==
  \A i, j \in 1..Len(guesses[a]) :
    j - i >= 2 * MaxFailures - 1 => guesses[a][j] - guesses[a][i] >= Window

(* All guesses but the last MaxFailures - 1 are a window older than t, when *)
(* the last n guesses are left aside.                                      *)
OldBefore(a, n, t) ==
  \A i \in 1..Len(guesses[a]) :
    i <= Len(guesses[a]) - n + 1 - MaxFailures => guesses[a][i] + Window <= t

Start(a) == attempts[a].resetAt - Window

(* A counter counts the last guesses, from the one that started it.        *)
Counts(a) ==
  /\ attempts[a].count <= MaxFailures
  /\ attempts[a].count <= Len(guesses[a])
  /\ guesses[a][Len(guesses[a]) - attempts[a].count + 1] = Start(a)
  /\ Start(a) <= now
  /\ OldBefore(a, attempts[a].count, Start(a))

LimitInv ==
  /\ LimitTypeOK
  /\ \A a \in Addresses :
       /\ Ordered(a)
       /\ Slides(a)
       /\ IF attempts[a] = None THEN OldBefore(a, 0, now) ELSE Counts(a)

-----------------------------------------------------------------------------
(* When a counter has run out, the guesses it leaves behind are as old as  *)
(* those of an address that has none.                                      *)
LEMMA ExpiredIsOld ==
  ASSUME LimitInv, NEW a \in Addresses, attempts[a] # None, Expired(a)
  PROVE  OldBefore(a, 0, now)
<1> DEFINE g == guesses[a]
           c == attempts[a].count
<1>1. /\ attempts[a] \in Attempt /\ now \in Nat /\ g \in Seq(Nat)
      /\ Ordered(a) /\ Counts(a)
  BY DEF LimitInv, LimitTypeOK
<1>2. /\ c \in Nat /\ c # 0 /\ attempts[a].resetAt \in Nat /\ Len(g) \in Nat
      /\ \A i \in 1..Len(g) : g[i] \in Nat
  BY <1>1 DEF Attempt
<1>3. SUFFICES ASSUME NEW i \in 1..Len(g), i <= Len(g) - 0 + 1 - MaxFailures
               PROVE  g[i] + Window <= now
  BY DEF OldBefore
<1>4. i <= Len(g) - c + 1 /\ Len(g) - c + 1 \in 1..Len(g)
  <2>1. c <= MaxFailures /\ c <= Len(g)
    BY <1>1 DEF Counts
  <2>2. i \in Nat /\ i + MaxFailures <= Len(g) + 1
    BY <1>2, <1>3, MaxFailuresAssumption
  <2> QED BY <2>1, <2>2, <1>2, MaxFailuresAssumption
<1>5. g[i] <= Start(a)
  BY <1>1, <1>4 DEF Ordered, Counts
<1>6. Start(a) + Window <= now
  BY <1>1, <1>2, WindowAssumption DEF Expired, Start
<1> QED BY <1>1, <1>2, <1>5, <1>6, WindowAssumption DEF Start

(* Nothing changes but the clock, or counters that have run out: what was  *)
(* so before the step is so after it.                                      *)
LEMMA StillOld ==
  ASSUME NEW a \in Addresses, guesses[a] \in Seq(Nat), guesses'[a] = guesses[a],
         now \in Nat, now' \in Nat, now <= now', OldBefore(a, 0, now)
  PROVE  OldBefore(a, 0, now)'
BY WindowAssumption DEF OldBefore

(* A guess at time t after old ones does not shorten the span of a burst.  *)
LEMMA SlideStep ==
  ASSUME NEW n \in Nat, NEW g, NEW h, NEW t \in Nat, h[n + 1] = t,
         \A i \in 1..n : g[i] \in Nat, \A i \in 1..n : h[i] = g[i],
         \A i, j \in 1..n : j - i >= 2 * MaxFailures - 1 => g[j] - g[i] >= Window,
         \A i \in 1..n : i + 2 * MaxFailures <= n + 2 => g[i] + Window <= t
  PROVE  \A i, j \in 1..(n + 1) :
           j - i >= 2 * MaxFailures - 1 => h[j] - h[i] >= Window
<1> SUFFICES ASSUME NEW i \in 1..(n + 1), NEW j \in 1..(n + 1),
                    j - i >= 2 * MaxFailures - 1
             PROVE  h[j] - h[i] >= Window
  OBVIOUS
<1>1. i < j /\ i \in 1..n
  BY MaxFailuresAssumption
<1>2. CASE j = n + 1
  <2>1. g[i] + Window <= t
    BY <1>1, <1>2, MaxFailuresAssumption
  <2> QED BY <2>1, <1>1, <1>2, WindowAssumption
<1>3. CASE j \in 1..n
  BY <1>1, <1>3
<1> QED BY <1>2, <1>3

(* One more wrong guess.                                                   *)
LEMMA GuessKeeps ==
  ASSUME LimitInv, NEW a \in Addresses, WrongPassword(a)
  PROVE  /\ Ordered(a)'
         /\ Slides(a)'
         /\ attempts'[a] \in Attempt
         /\ Counts(a)'
<1> DEFINE g == guesses[a]
           n == Len(guesses[a])
<1>1. /\ g \in Seq(Nat) /\ now \in Nat /\ n \in Nat /\ now' = now
      /\ attempts[a] \in Attempt \cup {None}
      /\ Ordered(a) /\ Slides(a)
      /\ \A i \in 1..n : g[i] \in Nat
  BY DEF LimitInv, LimitTypeOK, WrongPassword
<1>2. /\ guesses'[a] = Append(g, now)
      /\ attempts'[a] = Counted(a)
  <2>1. guesses \in [Addresses -> Seq(Nat)]
    BY DEF LimitInv, LimitTypeOK
  <2> QED BY <2>1 DEF WrongPassword, Swept
<1>3. /\ Len(guesses'[a]) = n + 1 /\ guesses'[a][n + 1] = now
      /\ \A i \in 1..n : guesses'[a][i] = g[i]
  BY <1>1, <1>2
<1>4. Ordered(a)'
  <2> SUFFICES ASSUME NEW i \in 1..(n + 1), NEW j \in 1..(n + 1)
               PROVE  /\ guesses'[a][i] <= now
                      /\ i <= j => guesses'[a][i] <= guesses'[a][j]
    BY <1>1, <1>3 DEF Ordered
  <2>1. CASE i = n + 1
    BY <2>1, <1>1, <1>3
  <2>2. CASE i \in 1..n /\ j = n + 1
    BY <2>2, <1>1, <1>3 DEF Ordered
  <2>3. CASE i \in 1..n /\ j \in 1..n
    BY <2>3, <1>1, <1>3 DEF Ordered
  <2>4. \A k \in 1..(n + 1) : k = n + 1 \/ k \in 1..n
    BY <1>1
  <2> QED BY <2>1, <2>2, <2>3, <2>4
<1>5. ASSUME \A i \in 1..n : i + 2 * MaxFailures <= n + 2 => g[i] + Window <= now
      PROVE  Slides(a)'
  <2>1. \A i, j \in 1..n : j - i >= 2 * MaxFailures - 1 => g[j] - g[i] >= Window
    BY <1>1 DEF Slides
  <2>2. \A i, j \in 1..(n + 1) : j - i >= 2 * MaxFailures - 1
          => guesses'[a][j] - guesses'[a][i] >= Window
    BY <2>1, <1>1, <1>3, <1>5, SlideStep
  <2> QED BY <2>2, <1>3 DEF Slides
<1>6. CASE Swept[a] = None
  <2>1. OldBefore(a, 0, now)
    BY <1>6, ExpiredIsOld DEF Swept, LimitInv
  <2>2. attempts'[a] = [count |-> 1, resetAt |-> now + Window]
    BY <1>2, <1>6 DEF Counted
  <2>3. attempts'[a] \in Attempt /\ attempts'[a].count = 1 /\ Start(a)' = now
    BY <2>2, <1>1, WindowAssumption DEF Attempt, Start
  <2>4. Slides(a)'
    <3>1. \A i \in 1..n : i + 2 * MaxFailures <= n + 2 => g[i] + Window <= now
      <4> SUFFICES ASSUME NEW i \in 1..n, i + 2 * MaxFailures <= n + 2
                   PROVE  g[i] + Window <= now
        OBVIOUS
      <4>1. i <= n - 0 + 1 - MaxFailures
        BY <1>1, MaxFailuresAssumption
      <4> QED BY <4>1, <2>1 DEF OldBefore
    <3> QED BY <3>1, <1>5
  <2>5. OldBefore(a, 1, now)'
    <3> SUFFICES ASSUME NEW i \in 1..(n + 1), i <= (n + 1) - 1 + 1 - MaxFailures
                 PROVE  guesses'[a][i] + Window <= now
      BY <1>1, <1>3 DEF OldBefore
    <3>1. i \in 1..n /\ i <= n - 0 + 1 - MaxFailures
      BY <1>1, MaxFailuresAssumption
    <3> QED BY <3>1, <2>1, <1>3 DEF OldBefore
  <2>6. Counts(a)'
    BY <2>3, <2>5, <1>1, <1>3, MaxFailuresAssumption DEF Counts
  <2> QED BY <1>4, <2>3, <2>4, <2>6
<1>7. CASE Swept[a] # None
  <2>1. /\ attempts[a] # None /\ ~Expired(a) /\ attempts[a] \in Attempt
        /\ attempts'[a] = [attempts[a] EXCEPT !.count = @ + 1]
    BY <1>1, <1>2, <1>7 DEF Swept, Counted
  <2>2. PICK c \in Nat, s \in Int : c = attempts[a].count /\ s = Start(a)
    BY <2>1, WindowAssumption DEF Attempt, Start
  <2>3. /\ c # 0 /\ c < MaxFailures /\ c <= n
        /\ s <= now /\ g[n - c + 1] = s
        /\ OldBefore(a, c, s)
    <3>1. Counts(a)
      BY <2>1 DEF LimitInv
    <3>2. c # 0 /\ c < MaxFailures
      BY <2>1, <2>2, MaxFailuresAssumption
         DEF Attempt, WrongPassword, Blocked
    <3> QED BY <3>1, <3>2, <2>2 DEF Counts
  <2>4. /\ attempts'[a] \in Attempt /\ attempts'[a].count = c + 1
        /\ Start(a)' = s
    BY <2>1, <2>2 DEF Attempt, Start
  <2>5. Slides(a)'
    <3>1. \A i \in 1..n : i + 2 * MaxFailures <= n + 2 => g[i] + Window <= now
      <4> SUFFICES ASSUME NEW i \in 1..n, i + 2 * MaxFailures <= n + 2
                   PROVE  g[i] + Window <= now
        OBVIOUS
      <4>1. i <= n - c + 1 - MaxFailures
        BY <2>3, <1>1, MaxFailuresAssumption
      <4>2. g[i] + Window <= s
        BY <4>1, <2>3 DEF OldBefore
      <4>3. s <= now /\ now \in Nat /\ g[i] \in Nat
        BY <2>3, <1>1
      <4> QED BY <4>2, <4>3, WindowAssumption
    <3> QED BY <3>1, <1>5
  <2>6. OldBefore(a, attempts[a].count, Start(a))'
    <3> SUFFICES ASSUME NEW i \in 1..(n + 1), i <= (n + 1) - (c + 1) + 1 - MaxFailures
                 PROVE  guesses'[a][i] + Window <= s
      BY <2>4, <1>1, <1>3 DEF OldBefore
    <3>1. i \in 1..n /\ i <= n - c + 1 - MaxFailures
      BY <2>3, <1>1, MaxFailuresAssumption
    <3> QED BY <3>1, <2>3, <1>3 DEF OldBefore
  <2>7. guesses'[a][(n + 1) - (c + 1) + 1] = s
    <3>1. (n + 1) - (c + 1) + 1 = n - c + 1 /\ n - c + 1 \in 1..n
      BY <2>3, <1>1
    <3> QED BY <3>1, <2>3, <1>3
  <2>8. Counts(a)'
    <3>1. c + 1 <= MaxFailures /\ c + 1 <= n + 1
      BY <2>3, <1>1, MaxFailuresAssumption
    <3>2. s <= now'
      BY <2>3, <1>1
    <3> QED BY <3>1, <3>2, <2>4, <2>6, <2>7, <1>3 DEF Counts
  <2> QED BY <1>4, <2>4, <2>5, <2>8
<1> QED BY <1>6, <1>7
-----------------------------------------------------------------------------
(* The invariant survives every step of the limiter.                       *)
LEMMA LimitStep ==
  ASSUME LimitInv, [LimitNext]_limitVars
  PROVE  LimitInv'
<1> USE DEF LimitTypeOK
<1>1. ASSUME NEW a \in Addresses, WrongPassword(a) PROVE LimitInv'
  <2>1. /\ Ordered(a)' /\ Slides(a)' /\ attempts'[a] \in Attempt /\ Counts(a)'
    BY <1>1, GuessKeeps
  <2>2. /\ now' = now /\ now \in Nat
        /\ guesses' = [guesses EXCEPT ![a] = Append(@, now)]
        /\ attempts' = [Swept EXCEPT ![a] = Counted(a)]
        /\ guesses \in [Addresses -> Seq(Nat)]
        /\ attempts \in [Addresses -> Attempt \cup {None}]
    BY <1>1 DEF WrongPassword, LimitInv
  <2>3. ASSUME NEW b \in Addresses, b # a
        PROVE  /\ guesses'[b] = guesses[b]
               /\ attempts'[b] = IF attempts[b] # None /\ Expired(b)
                                 THEN None ELSE attempts[b]
    BY <2>2, <2>3 DEF Swept
  <2>4. LimitTypeOK'
    <3>1. guesses' \in [Addresses -> Seq(Nat)]
      BY <2>2
    <3>2. \A b \in Addresses : attempts'[b] \in Attempt \cup {None}
      BY <2>1, <2>2, <2>3
    <3>3. attempts' = [b \in Addresses |-> attempts'[b]]
      BY <2>2 DEF Swept
    <3> QED BY <3>1, <3>2, <3>3, <2>2
  <2>5. ASSUME NEW b \in Addresses
        PROVE  /\ Ordered(b)' /\ Slides(b)'
               /\ IF attempts'[b] = None THEN OldBefore(b, 0, now)' ELSE Counts(b)'
    <3>1. CASE b = a
      BY <3>1, <2>1, NoneAssumption
    <3>2. CASE b # a
      <4>1. /\ Ordered(b) /\ Slides(b)
            /\ attempts[b] = None => OldBefore(b, 0, now)
            /\ attempts[b] # None => Counts(b)
        BY DEF LimitInv
      <4>2. Ordered(b)' /\ Slides(b)'
        BY <2>2, <2>3, <3>2, <4>1 DEF Ordered, Slides
      <4>3. CASE attempts'[b] = None
        <5>1. OldBefore(b, 0, now)
          BY <4>1, <4>3, <2>3, <3>2, ExpiredIsOld
        <5> QED BY <5>1, <4>2, <4>3, <2>2, <2>3, <3>2 DEF OldBefore
      <4>4. CASE attempts'[b] # None
        <5>1. attempts[b] # None /\ attempts'[b] = attempts[b]
          BY <4>4, <2>3, <3>2
        <5>2. Counts(b)'
          BY <5>1, <4>1, <2>2, <2>3, <3>2 DEF Counts, Start, OldBefore
        <5> QED BY <4>4, <4>2, <5>2
      <4> QED BY <4>3, <4>4
    <3> QED BY <3>1, <3>2
  <2> QED BY <2>4, <2>5 DEF LimitInv
<1>2. ASSUME NEW a \in Addresses, RightPassword(a) PROVE LimitInv'
  <2>1. /\ now' = now
        /\ guesses' = [guesses EXCEPT ![a] = <<>>]
        /\ attempts' = [attempts EXCEPT ![a] = None]
        /\ LimitTypeOK
    BY <1>2 DEF RightPassword, Forgiven, LimitInv
  <2>2. LimitTypeOK'
    BY <2>1
  <2>3. ASSUME NEW b \in Addresses
        PROVE  /\ Ordered(b)' /\ Slides(b)'
               /\ IF attempts'[b] = None THEN OldBefore(b, 0, now)' ELSE Counts(b)'
    <3>1. CASE b = a
      <4>1. guesses'[b] = <<>> /\ attempts'[b] = None /\ Len(<<>>) = 0
        BY <3>1, <2>1
      <4> QED BY <4>1 DEF Ordered, Slides, OldBefore
    <3>2. CASE b # a
      BY <3>2, <2>1 DEF LimitInv, Ordered, Slides, OldBefore, Counts, Start
    <3> QED BY <3>1, <3>2
  <2> QED BY <2>2, <2>3 DEF LimitInv
<1>3. ASSUME Restart PROVE LimitInv'
  <2>1. \A b \in Addresses : guesses'[b] = <<>> /\ attempts'[b] = None
    BY <1>3 DEF Restart
  <2>2. Len(<<>>) = 0
    OBVIOUS
  <2>3. LimitTypeOK'
    BY <1>3 DEF Restart, LimitInv
  <2> QED BY <2>1, <2>2, <2>3 DEF LimitInv, Ordered, Slides, OldBefore
<1>4. ASSUME Tick PROVE LimitInv'
  <2>1. /\ now \in Nat /\ now' = now + 1 /\ guesses' = guesses
        /\ attempts' = attempts /\ LimitTypeOK
    BY <1>4 DEF Tick, LimitInv
  <2>2. ASSUME NEW b \in Addresses
        PROVE  /\ Ordered(b)' /\ Slides(b)'
               /\ IF attempts'[b] = None THEN OldBefore(b, 0, now)' ELSE Counts(b)'
    <3>1. /\ Ordered(b) /\ Slides(b) /\ guesses[b] \in Seq(Nat)
          /\ attempts[b] = None => OldBefore(b, 0, now)
          /\ attempts[b] # None => Counts(b)
      BY <2>1 DEF LimitInv
    <3>2. Ordered(b)' /\ Slides(b)'
      <4>1. \A i \in 1..Len(guesses[b]) : guesses[b][i] \in Nat
        BY <3>1
      <4> QED BY <2>1, <3>1, <4>1 DEF Ordered, Slides
    <3>3. CASE attempts[b] = None
      BY <3>1, <3>2, <3>3, <2>1, StillOld
    <3>4. CASE attempts[b] # None
      <4>1. Start(b) \in Int
        BY <2>1, <3>4, WindowAssumption DEF Attempt, Start
      <4>2. Start(b)' = Start(b) /\ (Start(b) <= now => Start(b) <= now')
        BY <2>1, <4>1 DEF Start
      <4>3. Counts(b)'
        BY <2>1, <3>1, <3>4, <4>2 DEF Counts, OldBefore, Start
      <4> QED BY <3>2, <3>4, <4>3, <2>1
    <3> QED BY <3>3, <3>4
  <2> QED BY <2>1, <2>2 DEF LimitInv
<1>5. CASE UNCHANGED limitVars
  BY <1>5 DEF limitVars, LimitInv, Ordered, Slides, OldBefore, Counts, Start
<1> QED BY <1>1, <1>2, <1>3, <1>4, <1>5 DEF LimitNext

LEMMA LimitAlways == LimitSpec => []LimitInv
<1>1. LimitInit => LimitInv
  <2> SUFFICES ASSUME LimitInit PROVE LimitInv
    OBVIOUS
  <2>1. Len(<<>>) = 0
    OBVIOUS
  <2> QED BY <2>1 DEF LimitInit, LimitInv, LimitTypeOK, Ordered, Slides, OldBefore
<1>2. LimitInv /\ [LimitNext]_limitVars => LimitInv'
  BY LimitStep
<1> QED BY <1>1, <1>2, PTL DEF LimitSpec

(* Twice the limit of wrong guesses takes a whole window, for every limit, *)
(* window and number of addresses (isBlocked, incrementFailure).           *)
THEOREM GuessesAreLimited == LimitSpec => []SlidingLimit
<1>1. LimitInv => SlidingLimit
  <2> SUFFICES ASSUME LimitInv, NEW a \in Addresses
               PROVE  \A i, j \in DOMAIN guesses[a] :
                        j - i >= 2 * MaxFailures - 1
                          => guesses[a][j] - guesses[a][i] >= Window
    BY DEF SlidingLimit
  <2>1. DOMAIN guesses[a] = 1..Len(guesses[a])
    BY DEF LimitInv, LimitTypeOK
  <2> QED BY <2>1 DEF LimitInv, Slides
<1> QED BY <1>1, LimitAlways, PTL

(* Nobody is refused without as many wrong guesses of their own as the     *)
(* limit within the last window (isBlocked, resetFailures).                *)
THEOREM NobodyIsLockedOut == LimitSpec => []BlockedForCause
<1>1. LimitInv => BlockedForCause
  <2> SUFFICES ASSUME LimitInv, NEW a \in Addresses, Blocked(a)
               PROVE  /\ Len(guesses[a]) >= MaxFailures
                      /\ now - guesses[a][Len(guesses[a]) - MaxFailures + 1] < Window
    BY DEF BlockedForCause
  <2>1. /\ attempts[a] \in Attempt /\ attempts[a] # None /\ Counts(a)
        /\ now \in Nat /\ Len(guesses[a]) \in Nat
    BY DEF LimitInv, LimitTypeOK, Blocked
  <2>2. attempts[a].count = MaxFailures
    BY <2>1, MaxFailuresAssumption DEF Blocked, Counts, Attempt
  <2>3. now < attempts[a].resetAt /\ attempts[a].resetAt \in Nat
    BY <2>1 DEF Blocked, Expired, Attempt
  <2>4. guesses[a][Len(guesses[a]) - MaxFailures + 1] = attempts[a].resetAt - Window
    BY <2>1, <2>2 DEF Counts, Start
  <2>5. MaxFailures <= Len(guesses[a])
    BY <2>1, <2>2 DEF Counts
  <2> QED BY <2>1, <2>3, <2>4, <2>5, WindowAssumption, MaxFailuresAssumption
<1> QED BY <1>1, LimitAlways, PTL
=============================================================================
