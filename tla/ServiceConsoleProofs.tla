------------------------- MODULE ServiceConsoleProofs -------------------------
(***************************************************************************)
(* Theorems about ServiceConsole, for any services, names, files and       *)
(* bounds: its types, the owner of busyApp, and the agreement of the lists *)
(* shown with those stored.                                                *)
(***************************************************************************)
EXTENDS ServiceConsole, TLAPS

-----------------------------------------------------------------------------
(* Types.                                                                  *)

Pcs == {"sent", "hung", "answered", "refused", "refresh"}

(* What the record of an operation holds.                                  *)
LEMMA OpFields ==
  ASSUME NEW op \in Op
  PROVE  /\ op.kind \in Kinds /\ op.app \in Apps /\ op.names \in Sets
         /\ op.base \in Lists /\ op.todo \in Sets /\ op.answer \in Lists
         /\ op.second \in BOOLEAN /\ op.alone \in BOOLEAN /\ op.pc \in Pcs
         /\ op # None
BY NoneAssumption, Zenon DEF Op, Pcs

(* Changing the fields that handlers change keeps a record an operation.   *)
LEMMA OpChanges ==
  ASSUME NEW op \in Op
  PROVE  /\ [op EXCEPT !.alone = FALSE] \in Op
         /\ \A pc \in Pcs :
              /\ [op EXCEPT !.pc = pc] \in Op
              /\ [op EXCEPT !.second = TRUE, !.pc = pc] \in Op
              /\ \A l \in Lists : [op EXCEPT !.pc = pc, !.answer = l] \in Op
              /\ \A t \in Sets : [op EXCEPT !.todo = t, !.pc = pc] \in Op
BY DEF Op, Pcs

(* A handler that goes on to another point keeps the types.                *)
LEMMA GoesTyped ==
  ASSUME TypeOK, NEW o \in Slots, UnderWay(o), NEW pc \in Pcs, Goes(o, pc)
  PROVE  ops' \in [Slots -> Op \cup {None}]
<1>1. ops[o] \in Op BY DEF TypeOK, UnderWay
<1>2. [ops[o] EXCEPT !.pc = pc] \in Op BY <1>1, OpChanges, Zenon DEF Sets, Lists
<1> QED BY <1>2 DEF TypeOK, Goes

(* Starting an operation puts it in a slot that was free.                  *)
LEMMA Started ==
  ASSUME TypeOK, NEW o \in Slots, NEW kind \in Kinds, NEW a \in Apps, NEW names \in Sets,
         Start(o, kind, a, names)
  PROVE  /\ ops' \in [Slots -> Op \cup {None}]
         /\ ~UnderWay(o) /\ ops'[o] \in Op
         /\ ops'[o].kind = kind /\ ops'[o].app = a /\ ops'[o].names = names
         /\ ops'[o].base = (IF kind \in {"put", "drop"} THEN envVars[a] ELSE None)
         /\ ops'[o].todo = (IF kind = "edit" THEN names ELSE {})
         /\ ops'[o].second = FALSE /\ ops'[o].pc = "sent"
         /\ ops'[o].alone => Settles(kind) /\ ~Met(a)
         /\ \A p \in Slots : ~UnderWay(p) /\ p # o => ops'[p] = None
<1>1. PICK alone \in BOOLEAN : alone = (Settles(kind) /\ ~Met(a))
  OBVIOUS
<1> DEFINE new == [kind |-> kind, app |-> a, names |-> names,
             base |-> IF kind \in {"put", "drop"} THEN envVars[a] ELSE None,
             todo |-> IF kind = "edit" THEN names ELSE {}, second |-> FALSE,
             pc |-> "sent", answer |-> None, alone |-> alone]
<1>2. /\ new \in Op
      /\ new.kind = kind /\ new.app = a /\ new.names = names
      /\ new.base = (IF kind \in {"put", "drop"} THEN envVars[a] ELSE None)
      /\ new.todo = (IF kind = "edit" THEN names ELSE {})
      /\ new.second = FALSE /\ new.pc = "sent" /\ new.alone = alone
  BY DEF TypeOK, Op, Sets, Lists
<1> DEFINE unalone(p) == [ops[p] EXCEPT !.alone = FALSE]
<1>3. \A p \in Slots : UnderWay(p) =>
        /\ unalone(p) \in Op /\ unalone(p).alone = FALSE
        /\ unalone(p).kind = ops[p].kind /\ unalone(p).app = ops[p].app
        /\ unalone(p).names = ops[p].names /\ unalone(p).todo = ops[p].todo
  <2> TAKE p \in Slots
  <2> HAVE UnderWay(p)
  <2>1. ops[p] \in Op BY DEF TypeOK, UnderWay
  <2> QED BY <2>1 DEF Op
<1>4. ops' = [p \in Slots |-> IF p = o THEN new
                ELSE IF Touches(kind) /\ Meets(p, a) THEN unalone(p)
                ELSE ops[p]]
  BY <1>1, Zenon DEF Start
<1> HIDE DEF new, unalone
<1>5. ops' \in [Slots -> Op \cup {None}]
  BY <1>2, <1>3, <1>4 DEF TypeOK, Meets
<1>6. ops'[o] = new BY <1>4
<1>7. ~UnderWay(o) BY DEF Start
<1>8. \A p \in Slots : p # o =>
         ops'[p] = IF Touches(kind) /\ Meets(p, a) THEN unalone(p) ELSE ops[p]
  BY <1>4
<1>9. \A p \in Slots : ~UnderWay(p) /\ p # o => ops'[p] = None
  BY <1>3, <1>7, <1>8 DEF Meets, UnderWay
<1>10. ops'[o].alone => Settles(kind) /\ ~Met(a)
  BY <1>1, <1>2, <1>6, Zenon
<1> QED BY <1>2, <1>5, <1>6, <1>7, <1>9, <1>10

(* It leaves alone the operations that it does not meet,                   *)
LEMMA StartLeaves ==
  ASSUME NEW o \in Slots, NEW kind, NEW a, NEW names, Start(o, kind, a, names),
         NEW p \in Slots, UnderWay(p), ~(Touches(kind) /\ Meets(p, a))
  PROVE  ops'[p] = ops[p]
<1>1. PICK new : ops' = [q \in Slots |-> IF q = o THEN new
                  ELSE IF Touches(kind) /\ Meets(q, a) THEN [ops[q] EXCEPT !.alone = FALSE]
                  ELSE ops[q]]
  BY Zenon DEF Start
<1>2. p # o BY DEF Start
<1> QED BY <1>1, <1>2, Zenon

(* and those that it meets lose nothing but being alone.                   *)
LEMMA StartMeets ==
  ASSUME TypeOK, NEW o \in Slots, NEW kind, NEW a, NEW names, Start(o, kind, a, names),
         NEW p \in Slots, UnderWay(p), Touches(kind), Meets(p, a)
  PROVE  /\ ops'[p] \in Op /\ ops'[p].alone = FALSE
         /\ ops'[p].kind = ops[p].kind /\ ops'[p].app = ops[p].app
         /\ ops'[p].names = ops[p].names /\ ops'[p].todo = ops[p].todo
<1>1. PICK new : ops' = [q \in Slots |-> IF q = o THEN new
                  ELSE IF Touches(kind) /\ Meets(q, a) THEN [ops[q] EXCEPT !.alone = FALSE]
                  ELSE ops[q]]
  BY Zenon DEF Start
<1>2. p # o BY DEF Start
<1>3. ops'[p] = [ops[p] EXCEPT !.alone = FALSE] BY <1>1, <1>2, Zenon
<1>4. ops[p] \in Op BY DEF TypeOK, UnderWay
<1> QED BY <1>3, <1>4 DEF Op

(* So it keeps the types.                                                  *)
LEMMA StartTyped ==
  ASSUME TypeOK, NEW o \in Slots, NEW kind \in Kinds, NEW a \in Apps, NEW names \in Sets,
         Start(o, kind, a, names), envApp' \in Apps \cup {None}, busyApp' \in Apps \cup {None}
  PROVE  TypeOK'
<1>1. ops' \in [Slots -> Op \cup {None}] BY Started
<1>2. started' \in 0..MaxStarts
  BY MaxStartsAssumption DEF Start, TypeOK
<1>3. Doubts(kind, a, names) \in Sets
  BY DEF Doubts, TypeOK, Sets
<1>4. doubt' \in [Apps -> Sets]
  BY <1>3 DEF Start, TypeOK
<1> QED BY <1>1, <1>2, <1>4 DEF TypeOK, Start, platformVars

(* An operation that ends frees its slot, and perhaps busyApp.             *)
LEMMA EndsTyped ==
  ASSUME TypeOK, NEW o \in Slots, Ends(o)
  PROVE  ops' \in [Slots -> Op \cup {None}] /\ busyApp' \in Apps \cup {None}
BY DEF TypeOK, Ends, Releases

(* What the platform stores after a request.                               *)
LEMMA EffectTyped ==
  ASSUME TypeOK, NEW kind \in Kinds, NEW a \in Apps, NEW names \in Sets,
         TakesEffect(kind, a, names)
  PROVE  apps' \subseteq Apps /\ env' \in [Apps -> Sets] /\ env'[a] = EnvAfter(kind, a, names)
<1>1. EnvAfter(kind, a, names) \in Sets
  BY DEF EnvAfter, TypeOK, Sets, Kinds
<1> QED BY <1>1 DEF TypeOK, TakesEffect

(* Requests that may land late, and those that are sent, are requests.     *)
LEMMA LateTyped ==
  ASSUME TypeOK, NEW o \in Slots, UnderWay(o), NEW n
  PROVE  Others(o, n) \subseteq Late /\ Sending(o) \in Kinds /\ Touched(o) \in Sets
<1>1. ops[o] \in Op BY DEF TypeOK, UnderWay
<1>2. /\ ops[o].kind \in Kinds /\ ops[o].app \in Apps /\ ops[o].todo \in Sets
      /\ ops[o].names \in Sets
  BY <1>1, OpFields
<1>3. Touched(o) \in Sets BY <1>2 DEF Touched, Sets
<1> QED BY <1>2, <1>3 DEF Others, Late, Sending, Kinds, Sets

(* The types hold when the console is opened.                              *)
LEMMA TypeInit == Init => TypeOK
BY MaxStartsAssumption, MaxFaultsAssumption DEF Init, TypeOK, Lists, Sets

(* Faults stay within their bound.                                         *)
LEMMA FaultTyped == TypeOK /\ Fault => faults' \in 0..MaxFaults
BY MaxFaultsAssumption DEF TypeOK, Fault

(* Every control keeps the types.                                          *)
LEMMA BeginsTyped ==
  ASSUME TypeOK, NEW o \in Slots, Begins(o) PROVE TypeOK'
<1> PICK a \in Apps :
      \/ OpenVariables(o, a)
      \/ \E names \in Files : ImportEnv(o, a, names) \/ CreateApp(o, a, "createEnv", names)
      \/ CreateApp(o, a, "create", {})
      \/ \E names \in Sets : SaveEnvChanges(o, a, names)
      \/ \E n \in Names : SaveEnvVar(o, a, n) \/ RemoveEnvVar(o, a, n)
      \/ \E kind \in Kinds : Request(o, a, kind)
  BY DEF Begins
<1>0. Files \subseteq Sets /\ {} \in Sets /\ \A n \in Names : {n} \in Sets
  BY FilesAssumption DEF Sets
<1>1. CASE OpenVariables(o, a)
  <2>1. CASE Start(o, "load", a, {})
    BY <1>0, <1>1, <2>1, StartTyped DEF OpenVariables, Kinds, TypeOK
  <2>2. CASE UNCHANGED <<platformVars, listed, envVars, ops, doubt, started, faults>>
    BY <1>1, <2>2 DEF OpenVariables, TypeOK, platformVars
  <2> QED BY <1>1, <2>1, <2>2 DEF OpenVariables
<1>2. ASSUME NEW names \in Files, ImportEnv(o, a, names) PROVE TypeOK'
  BY <1>0, <1>2, StartTyped DEF ImportEnv, Kinds, TypeOK
<1>3. ASSUME NEW names \in Sets, NEW kind \in {"create", "createEnv"},
             CreateApp(o, a, kind, names) PROVE TypeOK'
  BY <1>0, <1>3, StartTyped DEF CreateApp, Kinds, TypeOK
<1>4. ASSUME NEW names \in Sets, SaveEnvChanges(o, a, names) PROVE TypeOK'
  BY <1>0, <1>4, StartTyped DEF SaveEnvChanges, Kinds, TypeOK
<1>5. ASSUME NEW n \in Names, SaveEnvVar(o, a, n) \/ RemoveEnvVar(o, a, n) PROVE TypeOK'
  BY <1>0, <1>5, StartTyped DEF SaveEnvVar, RemoveEnvVar, Kinds, TypeOK
<1>6. ASSUME NEW kind \in Kinds, Request(o, a, kind) PROVE TypeOK'
  BY <1>0, <1>6, StartTyped DEF Request, TypeOK
<1> QED BY <1>0, <1>1, <1>2, <1>3, <1>4, <1>5, <1>6

(* So does every step of a handler,                                        *)
LEMMA GoesOnTyped ==
  ASSUME TypeOK, NEW o \in Slots, UnderWay(o), GoesOn(o) PROVE TypeOK'
<1>0. ops[o] \in Op BY DEF TypeOK, UnderWay
<1>1. /\ ops[o].kind \in Kinds /\ ops[o].app \in Apps /\ ops[o].names \in Sets
      /\ ops[o].base \in Lists /\ ops[o].todo \in Sets /\ ops[o].answer \in Lists
      /\ Sending(o) \in Kinds /\ Touched(o) \in Sets
  BY <1>0, OpFields, LateTyped
<1>2. CASE Handle(o)
  <2>1. CASE Accepts(Sending(o), ops[o].app, ops[o].names)
    <3>1. TakesEffect(Sending(o), ops[o].app, ops[o].names)
      BY <1>2, <2>1, Zenon DEF Handle
    <3>2. apps' \subseteq Apps /\ env' \in [Apps -> Sets]
      BY <3>1, <1>1, EffectTyped
    <3>3. PICK l \in Lists :
            l = (IF Sending(o) \in {"load", "import"} THEN env'[ops[o].app] ELSE None)
      BY <1>1, <3>2 DEF Lists
    <3>4. ops' = [ops EXCEPT ![o].pc = "answered", ![o].answer = l]
      BY <1>2, <2>1, <3>3, Zenon DEF Handle
    <3>5. [ops[o] EXCEPT !.pc = "answered", !.answer = l] \in Op
      BY <1>0, <3>3, OpChanges DEF Pcs, Sets
    <3>6. ops' \in [Slots -> Op \cup {None}] BY <3>4, <3>5 DEF TypeOK
    <3> QED BY <1>2, <3>2, <3>6 DEF TypeOK, Handle, ConsoleStays
  <2>2. CASE ~Accepts(Sending(o), ops[o].app, ops[o].names)
    <3>1. Goes(o, "refused") /\ UNCHANGED <<apps, env>>
      BY <1>2, <2>2, Zenon DEF Handle
    <3> QED BY <1>2, <3>1, GoesTyped DEF TypeOK, Handle, ConsoleStays, Pcs
  <2> QED BY <2>1, <2>2
<1>3. CASE HandleOneOf(o)
  <2> PICK n \in ops[o].todo :
       IF Accepts("put", ops[o].app, {n})
       THEN /\ TakesEffect("put", ops[o].app, {n})
            /\ ops' = [ops EXCEPT ![o].todo = @ \ {n},
                         ![o].pc = IF ops[o].todo = {n} THEN "answered" ELSE @]
            /\ UNCHANGED late
       ELSE /\ Goes(o, "refused") /\ UNCHANGED <<apps, env>>
            /\ late' = late \cup Others(o, n)
    BY <1>3 DEF HandleOneOf
  <2>1. CASE Accepts("put", ops[o].app, {n})
    <3>1. {n} \in Sets BY <1>1 DEF Sets
    <3>2. apps' \subseteq Apps /\ env' \in [Apps -> Sets]
      BY <3>1, <1>1, <2>1, EffectTyped DEF Kinds
    <3>3. PICK pc \in Pcs : pc = IF ops[o].todo = {n} THEN "answered" ELSE ops[o].pc
      BY <1>0, OpFields DEF Pcs
    <3>4. PICK t \in Sets : t = ops[o].todo \ {n}
      BY <1>1 DEF Sets
    <3>5. [ops[o] EXCEPT !.todo = t, !.pc = pc] \in Op
      BY <1>0, OpChanges DEF Lists
    <3>6. ops' = [ops EXCEPT ![o] = [ops[o] EXCEPT !.todo = t, !.pc = pc]]
      BY <2>1, <3>3, <3>4 DEF TypeOK
    <3>7. ops' \in [Slots -> Op \cup {None}] BY <3>5, <3>6 DEF TypeOK
    <3> QED BY <1>3, <2>1, <3>2, <3>7 DEF TypeOK, HandleOneOf, ConsoleStays
  <2>2. CASE ~Accepts("put", ops[o].app, {n})
    <3>1. late' \subseteq Late BY <2>2, LateTyped DEF TypeOK
    <3> QED BY <1>3, <2>2, <3>1, GoesTyped DEF TypeOK, HandleOneOf, ConsoleStays, Pcs
  <2> QED BY <2>1, <2>2
<1>11. ASSUME NEW list \in Lists, ShowList(o, list)
       PROVE  envVars' \in [Apps -> Lists] /\ doubt' \in [Apps -> Sets]
  BY <1>1, <1>11 DEF TypeOK, ShowList, Sets
<1>4. CASE LoadAnswered(o)
  BY <1>1, <1>4, <1>11, EndsTyped DEF TypeOK, LoadAnswered, platformVars
<1>5. CASE ImportAnswered(o)
  <2>1. [ops[o] EXCEPT !.pc = "refresh", !.answer = None] \in Op
    BY <1>0, OpChanges DEF Pcs, Lists, Sets
  <2>2. ops' \in [Slots -> Op \cup {None}] BY <1>5, <2>1 DEF TypeOK, ImportAnswered
  <2> QED BY <1>1, <1>5, <1>11, <2>2 DEF TypeOK, ImportAnswered, platformVars
<1>6. CASE VariableAnswered(o)
  <2>1. NextList(o) \in Lists BY <1>1, NoneAssumption DEF NextList, Lists, Sets
  <2>2. doubt' \in [Apps -> Sets] BY <1>1, <1>6 DEF TypeOK, VariableAnswered, Sets
  <2> QED BY <1>1, <1>6, <2>1, <2>2, EndsTyped DEF TypeOK, VariableAnswered, platformVars
<1>7. CASE Continues(o)
  <2>1. [ops[o] EXCEPT !.second = TRUE, !.pc = "sent"] \in Op
    BY <1>0, OpChanges DEF Pcs, Lists, Sets
  <2>2. ops' \in [Slots -> Op \cup {None}] BY <1>7, <2>1 DEF TypeOK, Continues
  <2> QED BY <1>7, <2>2 DEF TypeOK, Continues, ConsoleStays, platformVars
<1>8. CASE Acknowledged(o)
  BY <1>8, GoesTyped DEF TypeOK, Acknowledged, platformVars, Pcs
<1>9. CASE Refreshed(o)
  BY <1>9, EndsTyped, FaultTyped DEF TypeOK, Refreshed, platformVars
<1>10. CASE EndsInError(o)
  <2>1. ops' \in [Slots -> Op \cup {None}] /\ busyApp' \in Apps \cup {None}
    BY <1>10, EndsTyped, GoesTyped DEF EndsInError, TypeOK, Pcs
  <2>2. doubt' \in [Apps -> Sets] BY <1>1, <1>10 DEF TypeOK, EndsInError, Sets
  <2> QED BY <1>1, <1>10, <2>1, <2>2 DEF TypeOK, EndsInError, platformVars
<1> QED BY <1>2, <1>3, <1>4, <1>5, <1>6, <1>7, <1>8, <1>9, <1>10 DEF GoesOn

(* which are steps of an operation that is under way,                      *)
LEMMA AllUnderWay ==
  ASSUME NEW o \in Slots, GoesOn(o) \/ Fails(o) \/ Hang(o)
  PROVE  UnderWay(o)
BY DEF GoesOn, Handle, HandleOneOf, LoadAnswered, ImportAnswered, VariableAnswered, Continues,
       Acknowledged, Refreshed, EndsInError, Fails, Hang, At, TimerFires

(* every failure of a request,                                             *)
LEMMA FailsTyped ==
  ASSUME TypeOK, NEW o \in Slots, Fails(o) \/ Hang(o) PROVE TypeOK'
<1>1. UnderWay(o) BY AllUnderWay
<1>2. ops' \in [Slots -> Op \cup {None}]
  BY <1>1, GoesTyped DEF Fails, Hang, Pcs
<1>3. late' \subseteq Late
  <2>1. ops[o] \in Op BY <1>1 DEF TypeOK, UnderWay
  <2>2. [kind |-> Sending(o), app |-> ops[o].app, names |-> ops[o].names] \in Late
    BY <1>1, <2>1, OpFields, LateTyped DEF Late
  <2> QED BY <1>1, <2>2, LateTyped DEF TypeOK, Fails, Hang
<1>4. faults' \in 0..MaxFaults BY FaultTyped DEF Fails, Hang
<1>5. UNCHANGED <<listed, envVars, envApp, busyApp, doubt, started>>
  BY DEF Fails, Hang, ConsoleStays
<1>6. apps' \subseteq Apps /\ env' \in [Apps -> Sets]
  <2>1. ops[o] \in Op BY <1>1 DEF TypeOK, UnderWay
  <2>2. /\ ops[o].app \in Apps /\ ops[o].names \in Sets /\ Sending(o) \in Kinds
        /\ \A n \in ops[o].todo : {n} \in Sets
    BY <1>1, <2>1, OpFields, LateTyped DEF Sets
  <2>3. \/ UNCHANGED <<apps, env>>
        \/ \E kind \in Kinds, names \in Sets : TakesEffect(kind, ops[o].app, names)
    BY <2>2 DEF Fails, Hang, DoneAllTheSame, Kinds
  <2> QED BY <2>2, <2>3, EffectTyped DEF TypeOK
<1> QED BY <1>2, <1>3, <1>4, <1>5, <1>6 DEF TypeOK

(* and every request that lands late.                                      *)
LEMMA LandsTyped ==
  ASSUME TypeOK, LateLands PROVE TypeOK'
<1> PICK r \in late :
       /\ late' = late \ {r}
       /\ \/ Accepts(r.kind, r.app, r.names) /\ TakesEffect(r.kind, r.app, r.names)
          \/ UNCHANGED <<apps, env>>
  BY DEF LateLands, DoneAllTheSame
<1>1. r.kind \in Kinds /\ r.app \in Apps /\ r.names \in Sets
  BY DEF TypeOK, Late
<1>2. apps' \subseteq Apps /\ env' \in [Apps -> Sets]
  BY <1>1, EffectTyped DEF TypeOK
<1> QED BY <1>2 DEF TypeOK, LateLands, ConsoleStays

(* Every step keeps the types.                                             *)
LEMMA TypeStep == TypeOK /\ [Next]_vars => TypeOK'
<1> SUFFICES ASSUME TypeOK, [Next]_vars PROVE TypeOK'
  OBVIOUS
<1>1. ASSUME NEW o \in Slots, Begins(o) PROVE TypeOK' BY <1>1, BeginsTyped
<1>2. ASSUME NEW o \in Slots, GoesOn(o) PROVE TypeOK' BY <1>2, AllUnderWay, GoesOnTyped
<1>3. ASSUME NEW o \in Slots, Fails(o) \/ Hang(o) PROVE TypeOK' BY <1>3, FailsTyped
<1>4. CASE LateLands BY <1>4, LandsTyped
<1>5. CASE UNCHANGED vars BY <1>5 DEF vars, platformVars, TypeOK
<1> QED BY <1>1, <1>2, <1>3, <1>4, <1>5 DEF Next

(* Every reachable state of the console's services is well typed, whatever *)
(* overlaps, fails, hangs or lands late.                                   *)
THEOREM TypeCorrect == Spec => []TypeOK
<1> QED BY TypeInit, TypeStep, PTL DEF Spec

-----------------------------------------------------------------------------
(* The owner of busyApp.                                                   *)

(* Starting an operation leaves those under way with their kind and        *)
(* service.                                                                *)
LEMMA StartKeeps ==
  ASSUME TypeOK, NEW o \in Slots, NEW kind \in Kinds, NEW a \in Apps, NEW names \in Sets,
         Start(o, kind, a, names)
  PROVE  /\ ~UnderWay(o)
         /\ ops'[o] # None /\ ops'[o].kind = kind /\ ops'[o].app = a
         /\ \A p \in Slots : UnderWay(p) =>
              /\ ops'[p] # None
              /\ ops'[p].kind = ops[p].kind /\ ops'[p].app = ops[p].app
<1>1. \A op \in Op : op # None BY NoneAssumption
<1>2. \A p \in Slots : UnderWay(p) => ops[p] # None BY DEF UnderWay
<1>3. ASSUME NEW p \in Slots, UnderWay(p)
      PROVE  /\ ops'[p] # None
             /\ ops'[p].kind = ops[p].kind /\ ops'[p].app = ops[p].app
  <2>1. CASE Touches(kind) /\ Meets(p, a)
    BY <1>1, <1>3, <2>1, StartMeets
  <2>2. CASE ~(Touches(kind) /\ Meets(p, a))
    <3>1. ops'[p] = ops[p] BY <1>3, <2>2, StartLeaves
    <3> QED BY <1>2, <1>3, <3>1, Zenon
  <2> QED BY <2>1, <2>2
<1> QED BY <1>1, <1>3, Started

(* An operation stays what it is; only where it is may change.             *)
Same(o) ==
  /\ ops'[o] \in Op
  /\ ops'[o].kind = ops[o].kind /\ ops'[o].app = ops[o].app /\ ops'[o].names = ops[o].names
  /\ ops'[o].base = ops[o].base /\ ops'[o].alone = ops[o].alone
  /\ ops'[o].todo \subseteq ops[o].todo

(* Going on to another point changes nothing else of an operation,         *)
LEMMA GoesKeeps ==
  ASSUME TypeOK, NEW o \in Slots, UnderWay(o), NEW pc \in Pcs, Goes(o, pc)
  PROVE  /\ \A p \in Slots : p # o => ops'[p] = ops[p]
         /\ Same(o) /\ ops'[o].pc = pc /\ ops'[o].second = ops[o].second
         /\ ops'[o].todo = ops[o].todo /\ ops'[o].answer = ops[o].answer
<1>1. ops[o] \in Op BY DEF TypeOK, UnderWay
<1>2. ops'[o] = [ops[o] EXCEPT !.pc = pc] BY DEF TypeOK, Goes
<1>3. ops'[o] \in Op BY <1>1, <1>2, OpChanges DEF Sets, Lists
<1> QED BY <1>1, <1>2, <1>3 DEF TypeOK, Goes, Op, Same

(* an answer nothing else,                                                 *)
LEMMA AnswerKeeps ==
  ASSUME TypeOK, NEW o \in Slots, UnderWay(o), NEW pc \in Pcs, NEW l \in Lists,
         ops' = [ops EXCEPT ![o].pc = pc, ![o].answer = l]
  PROVE  /\ \A p \in Slots : p # o => ops'[p] = ops[p]
         /\ Same(o) /\ ops'[o].pc = pc /\ ops'[o].second = ops[o].second
         /\ ops'[o].todo = ops[o].todo /\ ops'[o].answer = l
<1>1. ops[o] \in Op BY DEF TypeOK, UnderWay
<1>2. ops'[o] = [ops[o] EXCEPT !.pc = pc, !.answer = l] BY DEF TypeOK
<1>3. [ops[o] EXCEPT !.pc = pc, !.answer = l] \in Op BY <1>1, OpChanges, Zenon
<1> QED BY <1>1, <1>2, <1>3 DEF TypeOK, Op, Same

(* a value of an edit that is stored only what is still to send,           *)
LEMMA PutKeeps ==
  ASSUME TypeOK, NEW o \in Slots, UnderWay(o), NEW n,
         ops' = [ops EXCEPT ![o].todo = @ \ {n},
                            ![o].pc = IF ops[o].todo = {n} THEN "answered" ELSE @]
  PROVE  /\ \A p \in Slots : p # o => ops'[p] = ops[p]
         /\ Same(o) /\ ops'[o].second = ops[o].second /\ ops'[o].answer = ops[o].answer
         /\ ops'[o].todo = ops[o].todo \ {n}
         /\ ops'[o].pc = IF ops[o].todo = {n} THEN "answered" ELSE ops[o].pc
<1>1. ops[o] \in Op BY DEF TypeOK, UnderWay
<1>2. PICK pc \in Pcs : pc = IF ops[o].todo = {n} THEN "answered" ELSE ops[o].pc
  BY <1>1, OpFields DEF Pcs
<1>3. PICK t \in Sets : t = ops[o].todo \ {n}
  BY <1>1, OpFields DEF Sets
<1>4. ops' = [ops EXCEPT ![o] = [ops[o] EXCEPT !.todo = t, !.pc = pc]]
  BY <1>2, <1>3 DEF TypeOK
<1>5. ops'[o] = [ops[o] EXCEPT !.todo = t, !.pc = pc] BY <1>4 DEF TypeOK
<1>6. [ops[o] EXCEPT !.todo = t, !.pc = pc] \in Op BY <1>1, OpChanges, Zenon
<1>7. /\ Same(o) /\ ops'[o].second = ops[o].second /\ ops'[o].answer = ops[o].answer
      /\ ops'[o].todo = t /\ ops'[o].pc = pc
  <2>1. ops'[o] \in Op BY <1>5, <1>6
  <2>2. /\ ops'[o].kind = ops[o].kind /\ ops'[o].app = ops[o].app
        /\ ops'[o].names = ops[o].names /\ ops'[o].base = ops[o].base
        /\ ops'[o].alone = ops[o].alone
        /\ ops'[o].second = ops[o].second /\ ops'[o].answer = ops[o].answer
        /\ ops'[o].todo = t /\ ops'[o].pc = pc
    <3> DEFINE new == [ops[o] EXCEPT !.todo = t, !.pc = pc]
    <3>1. /\ new.kind = ops[o].kind /\ new.app = ops[o].app /\ new.names = ops[o].names
          /\ new.base = ops[o].base /\ new.second = ops[o].second
          /\ new.answer = ops[o].answer
          /\ new.alone = ops[o].alone /\ new.todo = t /\ new.pc = pc
      BY <1>1 DEF Op
    <3>2. ops'[o] = new BY <1>5
    <3> HIDE DEF new
    <3> QED BY <3>1, <3>2
  <2> QED BY <2>1, <2>2, <1>3 DEF Same
<1>8. \A p \in Slots : p # o => ops'[p] = ops[p] BY <1>4 DEF TypeOK
<1> QED BY <1>2, <1>3, <1>7, <1>8

(* and the second request only says that it is the second.                 *)
LEMMA SecondKeeps ==
  ASSUME TypeOK, NEW o \in Slots, UnderWay(o),
         ops' = [ops EXCEPT ![o].second = TRUE, ![o].pc = "sent"]
  PROVE  /\ \A p \in Slots : p # o => ops'[p] = ops[p]
         /\ Same(o) /\ ops'[o].second = TRUE /\ ops'[o].pc = "sent"
         /\ ops'[o].todo = ops[o].todo /\ ops'[o].answer = ops[o].answer
<1>1. ops[o] \in Op BY DEF TypeOK, UnderWay
<1>2. ops'[o] = [ops[o] EXCEPT !.second = TRUE, !.pc = "sent"] BY DEF TypeOK
<1>3. ops'[o] \in Op BY <1>1, <1>2, OpChanges DEF Sets, Lists, Pcs
<1> QED BY <1>1, <1>2, <1>3 DEF TypeOK, Op, Same

(* A handler or failure moves one operation, which stays what it is or     *)
(* ends.                                                                   *)
LEMMA GoesOnKeeps ==
  ASSUME TypeOK, NEW o \in Slots, GoesOn(o) \/ Fails(o) \/ Hang(o)
  PROVE  /\ \A p \in Slots : p # o => ops'[p] = ops[p]
         /\ (Same(o) /\ busyApp' = busyApp) \/ Ends(o)
<1>0. UnderWay(o) BY AllUnderWay
<1>1. ops[o] \in Op /\ ops[o].app \in Apps /\ Sending(o) \in Kinds /\ ops[o].names \in Sets
  BY <1>0, OpFields, LateTyped DEF TypeOK, UnderWay
<1>2. CASE Handle(o)
  <2>1. CASE Accepts(Sending(o), ops[o].app, ops[o].names)
    <3>1. TakesEffect(Sending(o), ops[o].app, ops[o].names)
      BY <1>2, <2>1, Zenon DEF Handle
    <3>2. PICK l \in Lists :
            l = (IF Sending(o) \in {"load", "import"} THEN env'[ops[o].app] ELSE None)
      BY <1>1, <3>1, EffectTyped DEF Lists
    <3>3. ops' = [ops EXCEPT ![o].pc = "answered", ![o].answer = l]
      BY <1>2, <2>1, <3>2, Zenon DEF Handle
    <3> QED BY <1>0, <1>2, <3>3, AnswerKeeps DEF Handle, ConsoleStays, Pcs
  <2>2. CASE ~Accepts(Sending(o), ops[o].app, ops[o].names)
    BY <1>0, <1>2, <2>2, GoesKeeps DEF Handle, ConsoleStays, Pcs
  <2> QED BY <2>1, <2>2
<1>3. CASE HandleOneOf(o)
  <2> PICK n \in ops[o].todo :
       IF Accepts("put", ops[o].app, {n})
       THEN ops' = [ops EXCEPT ![o].todo = @ \ {n},
                         ![o].pc = IF ops[o].todo = {n} THEN "answered" ELSE @]
       ELSE Goes(o, "refused")
    BY <1>3 DEF HandleOneOf
  <2>1. CASE Goes(o, "refused")
    BY <1>0, <1>3, <2>1, GoesKeeps DEF HandleOneOf, ConsoleStays, Pcs
  <2>2. CASE ops' = [ops EXCEPT ![o].todo = @ \ {n},
                         ![o].pc = IF ops[o].todo = {n} THEN "answered" ELSE @]
    <3>1. Same(o) /\ \A p \in Slots : p # o => ops'[p] = ops[p]
      BY <1>0, <2>2, PutKeeps, Zenon
    <3> QED BY <1>3, <3>1 DEF HandleOneOf, ConsoleStays
  <2> QED BY <2>1, <2>2
<1>4. CASE Ends(o) BY <1>4 DEF Ends
<1>5. CASE ImportAnswered(o)
  <2>1. ops' = [ops EXCEPT ![o].pc = "refresh", ![o].answer = None]
    BY <1>5 DEF ImportAnswered
  <2> QED BY <1>0, <1>5, <2>1, AnswerKeeps DEF ImportAnswered, Pcs, Lists
<1>6. CASE Continues(o)
  BY <1>0, <1>6, SecondKeeps DEF Continues, ConsoleStays
<1>7. CASE Acknowledged(o)
  BY <1>0, <1>7, GoesKeeps DEF Acknowledged, Pcs
<1>8. CASE EndsInError(o)
  BY <1>0, <1>4, <1>8, GoesKeeps DEF EndsInError, Pcs
<1>9. CASE Fails(o) \/ Hang(o)
  BY <1>0, <1>9, GoesKeeps DEF Fails, Hang, Pcs, ConsoleStays
<1> QED BY <1>2, <1>3, <1>4, <1>5, <1>6, <1>7, <1>8, <1>9
        DEF GoesOn, LoadAnswered, VariableAnswered, Refreshed

(* No service is disabled when the console is opened.                      *)
LEMMA OwnerInit == Init => BusyHasOwner
BY DEF Init, BusyHasOwner

(* Whoever disables a service has just started something for it.           *)
LEMMA StartOwned ==
  ASSUME TypeOK, BusyHasOwner, NEW o \in Slots, NEW kind \in Kinds, NEW a \in Apps,
         NEW names \in Sets, Start(o, kind, a, names),
         busyApp' = busyApp \/ (busyApp' = a /\ ~Creates(kind)),
         TypeOK'
  PROVE  BusyHasOwner'
<1> SUFFICES ASSUME busyApp' # None
             PROVE  \E p \in Slots :
                       /\ ops'[p] # None /\ ops'[p].app = busyApp'
                       /\ ~Creates(ops'[p].kind)
  BY DEF BusyHasOwner, UnderWay
<1>1. \A p \in Slots : UnderWay(p) =>
         ops'[p] # None /\ ops'[p].kind = ops[p].kind /\ ops'[p].app = ops[p].app
  BY StartKeeps
<1>2. ops'[o] # None /\ ops'[o].kind = kind /\ ops'[o].app = a
  BY StartKeeps
<1>3. CASE busyApp' = busyApp
  BY <1>1, <1>3, Zenon DEF BusyHasOwner
<1> QED BY <1>2, <1>3

(* Every step leaves busyApp with an owner, or clear.                      *)
LEMMA OwnerStep ==
  TypeOK /\ BusyHasOwner /\ [Next]_vars => BusyHasOwner'
<1> SUFFICES ASSUME TypeOK, BusyHasOwner, [Next]_vars PROVE BusyHasOwner'
  OBVIOUS
<1>0. TypeOK' BY TypeStep
<1>1. ASSUME NEW o \in Slots, Begins(o) PROVE BusyHasOwner'
  <2>0. PICK a \in Apps :
      \/ OpenVariables(o, a)
      \/ \E names \in Files : ImportEnv(o, a, names) \/ CreateApp(o, a, "createEnv", names)
      \/ CreateApp(o, a, "create", {})
      \/ \E names \in Sets : SaveEnvChanges(o, a, names)
      \/ \E n \in Names : SaveEnvVar(o, a, n) \/ RemoveEnvVar(o, a, n)
      \/ \E kind \in Kinds : Request(o, a, kind)
    BY <1>1 DEF Begins
  <2>10. Files \subseteq Sets /\ {} \in Sets /\ \A n \in Names : {n} \in Sets
    BY FilesAssumption DEF Sets
  <2>1. CASE \E kind \in Kinds, names \in Sets :
               /\ Start(o, kind, a, names)
               /\ busyApp' = busyApp \/ (busyApp' = a /\ ~Creates(kind))
    <3> PICK kind \in Kinds, names \in Sets :
          /\ Start(o, kind, a, names)
          /\ busyApp' = busyApp \/ (busyApp' = a /\ ~Creates(kind))
      BY <2>1, Zenon
    <3> QED BY <1>0, StartOwned
  <2>2. CASE \E p \in Slots :
               /\ UnderWay(p) /\ ops[p].kind = "load" /\ ops[p].app = a
               /\ busyApp' = a /\ ops' = ops
    BY <2>2 DEF BusyHasOwner, UnderWay, Creates
  <2>3. CASE ops' = ops /\ busyApp' = busyApp
    BY <2>3 DEF BusyHasOwner, UnderWay
  <2>4. CASE OpenVariables(o, a)
    BY <2>10, <2>1, <2>2, <2>3, <2>4 DEF OpenVariables, Kinds, Creates
  <2>5. CASE \E names \in Files : ImportEnv(o, a, names) \/ CreateApp(o, a, "createEnv", names)
    BY <2>10, <2>1, <2>5 DEF ImportEnv, CreateApp, Kinds, Creates
  <2>6. CASE CreateApp(o, a, "create", {})
    BY <2>10, <2>1, <2>6 DEF CreateApp, Kinds
  <2>7. CASE \E names \in Sets : SaveEnvChanges(o, a, names)
    BY <2>10, <2>1, <2>7 DEF SaveEnvChanges, Kinds, Creates
  <2>8. CASE \E n \in Names : SaveEnvVar(o, a, n) \/ RemoveEnvVar(o, a, n)
    BY <2>10, <2>1, <2>8 DEF SaveEnvVar, RemoveEnvVar, Kinds, Creates
  <2>9. CASE \E kind \in Kinds : Request(o, a, kind)
    BY <2>10, <2>1, <2>9 DEF Request, Creates
  <2> QED BY <2>0, <2>4, <2>5, <2>6, <2>7, <2>8, <2>9
<1>2. ASSUME NEW o \in Slots, GoesOn(o) \/ Fails(o) \/ Hang(o) PROVE BusyHasOwner'
  <2>1. UnderWay(o) BY <1>2, AllUnderWay
  <2>2. \A p \in Slots : p # o => ops'[p] = ops[p]
    BY <1>2, GoesOnKeeps
  <2>3. CASE Same(o) /\ busyApp' = busyApp
    <3>1. ops'[o] # None /\ ops'[o].kind = ops[o].kind /\ ops'[o].app = ops[o].app
      BY <2>3, NoneAssumption DEF Same
    <3> QED BY <2>2, <2>3, <3>1 DEF BusyHasOwner, UnderWay
  <2>4. CASE Ends(o)
    BY <2>1, <2>2, <2>4 DEF BusyHasOwner, UnderWay, Ends, Releases
  <2> QED BY <1>2, <2>3, <2>4, GoesOnKeeps
<1>3. CASE LateLands
  BY <1>3 DEF LateLands, ConsoleStays, BusyHasOwner, UnderWay
<1>4. CASE UNCHANGED vars
  BY <1>4 DEF vars, BusyHasOwner, UnderWay
<1> QED BY <1>1, <1>2, <1>3, <1>4 DEF Next

(* The controls of a service are disabled only while an operation other    *)
(* than a creation is under way for it: no handler's way to its `finally'  *)
(* leaves busyApp behind (useManageController).                            *)
THEOREM BusyOwned == Spec => []BusyHasOwner
<1> QED BY TypeInit, TypeStep, OwnerInit, OwnerStep, PTL DEF Spec

-----------------------------------------------------------------------------
(* The lists of variables.                                                 *)

(* What a request that the platform may have handled may have changed.     *)
Pending(o) == IF ops[o].pc \in {"answered", "hung", "refused"} THEN Touched(o) ELSE {}
(* The names that the list of a service is right about, S left aside.      *)
Known(a, S) == Names \ (doubt[a] \cup S)
Agrees(a, S) ==
  a \in apps /\ envVars[a] # None
     => \A n \in Known(a, S) : n \in envVars[a] <=> n \in env[a]
(* A late request that can make nothing wrong that is known: the value of  *)
(* an edit is for a name that is listed, a deletion ends the service.      *)
Harmless(r, S) == envVars[r.app] # None =>
  /\ r.kind = "put" => r.names \cap Known(r.app, S) \subseteq envVars[r.app]
  /\ r.kind = "drop" => r.names \cap Known(r.app, S) = {}
  /\ r.kind = "import" => Known(r.app, S) = {}
  /\ r.kind # "create"
Right(a, S) == Agrees(a, S) /\ \A r \in late : r.app = a => Harmless(r, S)

(* What a handler is answered is what is stored, and the render that it    *)
(* closes over is not outdated.                                            *)
Answered(o, a) ==
  /\ ops[o].kind \in {"put", "drop"} => ops[o].base = envVars[a]
  /\ ops[o].pc = "answered" =>
       /\ Sending(o) \in {"load", "import"} => ops[o].answer = env[a]
       /\ ops[o].kind = "put" => ops[o].names \subseteq env[a]
       /\ ops[o].kind = "drop" => ops[o].names \cap env[a] = {}

(* What the handlers rely on.                                              *)
OpInv(o, a) ==
  /\ Answered(o, a)
  /\ (\E r \in late : r.app = a) => ops[o].kind = "edit" \/ ops[o].pc = "hung"
  /\ ops[o].kind = "edit" => /\ envVars[a] # None
                             /\ ops[o].names \subseteq envVars[a] \cup doubt[a]
  /\ ops[o].kind = "create" => envVars[a] = None
  /\ ops[o].kind = "createEnv" /\ ops[o].pc # "refresh" => envVars[a] = None
  /\ ops[o].kind = "delete" /\ ops[o].pc \in {"answered", "refresh"} => a \notin apps

(* Where something is known of a service: one operation at most, and what  *)
(* is shown is stored, but for what that operation may have changed.       *)
AppInv(a) == doubt[a] # Names =>
  /\ \A o, p \in Slots : Meets(o, a) /\ Meets(p, a) => o = p
  /\ (\A o \in Slots : ~Meets(o, a)) => Right(a, {})
  /\ \A o \in Slots : Meets(o, a) => Right(a, Pending(o)) /\ OpInv(o, a)

(* An operation that started alone, and has stayed so, will show what is   *)
(* stored, whatever was in doubt before it.                                *)
AloneInv(o, a) ==
  /\ Settles(ops[o].kind)
  /\ \A p \in Slots : Meets(p, a) => p = o
  /\ ops[o].pc \in {"sent", "answered"} => \A r \in late : r.app # a
  /\ Answered(o, a)
AloneHere(a) == \A o \in Slots : Meets(o, a) /\ ops[o].alone => AloneInv(o, a)

(* An edit sends only what it was given.                                   *)
TodoInv == \A o \in Slots : UnderWay(o) => ops[o].todo \subseteq ops[o].names

(* The inductive invariant of the lists.                                   *)
ListInv == TodoInv /\ \A a \in Apps : AppInv(a) /\ AloneHere(a)

(* A step that leaves what concerns a service as it is.                    *)
DataSame(a) ==
  /\ a \in apps' <=> a \in apps
  /\ env'[a] = env[a] /\ envVars'[a] = envVars[a] /\ doubt'[a] = doubt[a]
  /\ \A r : r.app = a => (r \in late' <=> r \in late)
SlotsSame(a) == \A p \in Slots : Meets(p, a) \/ Meets(p, a)' => ops'[p] = ops[p]

(* Such a step keeps what the invariant says of the service.               *)
LEMMA Frame ==
  ASSUME NEW a \in Apps, AppInv(a), AloneHere(a), DataSame(a), SlotsSame(a)
  PROVE  AppInv(a)' /\ AloneHere(a)'
<1>1. \A p \in Slots : Meets(p, a)' <=> Meets(p, a)
  BY DEF SlotsSame, Meets, UnderWay
<1>2. \A p \in Slots : Meets(p, a) => ops'[p] = ops[p]
  BY DEF SlotsSame
<1>3. \A p \in Slots : Meets(p, a) => Sending(p)' = Sending(p) /\ Pending(p)' = Pending(p)
  BY <1>2 DEF Sending, InParallel, Pending, Touched
<1>4. \A S : Known(a, S)' = Known(a, S) BY DEF Known, DataSame
<1>5. \A S : Right(a, S) => Right(a, S)'
  BY <1>4 DEF Right, Agrees, Harmless, DataSame
<1>6. \A p \in Slots : Meets(p, a) => (Answered(p, a)' <=> Answered(p, a))
  BY <1>2, <1>3 DEF Answered, DataSame
<1>7. \A p \in Slots : Meets(p, a) /\ OpInv(p, a) => OpInv(p, a)'
  BY <1>2, <1>3, <1>6 DEF OpInv, DataSame
<1>8. AppInv(a)'
  <2> SUFFICES ASSUME doubt'[a] # Names PROVE AppInv(a)'
    BY DEF AppInv
  <2>1. /\ \A o, p \in Slots : Meets(o, a) /\ Meets(p, a) => o = p
        /\ (\A o \in Slots : ~Meets(o, a)) => Right(a, {})
        /\ \A o \in Slots : Meets(o, a) => Right(a, Pending(o)) /\ OpInv(o, a)
    BY DEF AppInv, DataSame
  <2>2. (\A o \in Slots : ~Meets(o, a)) => Right(a, {})'
    BY <1>5, <2>1
  <2>3. \A o \in Slots : Meets(o, a) => Right(a, Pending(o))' /\ OpInv(o, a)'
    <3> TAKE o \in Slots
    <3> HAVE Meets(o, a)
    <3>1. PICK S : S = Pending(o) OBVIOUS
    <3>2. Right(a, S)' BY <1>5, <2>1, <3>1
    <3>3. S = Pending(o)' BY <1>3, <3>1
    <3>4. Right(a, Pending(o))' BY <3>2, <3>3 DEF Right, Agrees, Harmless, Known
    <3> QED BY <1>7, <2>1, <3>4
  <2> QED BY <1>1, <2>1, <2>2, <2>3 DEF AppInv
<1>9. \A p \in Slots : Meets(p, a) => (AloneInv(p, a)' <=> AloneInv(p, a))
  BY <1>1, <1>2, <1>6 DEF AloneInv, DataSame
<1>10. AloneHere(a)'
  BY <1>1, <1>2, <1>9 DEF AloneHere
<1> QED BY <1>8, <1>10

(* Where one operation at most is under way on a service.                  *)
OneInv(o, a) == IF Meets(o, a) THEN Right(a, Pending(o)) /\ OpInv(o, a)
                               ELSE Right(a, {})

(* Where something is known of a service there is one at most,             *)
LEMMA OneBefore ==
  ASSUME NEW o \in Slots, NEW a \in Apps, AppInv(a), Meets(o, a), doubt[a] # Names
  PROVE  OneInv(o, a) /\ \A p \in Slots : p # o => ~Meets(p, a)
BY DEF AppInv, OneInv

(* so that it is enough to speak of one,                                   *)
LEMMA OneAfter ==
  ASSUME NEW o \in Slots, NEW a \in Apps,
         doubt'[a] # Names => OneInv(o, a)' /\ \A p \in Slots : p # o => ~Meets(p, a)'
  PROVE  AppInv(a)'
<1> SUFFICES ASSUME doubt'[a] # Names PROVE AppInv(a)'
  BY DEF AppInv
<1>1. \A p \in Slots : Meets(p, a)' => p = o OBVIOUS
<1>2. \A p \in Slots : Meets(p, a)' => Right(a, Pending(p))' /\ OpInv(p, a)'
  BY <1>1 DEF OneInv
<1>3. (\A p \in Slots : ~Meets(p, a)') => Right(a, {})'
  BY DEF OneInv
<1> QED BY <1>1, <1>2, <1>3 DEF AppInv

(* and an operation that is alone is the only one.                         *)
LEMMA AloneAfter ==
  ASSUME NEW o \in Slots, NEW a \in Apps, AloneHere(a), Meets(o, a),
         \A p \in Slots : p # o => ops'[p] = ops[p],
         Meets(o, a)' /\ ops'[o].alone =>
            ops[o].alone /\ (AloneInv(o, a) => AloneInv(o, a)')
  PROVE  AloneHere(a)'
<1> SUFFICES ASSUME NEW p \in Slots, Meets(p, a)', ops'[p].alone PROVE AloneInv(p, a)'
  BY DEF AloneHere
<1>1. CASE p = o BY <1>1 DEF AloneHere
<1>2. CASE p # o
  <2>1. Meets(p, a) /\ ops[p].alone BY <1>2 DEF Meets, UnderWay
  <2> QED BY <1>2, <2>1 DEF AloneHere, AloneInv
<1> QED BY <1>1, <1>2

(* An operation that stays what it is meets what it met.                   *)
LEMMA SameMeets ==
  ASSUME TypeOK, NEW o \in Slots, UnderWay(o), Same(o), NEW a \in Apps
  PROVE  Meets(o, a)' <=> Meets(o, a)
BY NoneAssumption DEF Same, Meets, UnderWay

(* The services that an operation does not meet are as they were.          *)
LEMMA OthersFramed ==
  ASSUME TypeOK, NEW o \in Slots, GoesOn(o) \/ Fails(o) \/ Hang(o),
         NEW a \in Apps, ~Meets(o, a), DataSame(a), AppInv(a), AloneHere(a)
  PROVE  AppInv(a)' /\ AloneHere(a)'
<1>1. UnderWay(o) BY AllUnderWay
<1>2. ~Meets(o, a)'
  <2>1. CASE Same(o) BY <1>1, <2>1, SameMeets
  <2>2. CASE Ends(o) BY <2>2 DEF Ends, Meets, UnderWay, TypeOK
  <2> QED BY <2>1, <2>2, GoesOnKeeps
<1>3. SlotsSame(a) BY <1>2, GoesOnKeeps DEF SlotsSame
<1> QED BY <1>3, Frame

(* Starting an operation keeps the invariant: it puts in doubt what it     *)
(* meets.                                                                  *)
LEMMA StartLists ==
  ASSUME TypeOK, ListInv, NEW o \in Slots, NEW kind \in Kinds, NEW a \in Apps,
         NEW names \in Sets, Start(o, kind, a, names),
         kind = "edit" => envVars[a] # None
  PROVE  ListInv'
<1>1. \A op \in Op : op # None BY NoneAssumption
<1>2. \A p \in Slots : UnderWay(p) => ops[p] # None BY DEF UnderWay
<1>3. /\ ~UnderWay(o) /\ ops'[o] \in Op /\ ops'[o] # None
      /\ ops'[o].kind = kind /\ ops'[o].app = a /\ ops'[o].names = names
      /\ ops'[o].base = (IF kind \in {"put", "drop"} THEN envVars[a] ELSE None)
      /\ ops'[o].todo = (IF kind = "edit" THEN names ELSE {})
      /\ ops'[o].second = FALSE /\ ops'[o].pc = "sent"
      /\ ops'[o].alone => Settles(kind) /\ ~Met(a)
  BY <1>1, Started
<1>4. \A p \in Slots : UnderWay(p) =>
        /\ ops'[p] # None /\ ops'[p].kind = ops[p].kind /\ ops'[p].app = ops[p].app
        /\ ops'[p].names = ops[p].names /\ ops'[p].todo = ops[p].todo
        /\ (Touches(kind) /\ Meets(p, a)) \/ ops'[p] = ops[p]
        /\ Touches(kind) /\ Meets(p, a) => ops'[p].alone = FALSE
  <2> TAKE p \in Slots
  <2> HAVE UnderWay(p)
  <2>1. CASE Touches(kind) /\ Meets(p, a)
    <3>1. /\ ops'[p] \in Op /\ ops'[p].alone = FALSE
          /\ ops'[p].kind = ops[p].kind /\ ops'[p].app = ops[p].app
          /\ ops'[p].names = ops[p].names /\ ops'[p].todo = ops[p].todo
      BY <2>1, StartMeets
    <3> QED BY <1>1, <2>1, <3>1, Zenon
  <2>2. CASE ~(Touches(kind) /\ Meets(p, a))
    <3>1. ops'[p] = ops[p] BY <2>2, StartLeaves
    <3> QED BY <1>2, <2>2, <3>1, Zenon
  <2> QED BY <2>1, <2>2
<1>5. \A p \in Slots : ~UnderWay(p) /\ p # o => ops'[p] = None
  BY Started
<1>6. TodoInv'
  BY <1>3, <1>4, <1>5 DEF TodoInv, ListInv, UnderWay
<1>9. doubt' \in [Apps -> Sets]
  <2>1. Doubts(kind, a, names) \in Sets BY DEF Doubts, TypeOK, Sets
  <2> QED BY <2>1 DEF Start, TypeOK
<1>7. ASSUME NEW b \in Apps PROVE AppInv(b)' /\ AloneHere(b)'
  <2>1. AppInv(b) /\ AloneHere(b) BY DEF ListInv
  <2>2. CASE b # a \/ ~Touches(kind)
    <3>1. DataSame(b)
      <4>1. CASE b # a BY <4>1 DEF DataSame, Start, platformVars, TypeOK
      <4>2. CASE b = a /\ ~Touches(kind)
        <5>1. Doubts(kind, a, names) = doubt[a]
          BY <4>2 DEF Doubts, Touches, Creates
        <5>2. doubt'[a] = doubt[a] BY <5>1 DEF Start, TypeOK
        <5> QED BY <4>2, <5>2 DEF DataSame, Start, platformVars
      <4> QED BY <2>2, <4>1, <4>2
    <3>2. SlotsSame(b)
      BY <1>3, <1>4, <1>5, <2>2 DEF SlotsSame, Meets, UnderWay
    <3> QED BY <2>1, <3>1, <3>2, Frame
  <2>3. CASE b = a /\ Touches(kind)
    <3>1. AloneHere(a)'
      <4> SUFFICES ASSUME NEW p \in Slots, Meets(p, a)', ops'[p].alone
                   PROVE  AloneInv(p, a)'
        BY DEF AloneHere
      <4>1. p = o BY <1>3, <1>4, <1>5, <2>3 DEF Meets, UnderWay
      <4>2. Settles(kind) /\ ~Met(a) BY <1>3, <4>1
      <4>3. \A q \in Slots : Meets(q, a)' => q = o
        BY <1>4, <1>5, <4>2 DEF Met, Meets, UnderWay
      <4>4. \A r \in late' : r.app # a
        BY <4>2 DEF Met, Start, platformVars
      <4>5. Answered(o, a)' BY <1>3 DEF Answered, Start
      <4> QED BY <1>3, <4>1, <4>2, <4>3, <4>4, <4>5 DEF AloneInv
    <3>2. ASSUME doubt'[a] # Names
          PROVE  OneInv(o, a)' /\ \A p \in Slots : p # o => ~Meets(p, a)'
      <4>0. doubt'[a] = Doubts(kind, a, names) BY DEF Start, TypeOK
      <4>1. ~Met(a) /\ (Creates(kind) => envVars[a] = None) /\ doubt[a] \subseteq doubt'[a]
            /\ (kind = "edit" => names \subseteq envVars[a] \cup doubt'[a])
        BY <2>3, <3>2, <4>0 DEF Doubts, Creates
      <4>2. doubt[a] # Names /\ doubt'[a] \subseteq Names
        BY <1>9, <3>2, <4>1 DEF TypeOK, Sets
      <4>3. \A q \in Slots : ~Meets(q, a)
        BY <4>1 DEF Met
      <4>4. \A q \in Slots : q # o => ~Meets(q, a)'
        BY <1>4, <1>5, <4>3 DEF Meets, UnderWay
      <4>5. Right(a, {}) BY <2>1, <2>3, <4>2, <4>3 DEF AppInv
      <4>6. \A r \in late' : r.app # a
        BY <4>1 DEF Met, Start, platformVars
      <4>7. Right(a, {})'
        BY <4>1, <4>5, <4>6 DEF Right, Agrees, Known, Start, platformVars
      <4>8. Answered(o, a)' BY <1>3 DEF Answered, Start
      <4>9. OpInv(o, a)'
        BY <1>3, <4>1, <4>6, <4>8 DEF OpInv, Creates, Start
      <4>10. Pending(o)' = {} BY <1>3 DEF Pending
      <4>11. Right(a, Pending(o))' BY <4>7, <4>10 DEF Right, Agrees, Harmless, Known
      <4> QED BY <4>4, <4>7, <4>9, <4>11 DEF OneInv
    <3> QED BY <2>3, <3>1, <3>2, OneAfter
  <2> QED BY <2>2, <2>3
<1> QED BY <1>6, <1>7 DEF ListInv

(* What an edit has still to send is among what it was given.              *)
LEMMA TodoStep ==
  ASSUME TypeOK, TodoInv, NEW o \in Slots, GoesOn(o) \/ Fails(o) \/ Hang(o)
  PROVE  TodoInv'
<1>1. UnderWay(o) BY AllUnderWay
<1>2. CASE Same(o)
  BY <1>1, <1>2, GoesOnKeeps DEF Same, TodoInv, UnderWay
<1>3. CASE Ends(o)
  BY <1>3, GoesOnKeeps DEF Ends, TodoInv, UnderWay, TypeOK
<1> QED BY <1>2, <1>3, GoesOnKeeps

(* A step is right if it is right for the service of its operation,        *)
LEMMA StepLists ==
  ASSUME TypeOK, ListInv, NEW o \in Slots, GoesOn(o) \/ Fails(o) \/ Hang(o),
         \A b \in Apps : ~Meets(o, b) => DataSame(b),
         \A a \in Apps : Meets(o, a) => AppInv(a)' /\ AloneHere(a)'
  PROVE  ListInv'
BY OthersFramed, TodoStep DEF ListInv

(* and for that if it is right for the operation itself.                   *)
LEMMA OneStep ==
  ASSUME TypeOK, NEW o \in Slots, GoesOn(o) \/ Fails(o) \/ Hang(o),
         NEW a \in Apps, AppInv(a), AloneHere(a), Meets(o, a),
         doubt[a] # Names /\ doubt'[a] # Names /\ OneInv(o, a) => OneInv(o, a)',
         doubt[a] = Names /\ doubt'[a] # Names =>
            OneInv(o, a)' /\ \A p \in Slots : p # o => ~Meets(p, a),
         Meets(o, a)' /\ ops'[o].alone =>
            ops[o].alone /\ (AloneInv(o, a) => AloneInv(o, a)')
  PROVE  AppInv(a)' /\ AloneHere(a)'
<1>1. \A p \in Slots : p # o => ops'[p] = ops[p] BY GoesOnKeeps
<1>2. \A p \in Slots : p # o => (Meets(p, a)' <=> Meets(p, a))
  BY <1>1 DEF Meets, UnderWay
<1>3. AloneHere(a)' BY <1>1, AloneAfter
<1>4. doubt'[a] # Names => OneInv(o, a)' /\ \A p \in Slots : p # o => ~Meets(p, a)'
  BY <1>2, OneBefore
<1> QED BY <1>3, <1>4, OneAfter

(* The same call is sending the same request.                              *)
LEMMA SameCall ==
  ASSUME NEW o \in Slots, Same(o), ops'[o].second = ops[o].second
  PROVE  /\ Sending(o)' = Sending(o) /\ NextList(o)' = NextList(o)
         /\ InParallel(o)' <=> InParallel(o)
         /\ Touched(o)' = Touched(o)
BY DEF Same, Sending, NextList, InParallel, Touched

(* A handler or a failure goes on to another point: what is right but for  *)
(* the request stays so.                                                   *)
LEMMA Moves ==
  ASSUME TypeOK, ListInv, NEW o \in Slots, GoesOn(o) \/ Fails(o) \/ Hang(o), Same(o),
         \A b \in Apps : ~Meets(o, b) => DataSame(b),
         NEW a \in Apps, a = ops[o].app,
         doubt[a] \subseteq doubt'[a], doubt'[a] \subseteq Names,
         ops'[o].pc \in {"sent", "answered"} =>
            late' = late /\ ops[o].pc \in {"sent", "answered"},
         Meets(o, a) /\ Answered(o, a) => Answered(o, a)',
         Meets(o, a) /\ doubt'[a] # Names /\ Right(a, Pending(o)) /\ OpInv(o, a)
            /\ Answered(o, a)' => Right(a, Pending(o))' /\ OpInv(o, a)'
  PROVE  ListInv'
<1>0. UnderWay(o) BY AllUnderWay
<1>1. ASSUME NEW b \in Apps, Meets(o, b) PROVE AppInv(b)' /\ AloneHere(b)'
  <2>1. b = a BY <1>1 DEF Meets
  <2>2. Meets(o, a)' BY <1>0, <1>1, <2>1, SameMeets
  <2>3. doubt'[a] # Names => doubt[a] # Names OBVIOUS
  <2>4. doubt'[a] # Names /\ OneInv(o, a) => OneInv(o, a)'
    BY <1>1, <2>1, <2>2 DEF OneInv, OpInv
  <2>5. \A p \in Slots : p # o => ops'[p] = ops[p] BY GoesOnKeeps
  <2>6. \A p \in Slots : p # o => (Meets(p, a)' <=> Meets(p, a))
    BY <2>5 DEF Meets, UnderWay
  <2>7. ops'[o].alone => ops[o].alone /\ (AloneInv(o, a) => AloneInv(o, a)')
    BY <1>1, <2>1, <2>6 DEF AloneInv, Same
  <2> QED BY <1>1, <2>1, <2>3, <2>4, <2>7, OneStep DEF ListInv
<1> QED BY <1>1, StepLists

(* An operation ends: what it leaves is right, but for what is in doubt.   *)
LEMMA EndsLists ==
  ASSUME TypeOK, ListInv, NEW o \in Slots, GoesOn(o), Ends(o),
         \A b \in Apps : ~Meets(o, b) => DataSame(b),
         \A a \in Apps :
            /\ Meets(o, a) /\ doubt'[a] # Names
            /\ doubt[a] # Names => Right(a, Pending(o)) /\ OpInv(o, a)
            /\ ops[o].alone => AloneInv(o, a)
            => (doubt[a] # Names \/ ops[o].alone) /\ Right(a, {})'
  PROVE  ListInv'
<1>1. ASSUME NEW a \in Apps, Meets(o, a) PROVE AppInv(a)' /\ AloneHere(a)'
  <2>1. ~Meets(o, a)' BY DEF Ends, Meets, UnderWay, TypeOK
  <2>2. AppInv(a) /\ AloneHere(a) BY DEF ListInv
  <2>3. ops[o].alone => AloneInv(o, a) BY <1>1, <2>2 DEF AloneHere
  <2>4. doubt[a] # Names => Right(a, Pending(o)) /\ OpInv(o, a)
    BY <1>1, <2>2 DEF AppInv
  <2>5. doubt'[a] # Names => (doubt[a] # Names \/ ops[o].alone) /\ Right(a, {})'
    BY <1>1, <2>3, <2>4
  <2>6. doubt'[a] # Names => OneInv(o, a)' BY <2>1, <2>5 DEF OneInv
  <2>7. doubt[a] = Names /\ doubt'[a] # Names => \A p \in Slots : p # o => ~Meets(p, a)
    BY <1>1, <2>3, <2>5 DEF AloneInv
  <2> QED BY <1>1, <2>1, <2>2, <2>6, <2>7, OneStep
<1> QED BY <1>1, StepLists

(* A request changes nothing that is listed and known but what it may      *)
(* touch.                                                                  *)
LEMMA EffectRight ==
  ASSUME TypeOK, NEW o \in Slots, NEW a \in Apps, Meets(o, a), ~InParallel(o),
         TakesEffect(Sending(o), a, ops[o].names), UNCHANGED envVars,
         OpInv(o, a), ops[o].pc = "sent", Agrees(a, {})
  PROVE  a \in apps' /\ envVars[a] # None
            => \A n \in Known(a, Touched(o)) : n \in envVars[a] <=> n \in env'[a]
<1>1. UnderWay(o) BY DEF Meets
<1>2. /\ ops[o] \in Op /\ ops[o].names \in Sets /\ Sending(o) \in Kinds
  BY <1>1, OpFields, LateTyped DEF TypeOK, UnderWay
<1>3. /\ env'[a] = EnvAfter(Sending(o), a, ops[o].names)
  BY <1>2, EffectTyped
<1> SUFFICES ASSUME a \in apps', envVars[a] # None,
                    NEW n \in Known(a, Touched(o))
             PROVE  n \in envVars[a] <=> n \in env'[a]
  OBVIOUS
<1>4. Sending(o) # "create"
  BY DEF OpInv, Sending
<1>5. Sending(o) # "delete" /\ a \in apps
  BY <1>4 DEF TakesEffect
<1>6. n \in Known(a, {}) /\ n \notin Touched(o) /\ n \in Names
  BY DEF Known
<1>7. n \in envVars[a] <=> n \in env[a] BY <1>5, <1>6 DEF Agrees
<1>8. CASE Sending(o) \in {"put", "drop"}
  BY <1>3, <1>6, <1>7, <1>8 DEF EnvAfter, Touched
<1>9. CASE Sending(o) = "import"
  BY <1>6, <1>9 DEF Touched
<1>10. CASE Sending(o) \notin {"put", "drop", "import"}
  BY <1>3, <1>4, <1>5, <1>7, <1>10 DEF EnvAfter
<1> QED BY <1>8, <1>9, <1>10

(* It concerns one service, and none if it only asks.                      *)
LEMMA EffectFramed ==
  ASSUME TypeOK, NEW o \in Slots, UnderWay(o),
         \/ UNCHANGED <<apps, env>>
         \/ TakesEffect(Sending(o), ops[o].app, ops[o].names)
         \/ \E n : TakesEffect("put", ops[o].app, {n}) /\ Touches(ops[o].kind),
         UNCHANGED <<envVars, doubt>>,
         \A r : r.app # ops[o].app \/ ~Touches(ops[o].kind) => (r \in late' <=> r \in late)
  PROVE  \A b \in Apps : ~Meets(o, b) => DataSame(b)
<1>1. ops[o] \in Op /\ ops[o].app \in Apps BY OpFields DEF TypeOK, UnderWay
<1> TAKE b \in Apps
<1> HAVE ~Meets(o, b)
<1>2. b # ops[o].app \/ ~Touches(ops[o].kind) BY DEF Meets
<1>3. (b \in apps' <=> b \in apps) /\ env'[b] = env[b]
  <2>1. CASE b # ops[o].app
    BY <1>1, <2>1 DEF TakesEffect, TypeOK
  <2>2. CASE ~Touches(ops[o].kind)
    BY <1>1, <2>2 DEF TakesEffect, EnvAfter, TypeOK, Sending, Touches
  <2> QED BY <1>2, <2>1, <2>2
<1> QED BY <1>2, <1>3 DEF DataSame

(* The platform handles a request, refuses it, or answers an error whether *)
(* or not it is done (Handle, Fails).                                      *)
LEMMA HandleLists ==
  ASSUME TypeOK, ListInv, NEW o \in Slots, Handle(o) \/ (Fails(o) /\ ~InParallel(o))
  PROVE  ListInv'
<1>0. UnderWay(o) /\ (GoesOn(o) \/ Fails(o)) BY AllUnderWay DEF GoesOn
<1>1. ops[o] \in Op BY <1>0 DEF TypeOK, UnderWay
<1>2. /\ ops[o].app \in Apps /\ ops[o].kind \in Kinds /\ ops[o].names \in Sets
      /\ Sending(o) \in Kinds /\ ops[o].pc = "sent" /\ ~InParallel(o)
  BY <1>0, <1>1, OpFields, LateTyped DEF Handle, Fails, At
<1>3. UNCHANGED <<envVars, doubt, late>>
  BY DEF Handle, Fails, ConsoleStays
<1> PICK a \in Apps : a = ops[o].app BY <1>2
<1>4. \/ UNCHANGED <<apps, env>> /\ Goes(o, "refused")
      \/ TakesEffect(Sending(o), a, ops[o].names) /\ Goes(o, "refused")
      \/ /\ TakesEffect(Sending(o), a, ops[o].names)
         /\ ops' = [ops EXCEPT ![o].pc = "answered", ![o].answer =
                          IF Sending(o) \in {"load", "import"} THEN env'[a] ELSE None]
  <2>1. CASE Handle(o)
    <3>1. CASE Accepts(Sending(o), ops[o].app, ops[o].names) BY <2>1, <3>1, Zenon DEF Handle
    <3>2. CASE ~Accepts(Sending(o), ops[o].app, ops[o].names) BY <2>1, <3>2, Zenon DEF Handle
    <3> QED BY <3>1, <3>2
  <2>2. CASE Fails(o) /\ ~InParallel(o)
    BY <2>2, Zenon DEF Fails, DoneAllTheSame
  <2> QED BY <2>1, <2>2
<1>5. /\ Same(o) /\ ops'[o].second = ops[o].second
      /\ \/ ops'[o].pc = "refused"
         \/ /\ ops'[o].pc = "answered" /\ TakesEffect(Sending(o), a, ops[o].names)
            /\ Sending(o) \in {"load", "import"} => ops'[o].answer = env'[a]
  <2>1. CASE Goes(o, "refused") BY <1>0, <2>1, GoesKeeps DEF Pcs
  <2>2. CASE /\ TakesEffect(Sending(o), a, ops[o].names)
             /\ ops' = [ops EXCEPT ![o].pc = "answered", ![o].answer =
                          IF Sending(o) \in {"load", "import"} THEN env'[a] ELSE None]
    <3>1. env'[a] \in Sets BY <1>2, <2>2, EffectTyped
    <3>2. PICK l \in Lists : l = (IF Sending(o) \in {"load", "import"} THEN env'[a] ELSE None)
      BY <3>1 DEF Lists
    <3>3. ops' = [ops EXCEPT ![o].pc = "answered", ![o].answer = l]
      BY <2>2, <3>2, Zenon
    <3>4. Same(o) /\ ops'[o].second = ops[o].second /\ ops'[o].pc = "answered"
          /\ ops'[o].answer = l
      BY <1>0, <3>3, AnswerKeeps DEF Pcs
    <3>5. TakesEffect(Sending(o), a, ops[o].names) BY <2>2
    <3>6. Sending(o) \in {"load", "import"} => l = env'[a] BY <3>2
    <3> QED BY <3>4, <3>5, <3>6, Zenon
  <2> QED BY <1>4, <2>1, <2>2
<1>6. \A b \in Apps : ~Meets(o, b) => DataSame(b)
  BY <1>0, <1>3, <1>4, EffectFramed
<1>7. /\ Sending(o)' = Sending(o) /\ Pending(o)' = Touched(o) /\ Pending(o) = {}
  BY <1>2, <1>5, SameCall DEF Pending
<1>8. Meets(o, a) /\ Answered(o, a) => Answered(o, a)'
  <2>1. TakesEffect(Sending(o), a, ops[o].names)
           => env'[a] = EnvAfter(Sending(o), a, ops[o].names)
    BY <1>2, EffectTyped
  <2>2. /\ TakesEffect(Sending(o), a, ops[o].names) /\ ops[o].kind = "put"
             => ops[o].names \subseteq env'[a]
        /\ TakesEffect(Sending(o), a, ops[o].names) /\ ops[o].kind = "drop"
             => ops[o].names \cap env'[a] = {}
    BY <2>1 DEF EnvAfter, Sending
  <2> QED BY <1>3, <1>5, <1>7, <2>2 DEF Answered, Same
<1>9. ASSUME Meets(o, a), Right(a, Pending(o)), OpInv(o, a), Answered(o, a)'
      PROVE  Right(a, Pending(o))' /\ OpInv(o, a)'
  <2>1. Right(a, {}) /\ Agrees(a, {}) BY <1>7, <1>9 DEF Right
  <2>2. a \in apps' /\ envVars[a] # None
            => \A n \in Known(a, Touched(o)) : n \in envVars[a] <=> n \in env'[a]
    <3>1. CASE UNCHANGED <<apps, env>> BY <2>1, <3>1 DEF Agrees, Known
    <3>2. CASE TakesEffect(Sending(o), a, ops[o].names)
      BY <1>2, <1>3, <1>9, <2>1, <3>2, EffectRight
    <3> QED BY <1>4, <3>1, <3>2
  <2>3. \A S : Known(a, S)' = Known(a, S) BY <1>3 DEF Known
  <2>4. Agrees(a, Pending(o))'
    BY <1>3, <1>7, <2>2, <2>3 DEF Agrees
  <2>5. \A r \in late : r.app = a => Harmless(r, Touched(o))
    BY <2>1 DEF Right, Harmless, Known
  <2>6. Right(a, Pending(o))'
    BY <1>3, <1>7, <2>4, <2>5 DEF Right, Harmless, Known
  <2>7. ops[o].kind = "delete" /\ TakesEffect(Sending(o), a, ops[o].names) => a \notin apps'
    BY DEF TakesEffect, Sending
  <2>8. OpInv(o, a)'
    BY <1>2, <1>3, <1>5, <1>9, <2>7 DEF OpInv, Same
  <2> QED BY <2>6, <2>8
<1>10. doubt[a] \subseteq doubt'[a] /\ doubt'[a] \subseteq Names
  BY <1>3 DEF TypeOK, Sets
<1> QED BY <1>0, <1>2, <1>3, <1>5, <1>6, <1>8, <1>9, <1>10, Moves

(* It handles one value of an edit, or fails to: the name is listed, or in *)
(* doubt, and so are those of the others, which may land late              *)
(* (HandleOneOf, Fails).                                                   *)
LEMMA HandleOneOfLists ==
  ASSUME TypeOK, ListInv, NEW o \in Slots, HandleOneOf(o) \/ (Fails(o) /\ InParallel(o))
  PROVE  ListInv'
<1>0. UnderWay(o) /\ (GoesOn(o) \/ Fails(o)) BY AllUnderWay DEF GoesOn
<1>1. ops[o] \in Op BY <1>0 DEF TypeOK, UnderWay
<1>2. /\ ops[o].app \in Apps /\ ops[o].names \in Sets /\ ops[o].pc = "sent"
      /\ ops[o].kind = "edit" /\ ops[o].second = FALSE /\ ops[o].todo \subseteq ops[o].names
  BY <1>0, <1>1, OpFields DEF HandleOneOf, Fails, At, InParallel, ListInv, TodoInv
<1>3. UNCHANGED <<envVars, doubt>>
  BY DEF HandleOneOf, Fails, ConsoleStays
<1> PICK a \in Apps : a = ops[o].app BY <1>2
<1>4. PICK n \in ops[o].todo :
        /\ UNCHANGED <<apps, env>> \/ (a \in apps /\ TakesEffect("put", a, {n}))
        /\ \/ Goes(o, "refused") /\ late' = late \cup Others(o, n)
           \/ /\ late' = late
              /\ ops' = [ops EXCEPT ![o].todo = @ \ {n},
                         ![o].pc = IF ops[o].todo = {n} THEN "answered" ELSE @]
  <2>1. CASE HandleOneOf(o)
    <3>1. PICK n \in ops[o].todo :
       IF Accepts("put", ops[o].app, {n})
       THEN /\ TakesEffect("put", ops[o].app, {n})
            /\ ops' = [ops EXCEPT ![o].todo = @ \ {n},
                         ![o].pc = IF ops[o].todo = {n} THEN "answered" ELSE @]
            /\ UNCHANGED late
       ELSE /\ Goes(o, "refused") /\ UNCHANGED <<apps, env>>
            /\ late' = late \cup Others(o, n)
      BY <2>1, Zenon DEF HandleOneOf
    <3>2. Accepts("put", a, {n}) => a \in apps BY DEF Accepts
    <3>3. CASE Accepts("put", a, {n}) BY <3>1, <3>2, <3>3, Zenon
    <3>4. CASE ~Accepts("put", a, {n}) BY <3>1, <3>4, Zenon
    <3> QED BY <3>3, <3>4
  <2>2. CASE Fails(o) /\ InParallel(o)
    BY <2>2, Zenon DEF Fails, DoneAllTheSame, Accepts
  <2> QED BY <2>1, <2>2
<1>5. /\ Same(o) /\ ops'[o].second = ops[o].second
      /\ \/ ops'[o].pc = "refused" /\ late' = late \cup Others(o, n)
         \/ ops'[o].pc \in {"sent", "answered"} /\ late' = late
  <2>1. CASE Goes(o, "refused") /\ late' = late \cup Others(o, n)
    BY <1>0, <2>1, GoesKeeps DEF Pcs
  <2>2. CASE /\ late' = late
             /\ ops' = [ops EXCEPT ![o].todo = @ \ {n},
                         ![o].pc = IF ops[o].todo = {n} THEN "answered" ELSE @]
    <3>1. /\ Same(o) /\ ops'[o].second = ops[o].second
          /\ ops'[o].pc = IF ops[o].todo = {n} THEN "answered" ELSE ops[o].pc
      BY <1>0, <2>2, PutKeeps
    <3> QED BY <1>2, <2>2, <3>1
  <2> QED BY <1>4, <2>1, <2>2
<1>6. \A r \in Others(o, n) : r.app = a /\ r.kind = "put" /\ r.names \subseteq ops[o].names
  BY <1>2 DEF Others
<1>7. Touches(ops[o].kind) BY <1>2 DEF Touches
<1>8. \A b \in Apps : ~Meets(o, b) => DataSame(b)
  <2>1. \A r : r.app # ops[o].app \/ ~Touches(ops[o].kind) => (r \in late' <=> r \in late)
    BY <1>5, <1>6, <1>7
  <2> QED BY <1>0, <1>3, <1>4, <1>7, <2>1, EffectFramed
<1>9. /\ Pending(o) = {} /\ Pending(o)' = {} /\ Sending(o)' = "put"
  <2>1. InParallel(o) /\ InParallel(o)' BY <1>2, <1>5 DEF InParallel, Same
  <2>2. Sending(o) = "put" /\ Sending(o)' = "put" BY <1>2, <1>5 DEF Sending, Same
  <2> QED BY <2>1, <2>2 DEF Pending, Touched
<1>10. Answered(o, a) => Answered(o, a)'
  BY <1>2, <1>5, <1>9 DEF Answered, Same
<1>11. ASSUME Right(a, Pending(o)), OpInv(o, a), Answered(o, a)'
       PROVE  Right(a, Pending(o))' /\ OpInv(o, a)'
  <2>1. Right(a, {}) BY <1>9, <1>11
  <2>2. \A S : Known(a, S)' = Known(a, S) BY <1>3 DEF Known
  <2>3. envVars[a] # None /\ ops[o].names \subseteq envVars[a] \cup doubt[a]
    BY <1>2, <1>11 DEF OpInv
  <2>4. \A r \in late' : r.app = a => Harmless(r, {})
    BY <1>5, <1>6, <2>1, <2>3 DEF Right, Harmless, Known
  <2>5. UNCHANGED <<apps, env>>
        \/ (a \in apps /\ apps' = apps /\ env'[a] = env[a] \cup {n})
    BY <1>4 DEF TakesEffect, EnvAfter, TypeOK
  <2>6. n \in envVars[a] \cup doubt[a] BY <1>2, <2>3
  <2>7. Agrees(a, {})'
    BY <1>3, <2>1, <2>2, <2>5, <2>6 DEF Right, Agrees, Known
  <2>8. Right(a, Pending(o))'
    BY <1>3, <1>9, <2>2, <2>4, <2>7 DEF Right, Harmless, Agrees, Known
  <2>9. OpInv(o, a)'
    BY <1>2, <1>3, <1>5, <1>11, <2>3 DEF OpInv, Same
  <2> QED BY <2>8, <2>9
<1>12. doubt[a] \subseteq doubt'[a] /\ doubt'[a] \subseteq Names
  BY <1>3 DEF TypeOK, Sets
<1> QED BY <1>0, <1>2, <1>5, <1>8, <1>10, <1>11, <1>12, Moves

(* A request hangs: what it may have changed stays open.                   *)
LEMMA HangLists ==
  ASSUME TypeOK, ListInv, NEW o \in Slots, Hang(o)
  PROVE  ListInv'
<1>0. UnderWay(o) BY AllUnderWay
<1>1. ops[o] \in Op BY <1>0 DEF TypeOK, UnderWay
<1>2. /\ ops[o].app \in Apps /\ ops[o].pc \in {"sent", "answered"}
      /\ ops[o].todo \subseteq ops[o].names /\ ops[o].names \in Sets
      /\ UNCHANGED <<apps, env, envVars, doubt>> /\ Goes(o, "hung")
  BY <1>0, <1>1, OpFields DEF Hang, At, ConsoleStays, ListInv, TodoInv
<1> PICK a \in Apps : a = ops[o].app BY <1>2
<1>3. Same(o) /\ ops'[o].pc = "hung" /\ ops'[o].second = ops[o].second
  BY <1>0, <1>2, GoesKeeps DEF Pcs
<1>4. /\ Sending(o)' = Sending(o) /\ Pending(o)' = Touched(o) /\ Pending(o) \subseteq Touched(o)
      /\ InParallel(o) => Touched(o) = {}
  <2>1. InParallel(o) => Touched(o) = {} BY DEF InParallel, Touched, Sending
  <2> QED BY <1>2, <1>3, <2>1, SameCall DEF Pending
<1>5. PICK new : /\ new.app = a /\ new.names = ops[o].names /\ new.kind = Sending(o)
                 /\ \/ late' = late
                    \/ InParallel(o) /\ late' = late \cup Others(o, None)
                    \/ /\ Writes(Sending(o)) /\ ~InParallel(o)
                       /\ late' = late \cup {new}
  <2> DEFINE r == [kind |-> Sending(o), app |-> ops[o].app, names |-> ops[o].names]
  <2>1. r.app = a /\ r.names = ops[o].names /\ r.kind = Sending(o) OBVIOUS
  <2>2. \/ late' = late
        \/ InParallel(o) /\ late' = late \cup Others(o, None)
        \/ /\ Writes(Sending(o)) /\ ~InParallel(o)
           /\ late' = late \cup {r}
    BY DEF Hang
  <2> HIDE DEF r
  <2> QED BY <2>1, <2>2, Zenon
<1>6. \A r \in Others(o, None) : r.app = a /\ r.kind = "put" /\ r.names \subseteq ops[o].names
  BY <1>2 DEF Others
<1>7. \A b \in Apps : ~Meets(o, b) => DataSame(b)
  <2>1. InParallel(o) \/ Writes(Sending(o)) => Touches(ops[o].kind)
    BY DEF InParallel, Touches, Writes, Sending
  <2>2. \A r : r.app # ops[o].app \/ ~Touches(ops[o].kind) => (r \in late' <=> r \in late)
    BY <1>5, <1>6, <2>1
  <2> QED BY <1>0, <1>2, <2>2, EffectFramed
<1>8. Answered(o, a) => Answered(o, a)'
  BY <1>2, <1>3 DEF Answered, Same
<1>9. ASSUME Right(a, Pending(o)), OpInv(o, a), Answered(o, a)'
      PROVE  Right(a, Pending(o))' /\ OpInv(o, a)'
  <2>1. Right(a, Touched(o)) BY <1>4, <1>9 DEF Right, Agrees, Harmless, Known
  <2>2. \A r \in Others(o, None) : InParallel(o) => Harmless(r, Touched(o))
    <3>1. InParallel(o) => ops[o].names \subseteq envVars[a] \cup doubt[a]
      BY <1>9 DEF OpInv, InParallel
    <3> QED BY <1>6, <3>1 DEF Harmless, Known
  <2>3. Writes(Sending(o)) /\ ~InParallel(o) => Harmless(new, Touched(o))
    <3>1. Sending(o) = "create" => envVars[a] = None
      BY <1>2, <1>9 DEF OpInv, Sending
    <3>2. Sending(o) \in {"put", "drop"} /\ ~InParallel(o) => Touched(o) = ops[o].names
      BY DEF Touched
    <3>3. Sending(o) = "import" => Touched(o) = Names BY DEF Touched
    <3> QED BY <1>5, <3>1, <3>2, <3>3 DEF Harmless, Known
  <2>4. \A r \in late' : r.app = a => Harmless(r, Touched(o))
    BY <1>5, <2>1, <2>2, <2>3 DEF Right
  <2>5. Right(a, Pending(o))'
    BY <1>2, <1>4, <2>1, <2>4 DEF Right, Agrees, Harmless, Known
  <2>6. OpInv(o, a)'
    BY <1>2, <1>3, <1>9 DEF OpInv, Same
  <2> QED BY <2>5, <2>6
<1>10. doubt[a] \subseteq doubt'[a] /\ doubt'[a] \subseteq Names
  BY <1>2 DEF TypeOK, Sets
<1> QED BY <1>2, <1>3, <1>7, <1>8, <1>9, <1>10, Moves

(* A harmless request that lands leaves right what was known to be.        *)
LEMMA LandsRight ==
  ASSUME TypeOK, NEW r \in late, NEW a \in Apps, a = r.app, NEW S,
         \/ Accepts(r.kind, r.app, r.names) /\ TakesEffect(r.kind, r.app, r.names)
         \/ UNCHANGED <<apps, env>>,
         late' = late \ {r}, UNCHANGED <<envVars, doubt>>, Right(a, S)
  PROVE  Right(a, S)'
<1>1. Harmless(r, S) BY DEF Right
<1>2. Known(a, S)' = Known(a, S) BY DEF Known
<1>3. r.kind \in Kinds /\ r.names \in Sets BY DEF TypeOK, Late
<1>4. Agrees(a, S)'
  <2> SUFFICES ASSUME a \in apps', envVars[a] # None, NEW n \in Known(a, S)
               PROVE  n \in envVars[a] <=> n \in env'[a]
    BY <1>2 DEF Agrees
  <2>1. CASE UNCHANGED <<apps, env>> BY <2>1 DEF Right, Agrees
  <2>2. CASE TakesEffect(r.kind, r.app, r.names)
    <3>1. r.kind # "create" BY <1>1 DEF Harmless
    <3>2. r.kind # "delete" /\ a \in apps BY <2>2, <3>1 DEF TakesEffect
    <3>3. env'[a] = EnvAfter(r.kind, a, r.names) BY <1>3, <2>2, EffectTyped
    <3>4. n \in envVars[a] <=> n \in env[a] BY <3>2 DEF Right, Agrees
    <3> QED BY <1>1, <3>1, <3>2, <3>3, <3>4 DEF Harmless, EnvAfter
  <2> QED BY <2>1, <2>2
<1> QED BY <1>2, <1>4 DEF Right, Harmless

(* A request lands late: it is harmless, but for what its sender, if it    *)
(* has not given up yet, leaves open.                                      *)
LEMMA LandsLists ==
  ASSUME TypeOK, ListInv, LateLands
  PROVE  ListInv'
<1>1. PICK r \in late :
       /\ late' = late \ {r}
       /\ \/ Accepts(r.kind, r.app, r.names) /\ TakesEffect(r.kind, r.app, r.names)
          \/ UNCHANGED <<apps, env>>
  BY DEF LateLands, DoneAllTheSame
<1>2. r \in Late /\ r.app \in Apps BY DEF TypeOK, Late
<1>3. UNCHANGED <<envVars, doubt, ops>>
  BY DEF LateLands, ConsoleStays
<1>4. TodoInv' BY <1>3 DEF ListInv, TodoInv, UnderWay
<1>5. ASSUME NEW b \in Apps, b # r.app PROVE AppInv(b)' /\ AloneHere(b)'
  <2>1. DataSame(b) BY <1>1, <1>2, <1>3, <1>5 DEF DataSame, TakesEffect, TypeOK
  <2>2. SlotsSame(b) BY <1>3 DEF SlotsSame
  <2> QED BY <2>1, <2>2, Frame DEF ListInv
<1>6. PICK a \in Apps : a = r.app BY <1>2
<1>7. /\ \A p, q : Meets(p, q)' <=> Meets(p, q)
      /\ \A p : /\ Pending(p)' = Pending(p) /\ Sending(p)' = Sending(p)
  BY <1>3 DEF Meets, UnderWay, Pending, Touched, Sending, InParallel
<1>8. \A S : Right(a, S) => Right(a, S)'
  BY <1>1, <1>3, <1>6, LandsRight
<1>9. AloneHere(a)'
  <2> SUFFICES ASSUME NEW p \in Slots, Meets(p, a), ops[p].alone PROVE AloneInv(p, a)'
    BY <1>3, <1>7 DEF AloneHere
  <2>1. AloneInv(p, a) BY DEF ListInv, AloneHere
  <2>2. ops[p].pc \notin {"sent", "answered"} BY <1>6, <2>1 DEF AloneInv
  <2> QED BY <1>3, <1>7, <2>1, <2>2 DEF AloneInv, Answered
<1>10. AppInv(a)'
  <2> SUFFICES ASSUME doubt[a] # Names PROVE AppInv(a)'
    BY <1>3 DEF AppInv
  <2>1. /\ \A o, p \in Slots : Meets(o, a) /\ Meets(p, a) => o = p
        /\ (\A o \in Slots : ~Meets(o, a)) => Right(a, {})
        /\ \A o \in Slots : Meets(o, a) => Right(a, Pending(o)) /\ OpInv(o, a)
    BY DEF ListInv, AppInv
  <2>2. ASSUME NEW o \in Slots, Meets(o, a)
        PROVE  Right(a, Pending(o))' /\ OpInv(o, a)'
    <3>1. PICK S : S = Pending(o) OBVIOUS
    <3>2. Right(a, S)' BY <1>8, <2>1, <2>2, <3>1
    <3>3. Right(a, Pending(o))'
      BY <1>7, <3>1, <3>2 DEF Right, Agrees, Harmless, Known
    <3>4. OpInv(o, a) BY <2>1, <2>2
    <3>5. ops[o].kind = "edit" \/ ops[o].pc = "hung" BY <1>6, <3>4 DEF OpInv
    <3>6. Answered(o, a)'
      <4>1. ops[o].kind = "edit" => Sending(o) \notin {"load", "import"} BY DEF Sending
      <4> QED BY <1>3, <1>7, <3>4, <3>5, <4>1 DEF OpInv, Answered
    <3>7. OpInv(o, a)' BY <1>3, <3>4, <3>5, <3>6 DEF OpInv
    <3> QED BY <3>3, <3>7
  <2>3. (\A o \in Slots : ~Meets(o, a)) => Right(a, {})'
    BY <1>8, <2>1
  <2> QED BY <1>7, <2>1, <2>2, <2>3 DEF AppInv
<1> QED BY <1>4, <1>5, <1>6, <1>9, <1>10 DEF ListInv

(* A list that was loaded is the one stored, or in doubt (LoadAnswered).   *)
LEMMA LoadLists ==
  ASSUME TypeOK, ListInv, NEW o \in Slots, LoadAnswered(o)
  PROVE  ListInv'
<1>0. UnderWay(o) /\ GoesOn(o) BY AllUnderWay DEF GoesOn
<1>1. ops[o] \in Op BY <1>0 DEF TypeOK, UnderWay
<1>2. /\ ops[o].app \in Apps /\ ops[o].kind = "load" /\ ops[o].pc = "answered" /\ Ends(o)
      /\ UNCHANGED platformVars /\ ShowList(o, ops[o].answer)
  BY <1>0, <1>1, OpFields DEF LoadAnswered, At
<1>3. Sending(o) = "load" BY <1>2 DEF Sending
<1>4. \A b \in Apps : ~Meets(o, b) => DataSame(b)
  BY <1>0, <1>2 DEF DataSame, Meets, Touches, ShowList, platformVars, TypeOK
<1>5. ASSUME NEW a \in Apps, Meets(o, a), Answered(o, a), \A r \in late : r.app # a
      PROVE  Right(a, {})'
  <2>1. a = ops[o].app /\ ops[o].answer = env[a]
    BY <1>2, <1>3, <1>5 DEF Answered, Meets
  <2>2. envVars'[a] = env'[a] BY <1>2, <2>1 DEF ShowList, platformVars, TypeOK
  <2> QED BY <1>2, <1>5, <2>2 DEF Right, Agrees, platformVars
<1>6. ASSUME NEW a \in Apps, Meets(o, a), doubt'[a] # Names,
             doubt[a] # Names => Right(a, Pending(o)) /\ OpInv(o, a),
             ops[o].alone => AloneInv(o, a)
      PROVE  (doubt[a] # Names \/ ops[o].alone) /\ Right(a, {})'
  <2>1. doubt[a] # Names \/ ops[o].alone
    BY <1>2, <1>6 DEF ShowList, Meets, TypeOK
  <2>2. Answered(o, a) /\ \A r \in late : r.app # a
    BY <1>2, <1>6, <2>1 DEF OpInv, AloneInv
  <2> QED BY <1>5, <1>6, <2>1, <2>2
<1> QED BY <1>0, <1>2, <1>4, <1>6, EndsLists

(* The list that a save or removal computes is right of its own variable,  *)
(* if nothing met it, and of what the list it started from was right of    *)
(* (VariableAnswered).                                                     *)
LEMMA VariableLists ==
  ASSUME TypeOK, ListInv, NEW o \in Slots, VariableAnswered(o)
  PROVE  ListInv'
<1>0. UnderWay(o) /\ GoesOn(o) BY AllUnderWay DEF GoesOn
<1>1. ops[o] \in Op BY <1>0 DEF TypeOK, UnderWay
<1>2. /\ ops[o].app \in Apps /\ ops[o].kind \in {"put", "drop"} /\ ops[o].pc = "answered"
      /\ ops[o].names \in Sets /\ Ends(o) /\ UNCHANGED platformVars
      /\ envVars' = [envVars EXCEPT ![ops[o].app] = NextList(o)]
      /\ doubt' = [doubt EXCEPT ![ops[o].app] =
                     (IF ops[o].base = None THEN Names ELSE @)
                       \ (IF ops[o].alone THEN ops[o].names ELSE {})]
  BY <1>0, <1>1, OpFields DEF VariableAnswered, At
<1>3. Touched(o) = ops[o].names /\ Pending(o) = ops[o].names
  BY <1>2 DEF Touched, Sending, InParallel, Pending
<1>4. \A b \in Apps : ~Meets(o, b) => DataSame(b)
  BY <1>0, <1>2 DEF DataSame, Meets, Touches, platformVars, TypeOK
<1>5. ASSUME NEW a \in Apps, Meets(o, a), doubt'[a] # Names,
             doubt[a] # Names => Right(a, Pending(o)) /\ OpInv(o, a),
             ops[o].alone => AloneInv(o, a)
      PROVE  (doubt[a] # Names \/ ops[o].alone) /\ Right(a, {})'
  <2>1. a = ops[o].app BY <1>5 DEF Meets
  <2>2. /\ envVars'[a] = NextList(o)
        /\ doubt'[a] = (IF ops[o].base = None THEN Names ELSE doubt[a])
                         \ (IF ops[o].alone THEN ops[o].names ELSE {})
    BY <1>2, <2>1 DEF TypeOK
  <2>3. doubt[a] # Names \/ ops[o].alone BY <1>5, <2>2
  <2>4. Answered(o, a) /\ \A r \in late : r.app # a
    BY <1>2, <1>5, <2>3 DEF OpInv, AloneInv
  <2>5. ASSUME NEW n \in Names, n \notin doubt'[a], a \in apps
        PROVE  n \in NextList(o) <=> n \in env[a]
    <3>1. CASE n \in ops[o].names
      BY <1>2, <2>4, <3>1 DEF Answered, NextList
    <3>2. CASE n \notin ops[o].names
      <4>1. ops[o].base # None /\ n \notin doubt[a] BY <2>2, <2>5, <3>2
      <4>2. doubt[a] # Names BY <4>1
      <4>3. Agrees(a, ops[o].names) BY <1>3, <1>5, <4>2 DEF Right
      <4>4. ops[o].base = envVars[a] BY <1>2, <2>4 DEF Answered
      <4>5. n \in envVars[a] <=> n \in env[a]
        BY <2>5, <3>2, <4>1, <4>3, <4>4 DEF Agrees, Known
      <4> QED BY <1>2, <3>2, <4>1, <4>4, <4>5 DEF NextList
    <3> QED BY <3>1, <3>2
  <2>6. Agrees(a, {})' BY <1>2, <2>2, <2>5 DEF Agrees, Known, platformVars
  <2> QED BY <1>2, <2>3, <2>4, <2>6 DEF Right, platformVars
<1> QED BY <1>0, <1>2, <1>4, <1>5, EndsLists

(* An operation that ends with a refresh leaves the lists (Refreshed).     *)
LEMMA RefreshedLists ==
  ASSUME TypeOK, ListInv, NEW o \in Slots, Refreshed(o)
  PROVE  ListInv'
<1>0. GoesOn(o) BY DEF GoesOn
<1>1. /\ ops[o].pc = "refresh" /\ Ends(o) /\ UNCHANGED <<platformVars, envVars, doubt>>
  BY DEF Refreshed, At
<1>2. Pending(o) = {} BY <1>1 DEF Pending
<1>3. \A b \in Apps : DataSame(b) BY <1>1 DEF DataSame, platformVars
<1>4. ASSUME NEW a \in Apps, Right(a, Pending(o)) PROVE Right(a, {})'
  BY <1>1, <1>2, <1>4 DEF Right, Agrees, Harmless, Known, platformVars
<1> QED BY <1>0, <1>1, <1>3, <1>4, EndsLists

(* The list an import is answered with is the one stored (ImportAnswered). *)
LEMMA ImportLists ==
  ASSUME TypeOK, ListInv, NEW o \in Slots, ImportAnswered(o)
  PROVE  ListInv'
<1>0. UnderWay(o) /\ GoesOn(o) BY AllUnderWay DEF GoesOn
<1>1. ops[o] \in Op BY <1>0 DEF TypeOK, UnderWay
<1>2. /\ ops[o].app \in Apps /\ ops[o].pc = "answered" /\ Sending(o) = "import"
      /\ ops' = [ops EXCEPT ![o].pc = "refresh", ![o].answer = None]
      /\ UNCHANGED platformVars /\ ShowList(o, ops[o].answer)
  BY <1>0, <1>1, OpFields DEF ImportAnswered, At
<1> PICK a \in Apps : a = ops[o].app BY <1>2
<1>3. /\ Same(o) /\ ops'[o].pc = "refresh"
  BY <1>0, <1>2, AnswerKeeps DEF Pcs, Lists
<1>4. ops[o].kind \in {"import", "createEnv"} BY <1>2 DEF Sending
<1>5. Meets(o, a) /\ Meets(o, a)' /\ Pending(o)' = {}
  <2>1. Meets(o, a) BY <1>0, <1>4 DEF Meets, Touches
  <2> QED BY <1>0, <1>3, <2>1, SameMeets DEF Pending
<1>6. \A b \in Apps : ~Meets(o, b) => DataSame(b)
  BY <1>2, <1>5 DEF DataSame, ShowList, platformVars, TypeOK
<1>7. ASSUME Answered(o, a), \A r \in late : r.app # a PROVE OneInv(o, a)'
  <2>1. envVars'[a] = env'[a]
    BY <1>2, <1>7 DEF Answered, ShowList, platformVars, TypeOK
  <2>2. Right(a, Pending(o))' BY <1>2, <1>7, <2>1 DEF Right, Agrees, platformVars
  <2>3. Answered(o, a)' BY <1>3, <1>4 DEF Answered, Same
  <2>4. OpInv(o, a)' BY <1>2, <1>3, <1>4, <1>7, <2>3 DEF OpInv, Same, platformVars
  <2> QED BY <1>5, <2>2, <2>4 DEF OneInv
<1>8. doubt[a] # Names /\ OneInv(o, a) => OneInv(o, a)'
  BY <1>2, <1>4, <1>5, <1>7 DEF OneInv, OpInv
<1>9. AloneInv(o, a) => OneInv(o, a)' /\ \A p \in Slots : p # o => ~Meets(p, a)
  BY <1>2, <1>7 DEF AloneInv
<1>10. doubt[a] = Names /\ doubt'[a] # Names => AloneInv(o, a)
  BY <1>2, <1>5 DEF ShowList, ListInv, AloneHere, TypeOK
<1>11. ops'[o].alone => ops[o].alone /\ (AloneInv(o, a) => AloneInv(o, a)')
  <2>1. \A p \in Slots : p # o => (Meets(p, a)' <=> Meets(p, a))
    BY <1>0, GoesOnKeeps DEF Meets, UnderWay
  <2>2. Answered(o, a)' BY <1>3, <1>4 DEF Answered, Same
  <2> QED BY <1>3, <2>1, <2>2 DEF AloneInv, Same
<1>12. AppInv(a)' /\ AloneHere(a)'
  BY <1>0, <1>5, <1>8, <1>9, <1>10, <1>11, OneStep DEF ListInv
<1>13. \A b \in Apps : Meets(o, b) => b = a BY DEF Meets
<1> QED BY <1>0, <1>6, <1>12, <1>13, StepLists

(* The first half of an edit or of a creation with variables is done       *)
(* (Continues); a deletion, creation or redeploy has been answered         *)
(* (Acknowledged); a service is created without its variables              *)
(* (EndsInError).                                                          *)
LEMMA OnwardLists ==
  ASSUME TypeOK, ListInv, NEW o \in Slots,
         \/ Continues(o) \/ Acknowledged(o)
         \/ EndsInError(o) /\ ops[o].kind = "createEnv" /\ ops[o].second
  PROVE  ListInv'
<1>0. UnderWay(o) /\ GoesOn(o) BY AllUnderWay DEF GoesOn
<1>1. ops[o] \in Op BY <1>0 DEF TypeOK, UnderWay
<1>2. /\ ops[o].app \in Apps /\ UNCHANGED <<platformVars, envVars>> /\ Touched(o) \in Sets
  BY <1>0, <1>1, OpFields, LateTyped DEF Continues, Acknowledged, EndsInError, ConsoleStays
<1> PICK a \in Apps : a = ops[o].app BY <1>2
<1>3. /\ Same(o)
      /\ \/ /\ ops'[o].pc = "sent" /\ ops[o].pc = "answered" /\ Touched(o) = {}
            /\ doubt' = doubt
         \/ /\ ops'[o].pc = "refresh" /\ ops[o].pc = "answered" /\ Touched(o) = {}
            /\ doubt' = doubt /\ ops[o].kind # "createEnv"
         \/ /\ ops'[o].pc = "refresh" /\ ops[o].pc \in {"hung", "refused"}
            /\ doubt' = [doubt EXCEPT ![a] = Names] /\ ops[o].kind = "createEnv"
  <2>1. CASE Continues(o)
    <3>1. Same(o) /\ ops'[o].pc = "sent"
      BY <1>0, <2>1, SecondKeeps DEF Continues
    <3>2. ops[o].pc = "answered" /\ doubt' = doubt /\ Touched(o) = {}
      BY <2>1 DEF Continues, At, ConsoleStays, Touched, Sending, InParallel
    <3> QED BY <3>1, <3>2
  <2>2. CASE Acknowledged(o)
    <3>1. Same(o) /\ ops'[o].pc = "refresh"
      BY <1>0, <2>2, GoesKeeps DEF Acknowledged, Pcs
    <3>2. ops[o].pc = "answered" /\ doubt' = doubt /\ Touched(o) = {} /\ ops[o].kind # "createEnv"
      BY <2>2 DEF Acknowledged, At, Touched
    <3> QED BY <3>1, <3>2
  <2>3. CASE EndsInError(o) /\ ops[o].kind = "createEnv" /\ ops[o].second
    <3>1. Same(o) /\ ops'[o].pc = "refresh"
      BY <1>0, <2>3, GoesKeeps DEF EndsInError, Pcs
    <3>2. Touched(o) = Names BY <2>3 DEF Touched, Sending
    <3>3. doubt[a] \cup Touched(o) = Names BY <3>2 DEF TypeOK, Sets
    <3>4. ops[o].pc \in {"hung", "refused"} /\ doubt' = [doubt EXCEPT ![a] = Names]
      BY <2>3, <3>3 DEF EndsInError, At, TimerFires
    <3> QED BY <2>3, <3>1, <3>4
  <2> QED BY <2>1, <2>2, <2>3
<1>4. \A b \in Apps : ~Meets(o, b) => DataSame(b)
  <2> TAKE b \in Apps
  <2> HAVE ~Meets(o, b)
  <2>1. b # a \/ ~Touches(ops[o].kind) BY <1>0 DEF Meets
  <2>2. ~Touches(ops[o].kind) => ops[o].kind # "createEnv" BY DEF Touches
  <2>3. doubt'[b] = doubt[b] BY <1>3, <2>1, <2>2 DEF TypeOK
  <2> QED BY <1>2, <2>3 DEF DataSame, platformVars
<1>5. doubt'[a] = Names \/ (doubt'[a] = doubt[a] /\ Pending(o) = {} /\ ops[o].pc = "answered")
  BY <1>3 DEF Pending, TypeOK
<1>6. doubt[a] \subseteq doubt'[a] /\ doubt'[a] \subseteq Names
  BY <1>5 DEF TypeOK, Sets
<1>7. Answered(o, a) => Answered(o, a)'
  BY <1>2, <1>3 DEF Answered, Same
<1>8. ASSUME doubt'[a] # Names, Right(a, Pending(o)), OpInv(o, a), Answered(o, a)'
      PROVE  Right(a, Pending(o))' /\ OpInv(o, a)'
  <2>1. doubt'[a] = doubt[a] /\ ops[o].pc = "answered" /\ Right(a, {})
    BY <1>5, <1>8
  <2>2. Pending(o)' = {} BY <1>3 DEF Pending
  <2>3. Right(a, {})'
    BY <1>2, <2>1 DEF Right, Agrees, Harmless, Known, platformVars
  <2>4. Right(a, Pending(o))' BY <2>2, <2>3 DEF Right, Agrees, Harmless, Known
  <2>5. OpInv(o, a)'
    BY <1>2, <1>3, <1>8, <2>1 DEF OpInv, Same, platformVars
  <2> QED BY <2>4, <2>5
<1> QED BY <1>0, <1>2, <1>3, <1>4, <1>6, <1>7, <1>8, Moves DEF platformVars

(* An operation ends in an error: what it may have changed is in doubt     *)
(* (EndsInError).                                                          *)
LEMMA ErrorLists ==
  ASSUME TypeOK, ListInv, NEW o \in Slots, EndsInError(o),
         ~(ops[o].kind = "createEnv" /\ ops[o].second)
  PROVE  ListInv'
<1>0. UnderWay(o) /\ GoesOn(o) BY AllUnderWay DEF GoesOn
<1>1. ops[o] \in Op BY <1>0 DEF TypeOK, UnderWay
<1>2. /\ ops[o].app \in Apps /\ ops[o].pc \in {"refused", "hung"} /\ Ends(o)
      /\ UNCHANGED <<platformVars, envVars>> /\ Touched(o) \in Sets
      /\ doubt' = [doubt EXCEPT ![ops[o].app] = @ \cup Touched(o)]
  BY <1>0, <1>1, OpFields, LateTyped DEF EndsInError, At, TimerFires
<1>3. Pending(o) = Touched(o) BY <1>2 DEF Pending
<1>4. \A b \in Apps : ~Meets(o, b) => DataSame(b)
  <2> TAKE b \in Apps
  <2> HAVE ~Meets(o, b)
  <2>1. ~Touches(ops[o].kind) => Touched(o) = {} BY DEF Touches, Touched, Sending
  <2>2. doubt'[b] = doubt[b] BY <1>0, <1>2, <2>1 DEF Meets, TypeOK
  <2> QED BY <1>2, <2>2 DEF DataSame, platformVars
<1>5. ASSUME NEW a \in Apps, Meets(o, a), doubt'[a] # Names,
             doubt[a] # Names => Right(a, Pending(o)) /\ OpInv(o, a)
      PROVE  doubt[a] # Names /\ Right(a, {})'
  <2>1. doubt'[a] = doubt[a] \cup Touched(o) /\ doubt[a] \subseteq Names
    BY <1>2, <1>5 DEF Meets, TypeOK, Sets
  <2>2. doubt[a] # Names BY <1>2, <1>5, <2>1 DEF Sets
  <2>3. PICK S : S = Touched(o) OBVIOUS
  <2>4. Right(a, S) BY <1>3, <1>5, <2>2, <2>3
  <2>5. Known(a, {})' = Known(a, S) BY <2>1, <2>3 DEF Known
  <2>6. Right(a, {})'
    BY <1>2, <2>4, <2>5 DEF Right, Agrees, Harmless, platformVars
  <2> QED BY <2>2, <2>6
<1> QED BY <1>0, <1>2, <1>4, <1>5, EndsLists

(* No list is loaded when the console is opened.                           *)
LEMMA ListInit == Init => ListInv
BY DEF Init, ListInv, TodoInv, AppInv, AloneHere, Right, Agrees, Meets, UnderWay

(* Every step keeps the invariant.                                         *)
LEMMA ListStep == TypeOK /\ ListInv /\ [Next]_vars => ListInv'
<1> SUFFICES ASSUME TypeOK, ListInv, [Next]_vars PROVE ListInv'
  OBVIOUS
<1>1. ASSUME NEW o \in Slots, Begins(o) PROVE ListInv'
  <2>0. PICK a \in Apps :
      \/ OpenVariables(o, a)
      \/ \E names \in Files : ImportEnv(o, a, names) \/ CreateApp(o, a, "createEnv", names)
      \/ CreateApp(o, a, "create", {})
      \/ \E names \in Sets : SaveEnvChanges(o, a, names)
      \/ \E n \in Names : SaveEnvVar(o, a, n) \/ RemoveEnvVar(o, a, n)
      \/ \E kind \in Kinds : Request(o, a, kind)
    BY <1>1 DEF Begins
  <2>1. Files \subseteq Sets /\ {} \in Sets /\ \A n \in Names : {n} \in Sets
    BY FilesAssumption DEF Sets
  <2>2. CASE \E kind \in Kinds, names \in Sets :
               Start(o, kind, a, names) /\ (kind = "edit" => envVars[a] # None)
    BY <2>2, StartLists
  <2>3. CASE UNCHANGED <<platformVars, listed, envVars, ops, doubt, started, faults>>
    <3>1. \A b \in Apps : DataSame(b) /\ SlotsSame(b)
      BY <2>3 DEF DataSame, SlotsSame, platformVars
    <3>2. TodoInv' BY <2>3 DEF ListInv, TodoInv, UnderWay
    <3> QED BY <3>1, <3>2, Frame DEF ListInv
  <2>4. CASE OpenVariables(o, a)
    BY <2>1, <2>2, <2>3, <2>4 DEF OpenVariables, Kinds
  <2>5. CASE \E names \in Files : ImportEnv(o, a, names) \/ CreateApp(o, a, "createEnv", names)
    BY <2>1, <2>2, <2>5 DEF ImportEnv, CreateApp, Kinds
  <2>6. CASE CreateApp(o, a, "create", {})
    BY <2>1, <2>2, <2>6 DEF CreateApp, Kinds
  <2>7. CASE \E names \in Sets : SaveEnvChanges(o, a, names)
    BY <2>2, <2>7 DEF SaveEnvChanges, Kinds
  <2>8. CASE \E n \in Names : SaveEnvVar(o, a, n) \/ RemoveEnvVar(o, a, n)
    BY <2>1, <2>2, <2>8 DEF SaveEnvVar, RemoveEnvVar, Kinds
  <2>9. CASE \E kind \in Kinds : Request(o, a, kind)
    BY <2>1, <2>2, <2>9 DEF Request
  <2> QED BY <2>0, <2>4, <2>5, <2>6, <2>7, <2>8, <2>9
<1>2. ASSUME NEW o \in Slots, GoesOn(o) \/ Fails(o) \/ Hang(o) PROVE ListInv'
  BY <1>2, HandleLists, HandleOneOfLists, LoadLists, ImportLists, VariableLists,
     OnwardLists, RefreshedLists, ErrorLists, HangLists DEF GoesOn
<1>3. CASE LateLands BY <1>3, LandsLists
<1>4. CASE UNCHANGED vars
  <2>1. \A b \in Apps : DataSame(b) /\ SlotsSame(b)
    BY <1>4 DEF DataSame, SlotsSame, vars, platformVars
  <2>2. TodoInv' BY <1>4 DEF ListInv, TodoInv, UnderWay, vars
  <2> QED BY <2>1, <2>2, Frame DEF ListInv
<1> QED BY <1>1, <1>2, <1>3, <1>4 DEF Next

(* Where nothing is under way and nothing lands late, the invariant says   *)
(* it.                                                                     *)
LEMMA ListUse == TypeOK /\ ListInv => ListAgrees
<1> SUFFICES ASSUME TypeOK, ListInv, NEW a \in apps, envVars[a] # None, ~Met(a)
             PROVE  envVars[a] \ doubt[a] = env[a] \ doubt[a]
  BY DEF ListAgrees
<1>1. a \in Apps /\ envVars[a] \in Sets /\ env[a] \in Sets /\ doubt[a] \in Sets
  BY DEF TypeOK, Lists
<1>2. doubt[a] # Names => Agrees(a, {})
  BY <1>1 DEF ListInv, AppInv, Right, Met
<1>3. \A n \in Names \ doubt[a] : n \in envVars[a] <=> n \in env[a]
  BY <1>2 DEF Agrees, Known
<1> QED BY <1>1, <1>3 DEF Sets

(* The list of variables the console shows is the one stored, but for the  *)
(* names in doubt, wherever nothing is under way: an error leaves a doubt  *)
(* about its own variable only, a retry that nothing meets clears it       *)
(* (saveEnvVar, removeEnvVar, saveEnvChanges, importEnv,                   *)
(* toggleEnvironment).                                                     *)
THEOREM ListsAgree == Spec => []ListAgrees
<1> QED BY TypeInit, TypeStep, ListInit, ListStep, ListUse, PTL DEF Spec
=============================================================================
