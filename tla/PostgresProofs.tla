--------------------------- MODULE PostgresProofs ---------------------------
(***************************************************************************)
(* Theorems about PostgresDatabases, for any number of requests and        *)
(* faults.  Types hold whatever overlaps; that a stored database has its   *)
(* objects, and that none of them outlives it, holds as long as creates do *)
(* not overlap deletes, however many of either kind race each other; that  *)
(* its row and objects are from one request, as long as creates run alone. *)
(***************************************************************************)
EXTENDS PostgresDatabases, TLAPS

LEMMA RequestFields ==
  ASSUME TypeOK, NEW q \in Requests, Sent(q)
  PROVE  /\ requests[q] \in Request
         /\ requests[q].options \in Options
         /\ requests[q].todo \subseteq Kinds
BY DEF TypeOK, Sent, Request

(* What a handler that goes on, or ends, makes of its request.             *)
LEMMA CalledRequest ==
  ASSUME TypeOK, NEW q \in Requests, Sent(q), NEW pc \in {"call", "store"}
  PROVE  [requests[q] EXCEPT !.todo = Remaining(q), !.pc = pc] \in Request
BY RequestFields DEF Request, Remaining

LEMMA FailedRequest ==
  ASSUME TypeOK, NEW q \in Requests, Sent(q)
  PROVE  /\ [requests[q] EXCEPT !.pc = "late", !.answer = "failed"] \in Request
         /\ [requests[q] EXCEPT !.pc = "done"] \in Request
BY RequestFields DEF Request, Answers

LEMMA EndedRequest ==
  ASSUME TypeOK, NEW q \in Requests, Sent(q), NEW answer \in Answers
  PROVE  [requests[q] EXCEPT !.pc = "done", !.answer = answer] \in Request
BY RequestFields DEF Request

(* The row after the last statement of a create.                           *)
LEMMA StoredRow ==
  ASSUME TypeOK, NEW q \in Requests, Sent(q), StoreRow(q)
  PROVE  row' \in Row
BY RequestFields DEF TypeOK, StoreRow, Exists, Row

LEMMA CallEffect ==
  ASSUME TypeOK, NEW q \in Requests, CallTakesEffect(q)
  PROVE  objects' \in [Kinds -> Requests \cup {None}]
BY DEF TypeOK, CallTakesEffect

(* Types are right in every state, whatever overlaps.                      *)
THEOREM TypeCorrect == Spec => []TypeOK
<1>1. Init => TypeOK
  BY MaxFaultsAssumption DEF Init, TypeOK
<1>2. TypeOK /\ [Next]_vars => TypeOK'
  <2> SUFFICES ASSUME TypeOK, [Next]_vars
               PROVE  TypeOK'
    OBVIOUS
  <2>1. ASSUME NEW q \in Requests, NEW options \in Options,
               SendCreate(q, options)
        PROVE  TypeOK'
    <3>1. Resources(options) \subseteq Kinds
      BY DEF Resources, Options, Kinds, Rank
    <3>2. \A pc \in {"call", "done"}, answer \in {"conflict", None} :
            [kind |-> "create", pc |-> pc, options |-> options,
             todo |-> Resources(options), found |-> None,
             answer |-> answer] \in Request
      BY <3>1 DEF Request, RequestKinds, Answers
    <3> QED BY <2>1, <3>2 DEF SendCreate, TypeOK
  <2>2. ASSUME NEW q \in Requests, SendDelete(q)
        PROVE  TypeOK'
    <3>1. Exists => row.by \in Requests
      BY DEF TypeOK, Exists, Row
    <3>2. \A pc \in {"call", "done"}, answer \in {"notFound", None},
             found \in Requests \cup {None} :
            [kind |-> "delete", pc |-> pc, options |-> {},
             todo |-> Removed, found |-> found, answer |-> answer] \in Request
      BY DEF Request, RequestKinds, Answers, Options, Removed
    <3> QED BY <2>2, <3>1, <3>2 DEF SendDelete, TypeOK
  <2>3. ASSUME NEW q \in Requests, Call(q)
        PROVE  TypeOK'
    <3>1. requests' \in [Requests -> Request \cup {None}]
      BY <2>3, CalledRequest DEF Call, TypeOK
    <3>2. objects' \in [Kinds -> Requests \cup {None}]
      BY <2>3, CallEffect DEF Call
    <3> QED BY <2>3, <3>1, <3>2 DEF Call, TypeOK
  <2>4. ASSUME NEW q \in Requests, InsertRow(q)
        PROVE  TypeOK'
    <3>1. Sent(q) /\ StoreAnswer(q) \in Answers
      BY <2>4 DEF InsertRow, At, StoreAnswer, Answers
    <3>2. row' \in Row
      BY <2>4, <3>1, StoredRow DEF InsertRow
    <3> QED BY <2>4, <3>1, <3>2, EndedRequest DEF InsertRow, Ended, TypeOK
  <2>5. ASSUME NEW q \in Requests, DeleteRow(q)
        PROVE  TypeOK'
    BY <2>5, EndedRequest DEF DeleteRow, At, Ended, TypeOK, Answers
  <2>6. ASSUME NEW q \in Requests, CallFails(q)
        PROVE  TypeOK'
    <3>1. requests' \in [Requests -> Request \cup {None}]
      BY <2>6, FailedRequest DEF CallFails, TypeOK
    <3>2. faults' \in 0 .. MaxFaults
      BY <2>6, MaxFaultsAssumption DEF CallFails, Fault, TypeOK
    <3> QED BY <2>6, <3>1, <3>2 DEF CallFails, TypeOK
  <2>7. ASSUME NEW q \in Requests, LateCall(q)
        PROVE  TypeOK'
    <3>1. objects' \in [Kinds -> Requests \cup {None}]
      BY <2>7, CallEffect DEF LateCall, TypeOK
    <3> QED BY <2>7, <3>1, FailedRequest DEF LateCall, TypeOK
  <2>8. ASSUME NEW q \in Requests, StatementFails(q)
        PROVE  TypeOK'
    <3>1. row' \in Row \cup {None}
      BY <2>8, StoredRow DEF StatementFails, TypeOK
    <3>2. requests' \in [Requests -> Request \cup {None}]
      BY <2>8, EndedRequest DEF StatementFails, Ended, Answers, TypeOK
    <3>3. faults' \in 0 .. MaxFaults
      BY <2>8, MaxFaultsAssumption DEF StatementFails, Fault, TypeOK
    <3> QED BY <2>8, <3>1, <3>2, <3>3 DEF StatementFails, TypeOK
  <2>9. CASE UNCHANGED vars
    BY <2>9 DEF vars, TypeOK
  <2> QED
    BY <2>1, <2>2, <2>3, <2>4, <2>5, <2>6, <2>7, <2>8, <2>9 DEF Next
<1> QED BY <1>1, <1>2, PTL DEF Spec

-----------------------------------------------------------------------------
(* Creates and deletes apart.                                              *)

(* Creates may race creates, and deletes deletes, but not each other.      *)
Apart == {"create", "delete"} \notin Overlaps

OneKindUnderWay ==
  \A p, q \in Requests :
    UnderWay(p) /\ UnderWay(q) => requests[p].kind = requests[q].kind

(* What a create or a delete no longer has to do is done ...               *)
ProgressOf(q) ==
  /\ requests[q].kind = "create" =>
       \A k \in Resources(requests[q].options) \ requests[q].todo :
         objects[k] # None
  /\ requests[q].kind = "delete" =>
       \A k \in Kinds \ requests[q].todo : objects[k] = None
  /\ requests[q].pc = "store" => requests[q].todo = {}

(* ... and a delete under way is about the row there is, if there is one.  *)
FindsRow(q) ==
  Exists /\ requests[q].kind = "delete" => requests[q].found = row.by

HandlerInv(q) ==
  UnderWay(q) => /\ requests[q].pc # "late" => ProgressOf(q)
                 /\ FindsRow(q)
                 /\ requests[q].answer # "created"

ApartInv ==
  /\ OneKindUnderWay
  /\ \A q \in Requests : HandlerInv(q)
  /\ RowHasObjects
  /\ DeletedLeavesNothing

(* A step of one handler q that starts nothing and leaves the row alone.   *)
LEMMA HandlerStep ==
  ASSUME TypeOK, ApartInv, NEW q \in Requests, UnderWay(q), NEW r \in Request,
         requests' = [requests EXCEPT ![q] = r],
         r.kind = requests[q].kind, r.options = requests[q].options,
         r.found = requests[q].found, r.answer # "created",
         UNCHANGED row,
         \/ UNCHANGED objects
         \/ CallTakesEffect(q),
         r.pc \notin {"late", "done"} =>
           /\ requests[q].pc # "late" /\ CallTakesEffect(q)
           /\ r.todo = Remaining(q)
           /\ r.pc = "store" => r.todo = {}
  PROVE  ApartInv'
<1>1. \A p \in Requests : p # q => requests'[p] = requests[p]
  BY DEF TypeOK
<1>2. requests'[q] = r
  BY DEF TypeOK
<1>3. \A p \in Requests : UnderWay(p)' => UnderWay(p) /\ requests'[p].kind = requests[p].kind
  BY <1>1, <1>2, NoneAssumption DEF UnderWay, Sent
<1>4. \A p \in Requests : UnderWay(p) => requests[p].kind = requests[q].kind
  BY DEF ApartInv, OneKindUnderWay
<1>5. requests[q].kind \in {"create", "delete"}
  BY RequestFields DEF UnderWay, Request, RequestKinds
<1>6. q # None
  BY NoneAssumption
<1>7. \A k \in Kinds : \/ objects'[k] = objects[k]
                       \/ requests[q].kind = "create" /\ objects'[k] = q
                       \/ requests[q].kind = "delete" /\ objects'[k] = None
  BY <1>5 DEF CallTakesEffect, TypeOK
<1>8. OneKindUnderWay'
  BY <1>3 DEF ApartInv, OneKindUnderWay
<1>9. ASSUME NEW p \in Requests
      PROVE  HandlerInv(p)'
  <2> SUFFICES ASSUME UnderWay(p)'
               PROVE  /\ requests'[p].pc # "late" => ProgressOf(p)'
                      /\ FindsRow(p)'
                      /\ requests'[p].answer # "created"
    BY DEF HandlerInv
  <2>1. HandlerInv(p) /\ UnderWay(p)
    BY <1>3 DEF ApartInv
  <2>2. requests'[p].found = requests[p].found /\ requests'[p].answer # "created"
    BY <1>1, <1>2, <2>1 DEF HandlerInv
  <2>3. FindsRow(p)'
    BY <1>3, <2>1, <2>2 DEF HandlerInv, FindsRow, Exists
  <2>4. ASSUME requests'[p].pc # "late", p # q
        PROVE  ProgressOf(p)'
    <3>1. requests'[p] = requests[p] /\ ProgressOf(p)
      BY <1>1, <2>1, <2>4 DEF HandlerInv
    <3>2. requests[p].kind = requests[q].kind
      BY <1>4, <2>1
    <3>3. Resources(requests[p].options) \subseteq Kinds
      BY <2>1, RequestFields DEF UnderWay, Resources, Options, Kinds, Rank
    <3> QED BY <1>6, <1>7, <3>1, <3>2, <3>3 DEF ProgressOf
  <2>5. ASSUME requests'[q].pc # "late", p = q
        PROVE  ProgressOf(q)'
    <3>1. r.pc \notin {"late", "done"}
      BY <1>2, <2>5 DEF UnderWay
    <3>2. ProgressOf(q)
      BY <2>1, <2>5, <3>1 DEF HandlerInv
    <3>3. Resources(requests[q].options) \subseteq Kinds
      BY RequestFields DEF UnderWay, Resources, Options, Kinds, Rank
    <3>4. Target(q) \in Kinds =>
            objects'[Target(q)] = IF requests[q].kind = "create" THEN q ELSE None
      BY <3>1 DEF CallTakesEffect, TypeOK
    <3>5. requests[q].kind = "create" =>
            \A k \in Resources(r.options) \ r.todo : objects'[k] # None
      BY <1>6, <1>7, <3>1, <3>2, <3>3, <3>4 DEF ProgressOf, Remaining
    <3>6. requests[q].kind = "delete" =>
            \A k \in Kinds \ r.todo : objects'[k] = None
      BY <1>7, <3>1, <3>2, <3>4 DEF ProgressOf, Remaining
    <3>7. r.pc = "store" => r.todo = {}
      BY <3>1
    <3> QED BY <1>2, <3>5, <3>6, <3>7 DEF ProgressOf
  <2> QED BY <2>2, <2>3, <2>4, <2>5
<1>10. RowHasObjects'
  <2> SUFFICES ASSUME Exists,
                      \A p \in Requests : Sent(p)' => requests'[p].found # row.by,
                      NEW k \in Resources(row.options)
               PROVE  objects'[k] # None
    BY DEF RowHasObjects, Exists
  <2>1. \A p \in Requests : Sent(p) => Sent(p)' /\ requests'[p].found = requests[p].found
    BY <1>1, <1>2, NoneAssumption DEF Sent
  <2>2. objects[k] # None
    BY <2>1 DEF ApartInv, RowHasObjects
  <2>3. requests[q].kind # "delete"
    <3>1. requests[q].found # row.by
      BY <2>1 DEF UnderWay
    <3> QED BY <3>1 DEF ApartInv, HandlerInv, FindsRow
  <2>4. k \in Kinds
    BY DEF TypeOK, Exists, Row, Resources, Options, Kinds, Rank
  <2> QED BY <1>6, <1>7, <2>2, <2>3, <2>4
<1>11. DeletedLeavesNothing'
  <2> SUFFICES ASSUME ~Exists, NEW p \in Requests, Sent(p)',
                      requests'[p].answer = "created", NEW k \in Kinds
               PROVE  objects'[k] # p
    BY DEF DeletedLeavesNothing, Exists
  <2>1. p # q /\ p # None
    BY <1>2, NoneAssumption
  <2>2. objects[k] # p
    BY <1>1, <2>1 DEF ApartInv, DeletedLeavesNothing, Sent
  <2> QED BY <1>7, <2>1, <2>2
<1> QED BY <1>8, <1>9, <1>10, <1>11 DEF ApartInv

(* A handler ends with its last statement, which may have stored the row,  *)
(* or removed it, or failed.                                               *)
LEMMA LastStep ==
  ASSUME TypeOK, ApartInv, NEW q \in Requests, UnderWay(q),
         requests[q].pc = "store", UNCHANGED objects,
         NEW answer \in Answers, requests' = Ended(q, answer),
         \/ UNCHANGED row
         \/ requests[q].kind = "create" /\ StoreRow(q)
         \/ requests[q].kind = "delete" /\ row' = None,
         answer = "created" => Exists'
  PROVE  ApartInv'
<1>1. \A p \in Requests : p # q => requests'[p] = requests[p]
  BY DEF TypeOK, Ended
<1>2. /\ requests[q] \in Request
      /\ requests'[q] = [requests[q] EXCEPT !.pc = "done", !.answer = answer]
  BY RequestFields DEF TypeOK, Ended, UnderWay
<1>3. /\ requests'[q].pc = "done" /\ requests'[q].answer = answer
      /\ requests'[q].found = requests[q].found
  BY <1>2 DEF Request
<1>4. \A p \in Requests : UnderWay(p)' => p # q /\ UnderWay(p) /\ requests'[p] = requests[p]
  BY <1>1, <1>3 DEF UnderWay, Sent
<1>5. \A p \in Requests : UnderWay(p) => requests[p].kind = requests[q].kind
  BY DEF ApartInv, OneKindUnderWay
<1>6. ProgressOf(q) /\ FindsRow(q)
  BY DEF ApartInv, HandlerInv
<1>7. OneKindUnderWay'
  BY <1>4 DEF ApartInv, OneKindUnderWay
<1>8. Exists => row \in Row
  BY DEF TypeOK, Exists
<1>9. ASSUME NEW p \in Requests
      PROVE  HandlerInv(p)'
  <2> SUFFICES ASSUME UnderWay(p)'
               PROVE  HandlerInv(p)'
    BY DEF HandlerInv
  <2>1. UnderWay(p) /\ requests'[p] = requests[p] /\ HandlerInv(p)
    BY <1>4 DEF ApartInv
  <2>2. ProgressOf(p) => ProgressOf(p)'
    BY <2>1 DEF ProgressOf
  <2>3. FindsRow(p)'
    BY <1>5, <2>1 DEF HandlerInv, FindsRow, StoreRow, Exists
  <2> QED BY <2>1, <2>2, <2>3 DEF HandlerInv
<1>10. RowHasObjects'
  <2> SUFFICES ASSUME Exists',
                      \A p \in Requests : Sent(p)' => requests'[p].found # row'.by,
                      NEW k \in Resources(row'.options)
               PROVE  objects[k] # None
    BY DEF RowHasObjects
  <2>1. CASE row' = row
    <3>1. \A p \in Requests : Sent(p) => Sent(p)' /\ requests'[p].found = requests[p].found
      <4>1. Sent(q)
        BY DEF UnderWay
      <4>2. [requests[q] EXCEPT !.pc = "done", !.answer = answer] \in Request
        BY <4>1, EndedRequest
      <4>3. requests'[q] # None
        <5> HIDE DEF Request
        <5> QED BY <1>2, <4>2, NoneAssumption
      <4> QED BY <1>1, <1>3, <4>3 DEF Sent
    <3> QED BY <2>1, <3>1 DEF ApartInv, RowHasObjects, Exists
  <2>2. CASE requests[q].kind = "create" /\ row' = [by |-> q, options |-> requests[q].options]
    BY <1>6, <2>2 DEF ProgressOf
  <2> QED BY <2>1, <2>2 DEF StoreRow, Exists
<1>11. DeletedLeavesNothing'
  <2> SUFFICES ASSUME ~Exists', NEW p \in Requests, Sent(p)',
                      requests'[p].answer = "created", NEW k \in Kinds
               PROVE  objects[k] # p
    BY DEF DeletedLeavesNothing
  <2>1. p # q /\ p # None
    BY <1>3, NoneAssumption
  <2>2. CASE ~Exists
    BY <1>1, <2>1, <2>2 DEF ApartInv, DeletedLeavesNothing, Sent
  <2>3. CASE Exists
    <3>1. requests[q].kind = "delete"
      BY <1>8, <2>3, NoneAssumption DEF Exists, StoreRow
    <3> QED BY <1>6, <2>1, <3>1 DEF ProgressOf
  <2> QED BY <2>2, <2>3
<1> QED BY <1>7, <1>9, <1>10, <1>11 DEF ApartInv

(* A request arrives: none of the other kind is under way.                 *)
LEMMA FirstStep ==
  ASSUME TypeOK, ApartInv, Apart, NEW q \in Requests, NEW r \in Request,
         MaySend(q, r.kind), UNCHANGED <<row, objects>>,
         requests' = [requests EXCEPT ![q] = r],
         r.answer # "created", r.pc \in {"call", "done"},
         r.pc = "call" => /\ r.kind = "create" => r.todo = Resources(r.options)
                          /\ r.kind = "delete" => r.todo = Kinds /\ r.found = row.by
  PROVE  ApartInv'
<1>1. \A p \in Requests : p # q => requests'[p] = requests[p]
  BY DEF TypeOK
<1>2. requests'[q] = r /\ ~Sent(q)
  BY DEF TypeOK, MaySend
<1>3. ASSUME NEW p \in Requests, UnderWay(p)
      PROVE  p # q /\ requests[p].kind = r.kind
  <2>1. {r.kind, requests[p].kind} \in Overlaps /\ p # q
    BY <1>2, <1>3 DEF MaySend, UnderWay
  <2>2. r.kind \in RequestKinds /\ requests[p].kind \in RequestKinds
    BY <1>3 DEF UnderWay, Sent, TypeOK, Request
  <2> QED BY <2>1, <2>2 DEF Apart, RequestKinds
<1>4. OneKindUnderWay'
  BY <1>1, <1>2, <1>3 DEF OneKindUnderWay, UnderWay, Sent
<1>5. ASSUME NEW p \in Requests
      PROVE  HandlerInv(p)'
  <2>1. CASE p = q
    BY <1>2, <2>1 DEF HandlerInv, UnderWay, ProgressOf, FindsRow, Exists
  <2>2. CASE p # q
    BY <1>1, <2>2
    DEF ApartInv, HandlerInv, UnderWay, Sent, ProgressOf, FindsRow, Exists
  <2> QED BY <2>1, <2>2
<1>6. \A p \in Requests : Sent(p) => Sent(p)' /\ requests'[p] = requests[p]
  BY <1>1, <1>2 DEF Sent
<1>7. RowHasObjects'
  BY <1>6 DEF ApartInv, RowHasObjects, Exists
<1>8. DeletedLeavesNothing'
  BY <1>1, <1>2, <1>6 DEF ApartInv, DeletedLeavesNothing, Exists, Sent
<1> QED BY <1>4, <1>5, <1>7, <1>8 DEF ApartInv

(* The inductive invariant, when creates and deletes do not overlap.       *)
THEOREM ApartInvariant == Apart => (Spec => []ApartInv)
<1> SUFFICES ASSUME Apart
             PROVE  Spec => []ApartInv
  OBVIOUS
<1>1. Init => ApartInv
  BY NoneAssumption
  DEF Init, ApartInv, OneKindUnderWay, HandlerInv, UnderWay, Sent,
      RowHasObjects, DeletedLeavesNothing, Exists
<1>2. TypeOK /\ ApartInv /\ [Next]_vars => ApartInv'
  <2> SUFFICES ASSUME TypeOK, ApartInv, [Next]_vars
               PROVE  ApartInv'
    OBVIOUS
  <2>1. ASSUME NEW q \in Requests, NEW options \in Options,
               SendCreate(q, options)
        PROVE  ApartInv'
    <3> DEFINE r == [kind |-> "create", pc |-> IF NameTaken THEN "done" ELSE "call",
                     options |-> options, todo |-> Resources(options),
                     found |-> None,
                     answer |-> IF NameTaken THEN "conflict" ELSE None]
    <3>1. Resources(options) \subseteq Kinds
      BY DEF Resources, Options, Kinds, Rank
    <3>2. r \in Request
      BY <3>1 DEF Request, RequestKinds, Answers
    <3>3. r.answer # "created"
      BY NoneAssumption DEF Answers
    <3>4. r.pc \in {"call", "done"} /\ r.kind = "create" /\ r.todo = Resources(r.options)
      OBVIOUS
    <3>5. /\ MaySend(q, "create") /\ UNCHANGED <<row, objects>>
          /\ requests' = [requests EXCEPT ![q] = r]
      BY <2>1 DEF SendCreate
    <3> HIDE DEF r
    <3> QED BY <3>2, <3>3, <3>4, <3>5, FirstStep
  <2>2. ASSUME NEW q \in Requests, SendDelete(q)
        PROVE  ApartInv'
    <3> DEFINE r == [kind |-> "delete", pc |-> IF Exists THEN "call" ELSE "done",
                     options |-> {}, todo |-> Removed,
                     found |-> IF Exists THEN row.by ELSE None,
                     answer |-> IF Exists THEN None ELSE "notFound"]
    <3>1. Exists => row.by \in Requests
      BY DEF TypeOK, Exists, Row
    <3>2. r \in Request
      BY <3>1 DEF Request, RequestKinds, Answers, Options, Removed
    <3>3. r.answer # "created"
      BY NoneAssumption DEF Answers
    <3>4. /\ r.pc \in {"call", "done"} /\ r.kind = "delete" /\ r.todo = Kinds
          /\ r.pc = "call" => r.found = row.by
      BY DEF Removed
    <3>5. /\ MaySend(q, "delete") /\ UNCHANGED <<row, objects>>
          /\ requests' = [requests EXCEPT ![q] = r]
      BY <2>2 DEF SendDelete
    <3> HIDE DEF r
    <3> QED BY <3>2, <3>3, <3>4, <3>5, FirstStep
  <2>3. ASSUME NEW q \in Requests, Call(q)
        PROVE  ApartInv'
    <3>1. PICK pc \in {"call", "store"} :
            /\ requests' = [requests EXCEPT ![q] =
                 [requests[q] EXCEPT !.todo = Remaining(q), !.pc = pc]]
            /\ pc = "store" => Remaining(q) = {}
      BY <2>3 DEF Call
    <3> DEFINE r == [requests[q] EXCEPT !.todo = Remaining(q), !.pc = pc]
    <3>2. Sent(q) /\ UnderWay(q) /\ requests[q].pc = "call"
      BY <2>3 DEF Call, UnderWay
    <3>3. r \in Request
      BY <3>2, CalledRequest
    <3>4. /\ r.kind = requests[q].kind /\ r.options = requests[q].options
          /\ r.found = requests[q].found /\ r.answer = requests[q].answer
          /\ r.todo = Remaining(q) /\ r.pc = pc
      BY <3>2, RequestFields DEF Request
    <3>5. r.answer # "created"
      BY <3>2, <3>4 DEF ApartInv, HandlerInv
    <3>6. CallTakesEffect(q) /\ UNCHANGED row /\ requests' = [requests EXCEPT ![q] = r]
      BY <2>3, <3>1 DEF Call
    <3> HIDE DEF r
    <3> QED BY <3>1, <3>2, <3>3, <3>4, <3>5, <3>6, HandlerStep
  <2>4. ASSUME NEW q \in Requests, InsertRow(q)
        PROVE  ApartInv'
    <3>1. /\ UnderWay(q) /\ requests[q].pc = "store"
          /\ requests[q].kind = "create" /\ StoreRow(q) /\ UNCHANGED objects
          /\ requests' = Ended(q, StoreAnswer(q))
      BY <2>4 DEF InsertRow, At, UnderWay
    <3>2. StoreAnswer(q) \in Answers
      BY DEF StoreAnswer, Answers
    <3>3. Exists'
      BY <3>1, StoredRow, NoneAssumption DEF Exists, UnderWay
    <3> QED BY <3>1, <3>2, <3>3, LastStep
  <2>5. ASSUME NEW q \in Requests, DeleteRow(q)
        PROVE  ApartInv'
    <3>1. /\ UnderWay(q) /\ requests[q].pc = "store"
          /\ requests[q].kind = "delete" /\ row' = None /\ UNCHANGED objects
          /\ requests' = Ended(q, "deleted")
      BY <2>5 DEF DeleteRow, At, UnderWay
    <3>2. "deleted" \in Answers /\ "deleted" # "created"
      BY DEF Answers
    <3> QED BY <3>1, <3>2, LastStep
  <2>6. ASSUME NEW q \in Requests, CallFails(q)
        PROVE  ApartInv'
    <3> DEFINE r == [requests[q] EXCEPT !.pc = "late", !.answer = "failed"]
    <3>1. /\ Sent(q) /\ UnderWay(q) /\ UNCHANGED <<row, objects>>
          /\ requests' = [requests EXCEPT ![q] = r]
      BY <2>6 DEF CallFails, UnderWay
    <3>2. r \in Request
      BY <3>1, FailedRequest
    <3>3. /\ r.kind = requests[q].kind /\ r.options = requests[q].options
          /\ r.found = requests[q].found /\ r.answer # "created"
          /\ r.pc = "late"
      BY <3>1, RequestFields DEF Request
    <3> HIDE DEF r
    <3> QED BY <3>1, <3>2, <3>3, HandlerStep
  <2>7. ASSUME NEW q \in Requests, LateCall(q)
        PROVE  ApartInv'
    <3> DEFINE r == [requests[q] EXCEPT !.pc = "done"]
    <3>1. /\ Sent(q) /\ UnderWay(q) /\ UNCHANGED row
          /\ CallTakesEffect(q) \/ UNCHANGED objects
          /\ requests' = [requests EXCEPT ![q] = r]
      BY <2>7 DEF LateCall, UnderWay
    <3>2. r \in Request
      BY <3>1, FailedRequest
    <3>3. /\ r.kind = requests[q].kind /\ r.options = requests[q].options
          /\ r.found = requests[q].found /\ r.answer = requests[q].answer
          /\ r.pc = "done"
      BY <3>1, RequestFields DEF Request
    <3>4. r.answer # "created"
      BY <3>1, <3>3 DEF ApartInv, HandlerInv
    <3> HIDE DEF r
    <3> QED BY <3>1, <3>2, <3>3, <3>4, HandlerStep
  <2>8. ASSUME NEW q \in Requests, StatementFails(q)
        PROVE  ApartInv'
    <3>1. /\ UnderWay(q) /\ requests[q].pc = "store" /\ UNCHANGED objects
          /\ requests' = Ended(q, "failed")
          /\ \/ UNCHANGED row
             \/ requests[q].kind = "create" /\ StoreRow(q)
             \/ requests[q].kind = "delete" /\ row' = None
      BY <2>8 DEF StatementFails, UnderWay
    <3>2. "failed" \in Answers /\ "failed" # "created"
      BY DEF Answers
    <3> QED BY <3>1, <3>2, LastStep
  <2>9. CASE UNCHANGED vars
    BY <2>9
    DEF vars, ApartInv, OneKindUnderWay, HandlerInv, ProgressOf, FindsRow,
        UnderWay, Sent, RowHasObjects, DeletedLeavesNothing, Exists
  <2> QED
    BY <2>1, <2>2, <2>3, <2>4, <2>5, <2>6, <2>7, <2>8, <2>9 DEF Next
<1> QED BY <1>1, <1>2, TypeCorrect, PTL DEF Spec

(* A stored database that no delete has set out to remove has the objects  *)
(* it was asked to have.                                                   *)
THEOREM StoredIsComplete == Apart => (Spec => []RowHasObjects)
<1>1. ApartInv => RowHasObjects
  BY DEF ApartInv
<1> QED BY <1>1, ApartInvariant, PTL

(* With its row, a database created by a request that was answered 201     *)
(* leaves none of its objects behind.                                      *)
THEOREM DeletedIsGone == Apart => (Spec => []DeletedLeavesNothing)
<1>1. ApartInv => DeletedLeavesNothing
  BY DEF ApartInv
<1> QED BY <1>1, ApartInvariant, PTL

-----------------------------------------------------------------------------
(* Creates alone.                                                          *)

(* No request overlaps a create; deletes may race each other.              *)
CreatesAlone == Overlaps \subseteq {{"delete"}}

(* A create under way has the name to itself: no other request, no row,    *)
(* and every object it has dealt with is its own.                          *)
HasNameAlone(q) ==
  /\ ~Exists
  /\ \A p \in Requests : UnderWay(p) => p = q
  /\ requests[q].pc # "late" =>
       \A k \in Resources(requests[q].options) \ requests[q].todo :
         objects[k] = q
  /\ requests[q].pc = "store" => requests[q].todo = {}

AgreesInv ==
  /\ RowAgrees
  /\ \A q \in Requests :
       UnderWay(q) /\ requests[q].kind = "create" => HasNameAlone(q)

(* A handler goes on, gives up or ends, and leaves the row alone.          *)
LEMMA AgreesGoesOn ==
  ASSUME TypeOK, AgreesInv, NEW q \in Requests, UnderWay(q), NEW r \in Request,
         requests' = [requests EXCEPT ![q] = r], UNCHANGED row,
         CallTakesEffect(q) \/ UNCHANGED objects,
         r.kind = requests[q].kind, r.options = requests[q].options,
         r.pc \in {"call", "store"} =>
           /\ requests[q].pc = "call" /\ CallTakesEffect(q)
           /\ r.todo = Remaining(q)
           /\ r.pc = "store" => r.todo = {}
  PROVE  AgreesInv'
<1>1. /\ requests'[q] = r
      /\ \A p \in Requests \ {q} : requests'[p] = requests[p]
  BY DEF TypeOK
<1>2. \A p \in Requests : UnderWay(p)' => UnderWay(p)
  BY <1>1 DEF UnderWay, Sent
<1>3. \A k \in Kinds : \/ objects'[k] = objects[k]
                       \/ /\ CallTakesEffect(q) /\ k = Target(q)
                          /\ objects'[k] = IF requests[q].kind = "create"
                                             THEN q ELSE None
  BY DEF CallTakesEffect, TypeOK
<1>4. Exists => row.options \in Options
  BY DEF TypeOK, Exists, Row
<1>5. Exists => requests[q].kind = "delete"
  <2>1. requests[q].kind \in RequestKinds
    BY RequestFields DEF UnderWay, Request
  <2> QED BY <2>1 DEF AgreesInv, HasNameAlone, RequestKinds
<1>6. RowAgrees'
  <2> SUFFICES ASSUME Exists, NEW k \in Resources(row.options)
               PROVE  objects'[k] \in {row.by, None}
    BY DEF RowAgrees, Exists
  <2>1. k \in Kinds
    BY <1>4 DEF Resources, Options, Kinds, Rank
  <2> QED BY <1>3, <1>5, <2>1 DEF AgreesInv, RowAgrees
<1>7. ASSUME NEW p \in Requests, UnderWay(p)', requests'[p].kind = "create"
      PROVE  HasNameAlone(p)'
  <2>1. UnderWay(p) /\ requests[p].kind = "create"
    BY <1>1, <1>2, <1>7
  <2>2. HasNameAlone(p) /\ p = q
    BY <2>1 DEF AgreesInv, HasNameAlone
  <2>3. /\ ~Exists'
        /\ \A o \in Requests : UnderWay(o)' => o = q
    BY <1>2, <2>2 DEF HasNameAlone, Exists
  <2>4. ASSUME r.pc # "late"
        PROVE  /\ r.pc \in {"call", "store"}
               /\ \A k \in Resources(r.options) \ r.todo : objects'[k] = q
    <3>1. r.pc \in {"call", "store"}
      BY <1>1, <1>7, <2>2, <2>4 DEF UnderWay, Request
    <3>2. /\ requests[q].pc = "call" /\ CallTakesEffect(q)
          /\ r.todo = requests[q].todo \ {Target(q)}
      BY <3>1 DEF Remaining
    <3>3. Resources(r.options) \subseteq Kinds
      BY RequestFields DEF UnderWay, Resources, Options, Kinds, Rank
    <3>4. \A k \in Resources(r.options) \ requests[q].todo : objects[k] = q
      BY <2>2, <3>2 DEF HasNameAlone
    <3>5. \A k \in Kinds : objects'[k] = IF k = Target(q) THEN q ELSE objects[k]
      BY <2>1, <2>2, <3>2 DEF CallTakesEffect, TypeOK
    <3> QED BY <3>1, <3>2, <3>3, <3>4, <3>5
  <2> QED BY <1>1, <2>2, <2>3, <2>4 DEF HasNameAlone
<1> QED BY <1>6, <1>7 DEF AgreesInv

(* A handler ends with its last statement.                                 *)
LEMMA AgreesEnds ==
  ASSUME TypeOK, AgreesInv, NEW q \in Requests, UnderWay(q),
         requests[q].pc = "store", UNCHANGED objects,
         NEW answer, requests' = Ended(q, answer),
         \/ UNCHANGED row
         \/ requests[q].kind = "create" /\ StoreRow(q)
         \/ requests[q].kind = "delete" /\ row' = None
  PROVE  AgreesInv'
<1>1. /\ requests'[q].pc = "done"
      /\ \A p \in Requests \ {q} : requests'[p] = requests[p]
  <2>1. requests[q] \in Request
    BY RequestFields DEF UnderWay
  <2>2. requests'[q] = [requests[q] EXCEPT !.pc = "done", !.answer = answer]
    BY DEF Ended, TypeOK
  <2> QED BY <2>1, <2>2 DEF Ended, TypeOK, Request
<1>2. \A p \in Requests : UnderWay(p)' =>
        UnderWay(p) /\ p # q /\ requests'[p] = requests[p]
  BY <1>1 DEF UnderWay, Sent
<1>3. RowAgrees'
  <2>1. CASE UNCHANGED row
    BY <2>1 DEF AgreesInv, RowAgrees, Exists
  <2>2. CASE requests[q].kind = "create" /\ StoreRow(q)
    <3>1. HasNameAlone(q)
      BY <2>2 DEF AgreesInv
    <3>2. row' = [by |-> q, options |-> requests[q].options]
      BY <2>2, <3>1 DEF StoreRow, HasNameAlone
    <3>3. \A k \in Resources(requests[q].options) : objects[k] = q
      BY <3>1 DEF HasNameAlone
    <3> QED BY <3>2, <3>3 DEF RowAgrees
  <2>3. CASE row' = None
    BY <2>3 DEF RowAgrees, Exists
  <2> QED BY <2>1, <2>2, <2>3
<1>4. ASSUME NEW p \in Requests, UnderWay(p)', requests'[p].kind = "create"
      PROVE  HasNameAlone(p)'
  <2>1. HasNameAlone(p) /\ UnderWay(p) /\ p # q
    BY <1>2, <1>4 DEF AgreesInv
  <2> QED BY <2>1 DEF HasNameAlone
<1> QED BY <1>3, <1>4 DEF AgreesInv

(* A request arrives.                                                      *)
LEMMA AgreesArrives ==
  ASSUME TypeOK, AgreesInv, CreatesAlone, NEW q \in Requests, NEW r \in Request,
         MaySend(q, r.kind), UNCHANGED <<row, objects>>,
         requests' = [requests EXCEPT ![q] = r],
         r.pc \in {"call", "done"},
         r.kind = "create" /\ r.pc = "call" =>
           r.todo = Resources(r.options) /\ ~Exists
  PROVE  AgreesInv'
<1>1. /\ requests'[q] = r /\ ~Sent(q)
      /\ \A p \in Requests \ {q} : requests'[p] = requests[p]
  BY DEF TypeOK, MaySend
<1>2. RowAgrees'
  BY DEF AgreesInv, RowAgrees, Exists
<1>3. ASSUME NEW p \in Requests, UnderWay(p)
      PROVE  r.kind = "delete" /\ requests[p].kind = "delete" /\ p # q
  <2>1. {r.kind, requests[p].kind} \in Overlaps
    BY <1>3 DEF MaySend
  <2>2. {r.kind, requests[p].kind} = {"delete"}
    BY <2>1 DEF CreatesAlone
  <2> QED BY <1>1, <1>3, <2>2 DEF UnderWay
<1>4. ASSUME NEW p \in Requests, UnderWay(p)', requests'[p].kind = "create"
      PROVE  HasNameAlone(p)'
  <2>1. p = q
    BY <1>1, <1>3, <1>4 DEF UnderWay, Sent
  <2>2. \A o \in Requests : UnderWay(o)' => o = q
    BY <1>1, <1>3, <1>4, <2>1 DEF UnderWay, Sent
  <2> QED BY <1>1, <1>4, <2>1, <2>2 DEF HasNameAlone, UnderWay, Exists
<1> QED BY <1>2, <1>4 DEF AgreesInv

(* The inductive invariant, when no request overlaps a create.             *)
THEOREM AloneInvariant == CreatesAlone => (Spec => []AgreesInv)
<1> SUFFICES ASSUME CreatesAlone
             PROVE  Spec => []AgreesInv
  OBVIOUS
<1>1. Init => AgreesInv
  BY DEF Init, AgreesInv, RowAgrees, UnderWay, Sent, Exists
<1>2. TypeOK /\ AgreesInv /\ [Next]_vars => AgreesInv'
  <2> SUFFICES ASSUME TypeOK, AgreesInv, [Next]_vars
               PROVE  AgreesInv'
    OBVIOUS
  <2>1. ASSUME NEW q \in Requests, NEW options \in Options,
               SendCreate(q, options)
        PROVE  AgreesInv'
    <3> DEFINE r == [kind |-> "create", pc |-> IF NameTaken THEN "done" ELSE "call",
                     options |-> options, todo |-> Resources(options),
                     found |-> None,
                     answer |-> IF NameTaken THEN "conflict" ELSE None]
    <3>1. Resources(options) \subseteq Kinds
      BY DEF Resources, Options, Kinds, Rank
    <3>2. r \in Request
      BY <3>1 DEF Request, RequestKinds, Answers
    <3>3. /\ r.pc \in {"call", "done"} /\ r.kind = "create"
          /\ r.pc = "call" => r.todo = Resources(r.options) /\ ~Exists
      BY DEF NameTaken
    <3>4. /\ MaySend(q, "create") /\ UNCHANGED <<row, objects>>
          /\ requests' = [requests EXCEPT ![q] = r]
      BY <2>1 DEF SendCreate
    <3> HIDE DEF r
    <3> QED BY <3>2, <3>3, <3>4, AgreesArrives
  <2>2. ASSUME NEW q \in Requests, SendDelete(q)
        PROVE  AgreesInv'
    <3> DEFINE r == [kind |-> "delete", pc |-> IF Exists THEN "call" ELSE "done",
                     options |-> {}, todo |-> Removed,
                     found |-> IF Exists THEN row.by ELSE None,
                     answer |-> IF Exists THEN None ELSE "notFound"]
    <3>1. Exists => row.by \in Requests
      BY DEF TypeOK, Exists, Row
    <3>2. r \in Request
      BY <3>1 DEF Request, RequestKinds, Answers, Options, Removed
    <3>3. r.pc \in {"call", "done"} /\ r.kind = "delete"
      OBVIOUS
    <3>4. /\ MaySend(q, "delete") /\ UNCHANGED <<row, objects>>
          /\ requests' = [requests EXCEPT ![q] = r]
      BY <2>2 DEF SendDelete
    <3> HIDE DEF r
    <3> QED BY <3>2, <3>3, <3>4, AgreesArrives
  <2>3. ASSUME NEW q \in Requests, Call(q)
        PROVE  AgreesInv'
    <3>1. PICK pc \in {"call", "store"} :
            /\ requests' = [requests EXCEPT ![q] =
                 [requests[q] EXCEPT !.todo = Remaining(q), !.pc = pc]]
            /\ pc = "store" => Remaining(q) = {}
      BY <2>3 DEF Call
    <3> DEFINE r == [requests[q] EXCEPT !.todo = Remaining(q), !.pc = pc]
    <3>2. UnderWay(q) /\ requests[q].pc = "call" /\ Sent(q)
      BY <2>3 DEF Call, UnderWay
    <3>3. /\ r \in Request
          /\ r.kind = requests[q].kind /\ r.options = requests[q].options
          /\ r.todo = Remaining(q) /\ r.pc = pc
      BY <3>2, CalledRequest, RequestFields DEF Request
    <3>4. CallTakesEffect(q) /\ UNCHANGED row /\ requests' = [requests EXCEPT ![q] = r]
      BY <2>3, <3>1 DEF Call
    <3> HIDE DEF r
    <3> QED BY <3>1, <3>2, <3>3, <3>4, AgreesGoesOn
  <2>4. ASSUME NEW q \in Requests, CallFails(q)
        PROVE  AgreesInv'
    <3> DEFINE r == [requests[q] EXCEPT !.pc = "late", !.answer = "failed"]
    <3>1. /\ UnderWay(q) /\ Sent(q) /\ UNCHANGED <<row, objects>>
          /\ requests' = [requests EXCEPT ![q] = r]
      BY <2>4 DEF CallFails, UnderWay
    <3>2. /\ r \in Request
          /\ r.kind = requests[q].kind /\ r.options = requests[q].options
          /\ r.pc = "late"
      BY <3>1, FailedRequest, RequestFields DEF Request
    <3> HIDE DEF r
    <3> QED BY <3>1, <3>2, AgreesGoesOn
  <2>5. ASSUME NEW q \in Requests, LateCall(q)
        PROVE  AgreesInv'
    <3> DEFINE r == [requests[q] EXCEPT !.pc = "done"]
    <3>1. /\ UnderWay(q) /\ Sent(q) /\ UNCHANGED row
          /\ CallTakesEffect(q) \/ UNCHANGED objects
          /\ requests' = [requests EXCEPT ![q] = r]
      BY <2>5 DEF LateCall, UnderWay
    <3>2. /\ r \in Request
          /\ r.kind = requests[q].kind /\ r.options = requests[q].options
          /\ r.pc = "done"
      BY <3>1, FailedRequest, RequestFields DEF Request
    <3> HIDE DEF r
    <3> QED BY <3>1, <3>2, AgreesGoesOn
  <2>6. ASSUME NEW q \in Requests, InsertRow(q) \/ DeleteRow(q) \/ StatementFails(q)
        PROVE  AgreesInv'
    <3>1. /\ UnderWay(q) /\ requests[q].pc = "store" /\ UNCHANGED objects
          /\ \E answer : requests' = Ended(q, answer)
          /\ \/ UNCHANGED row
             \/ requests[q].kind = "create" /\ StoreRow(q)
             \/ requests[q].kind = "delete" /\ row' = None
      BY <2>6 DEF InsertRow, DeleteRow, StatementFails, At, UnderWay
    <3> QED BY <3>1, AgreesEnds
  <2>7. CASE UNCHANGED vars
    BY <2>7 DEF vars, AgreesInv, RowAgrees, HasNameAlone, UnderWay, Sent, Exists
  <2> QED BY <2>1, <2>2, <2>3, <2>4, <2>5, <2>6, <2>7 DEF Next
<1> QED BY <1>1, <1>2, TypeCorrect, PTL DEF Spec

(* When creates run alone, row, Secret and objects of a stored database    *)
(* are from one request, whatever failed half-way before.                  *)
THEOREM StoredAgrees == CreatesAlone => (Spec => []RowAgrees)
<1>1. AgreesInv => RowAgrees
  BY DEF AgreesInv
<1> QED BY <1>1, AloneInvariant, PTL

=============================================================================
