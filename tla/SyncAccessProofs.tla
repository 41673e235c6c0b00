--------------------------- MODULE SyncAccessProofs ---------------------------
(***************************************************************************)
(* Access to spaces, for every number of accounts, spaces and concurrent   *)
(* requests, every configuration of the two workers and every time.        *)
(***************************************************************************)
EXTENDS SyncAccess, TLAPS

\* No space is called "mine", which is why its paths need no access check.
MineFree == space[Mine].state = "absent"

UniqueOwner ==
    \A i, j \in Spaces :
      space[i].owner # None /\ space[i].owner = space[j].owner => i = j

\* What a request has established by the time it gets where it is.
RequestOK(r) ==
    /\ r.pc \in {"insertMine", "selectMine"} => r.identity \in Accounts
    /\ r.pc = "selectMine" => \E i \in Spaces : space[i].owner = r.identity
    /\ r.pc = "handle" =>
         \/ r.id = Mine
         \/ r.id \in EphemeralIds /\ r.identity = None
         \/ r.identity # None /\ space[r.id].owner = r.identity

RequestsOK == \A w \in Workers : RequestOK(req[w])

AnswersOwned == \A a \in Accounts : \A i \in answers[a] : space[i].owner = a

IInv ==
    /\ TypeOK
    /\ MineFree
    /\ UniqueOwner
    /\ RequestsOK
    /\ AnswersOwned

\* An account's space stays its own, and no other one becomes its own.
OwnersStay ==
    \A i \in Spaces : space[i].owner # None => space'[i].owner = space[i].owner

-----------------------------------------------------------------------------
(* Types *)

LEMMA RecordTypes ==
    /\ Absent \in Row
    /\ Idle \in Request
BY DEF Absent, Idle, Row, Request, Pcs, Ops

LEMMA TypeInit == Init => TypeOK
<1> SUFFICES ASSUME Init PROVE TypeOK
  OBVIOUS
<1>1. clock \in Nat /\ signer \in Keys /\ issued \subseteq Session
  BY DEF Init
<1>2. config \in [{"gateway", "sync"} -> Config]
  BY DEF Init, Config
<1>3. PICK old \in SUBSET (Spaces \ (EphemeralIds \cup {Mine})) :
        space = [i \in Spaces |->
                   IF i \in old THEN [Absent EXCEPT !.state = "active"] ELSE Absent]
  BY DEF Init
<1>4. /\ space \in [Spaces -> Row]
      /\ \A i \in Spaces : LifecycleOK(i)
  BY <1>3, AccessAssumption DEF Absent, Row, LifecycleOK
<1>5. answers \in [Accounts -> SUBSET Spaces]
  BY DEF Init
<1>6. /\ req \in [Workers -> Request]
      /\ \A w \in Workers : IdKnown(req[w])
  BY RecordTypes DEF Init, Idle, IdKnown
<1> QED BY <1>1, <1>2, <1>4, <1>5, <1>6 DEF TypeOK

\* A row of sync_spaces replaced by r.
LEMMA RowReplaced ==
    ASSUME TypeOK, NEW i \in Spaces, NEW r \in Row,
           space' = [space EXCEPT ![i] = r],
           r.owner # None => r.state = "active" /\ r.expires = None,
           r.state # "absent" => (r.expires # None <=> i \in EphemeralIds)
    PROVE  /\ space' \in [Spaces -> Row]
           /\ \A j \in Spaces : LifecycleOK(j)'
<1>1. space' \in [Spaces -> Row] /\ space'[i] = r /\ \A j \in Spaces \ {i} : space'[j] = space[j]
  BY DEF TypeOK
<1>2. LifecycleOK(i)'
  BY <1>1 DEF LifecycleOK
<1>3. ASSUME NEW j \in Spaces \ {i} PROVE LifecycleOK(j)'
  BY <1>1 DEF LifecycleOK, TypeOK
<1> QED BY <1>1, <1>2, <1>3

\* A request replaced by r.
LEMMA RequestReplaced ==
    ASSUME TypeOK, NEW w \in Workers, NEW r \in Request,
           req' = [req EXCEPT ![w] = r],
           IdKnown(r)
    PROVE  /\ req' \in [Workers -> Request]
           /\ \A v \in Workers : IdKnown(req'[v])
           /\ req'[w] = r
           /\ \A v \in Workers \ {w} : req'[v] = req[v]
<1>1. req \in [Workers -> Request] /\ \A v \in Workers : IdKnown(req[v])
  BY DEF TypeOK
<1> QED BY <1>1

\* Steps that leave rows, answers and requests alone.
Surroundings ==
    \/ Tick
    \/ \E a \in Accounts : Login(a)
    \/ UNCHANGED vars

LEMMA SurroundingsStep ==
    ASSUME TypeOK, Surroundings
    PROVE  TypeOK' /\ UNCHANGED <<space, answers, req>>
<1>1. UNCHANGED <<space, answers, req>>
  BY DEF Surroundings, Tick, Login, vars
<1>2. \A i \in Spaces : LifecycleOK(i)'
  BY <1>1 DEF TypeOK, LifecycleOK
<1>3. /\ clock' \in Nat
      /\ signer' \in Keys
      /\ config' \in [{"gateway", "sync"} -> Config]
  BY DEF TypeOK, Surroundings, Tick, Login, vars
<1>4. issued' \subseteq Session
  <2>1. ASSUME NEW a \in Accounts, Login(a) PROVE issued' \subseteq Session
    BY <2>1, AccessAssumption DEF Login, Session, TypeOK
  <2> QED BY <2>1 DEF TypeOK, Surroundings, Tick, vars
<1> QED BY <1>1, <1>2, <1>3, <1>4 DEF TypeOK

-----------------------------------------------------------------------------
(* Requests keep what they have established while owners stay. *)

LEMMA RequestsStay ==
    ASSUME IInv, TypeOK', OwnersStay, answers' = answers
    PROVE  /\ \A v \in Workers : req'[v] = req[v] => RequestOK(req[v])'
           /\ AnswersOwned'
<1>1. ASSUME NEW v \in Workers, req'[v] = req[v] PROVE RequestOK(req[v])'
  <2>1. RequestOK(req[v])
    BY DEF IInv, RequestsOK
  <2>2. req[v].pc = "handle" => req[v].id \in Spaces
    BY DEF IInv, TypeOK, IdKnown
  <2>3. req[v].pc = "selectMine" => \E i \in Spaces : space'[i].owner = req[v].identity
    BY <2>1, AccessAssumption DEF RequestOK, OwnersStay
  <2> QED BY <1>1, <2>1, <2>2, <2>3 DEF RequestOK, OwnersStay
<1>2. AnswersOwned'
  BY AccessAssumption DEF IInv, AnswersOwned, OwnersStay, TypeOK
<1> QED BY <1>1, <1>2

\* A step that only moves a request.
LEMMA OnlyReq ==
    ASSUME IInv, OnlyReqChanges, NEW w \in Workers, NEW r \in Request,
           req' = [req EXCEPT ![w] = r],
           IdKnown(r),
           RequestOK(r)
    PROVE  IInv'
<1> USE DEF IInv
<1>1. UNCHANGED <<clock, signer, config, issued, space, answers>>
  BY DEF OnlyReqChanges
<1>2. /\ req' \in [Workers -> Request]
      /\ \A v \in Workers : IdKnown(req'[v])
      /\ req'[w] = r
      /\ \A v \in Workers \ {w} : req'[v] = req[v]
  BY RequestReplaced
<1>3. TypeOK'
  <2>1. \A i \in Spaces : LifecycleOK(i)'
    BY <1>1 DEF TypeOK, LifecycleOK
  <2> QED BY <1>1, <1>2, <2>1 DEF TypeOK
<1>4. RequestOK(req[w])'
  BY <1>1, <1>2 DEF RequestOK
<1>5. RequestsOK' /\ AnswersOwned'
  BY <1>1, <1>2, <1>4 DEF RequestsOK, AnswersOwned, RequestOK
<1> QED BY <1>1, <1>3, <1>5 DEF MineFree, UniqueOwner

-----------------------------------------------------------------------------
(* The steps *)

LEMMA FinishStep ==
    ASSUME IInv, OnlyReqChanges, NEW w \in Workers, Finish(w)
    PROVE  IInv'
<1>1. Idle.pc = "idle" /\ Idle \in Request
  BY RecordTypes DEF Idle
<1> QED BY <1>1, OnlyReq DEF Finish, RequestOK, IdKnown

LEMMA SendStep ==
    ASSUME IInv, NEW w \in Workers, NEW op \in Ops, NEW i \in Spaces \cup {None},
           NEW s \in issued \cup {None, Malformed}, Send(w, op, i, s)
    PROVE  IInv'
<1> DEFINE r == [pc |-> "authenticate", op |-> op, id |-> i, session |-> s, identity |-> None]
<1>1. r \in Request /\ r.pc = "authenticate" /\ IdKnown(r)
  BY DEF Request, Pcs, IInv, TypeOK, IdKnown, Send
<1>2. req' = [req EXCEPT ![w] = r] /\ OnlyReqChanges
  BY DEF Send
<1> HIDE DEF r
<1> QED BY <1>1, <1>2, OnlyReq DEF RequestOK

LEMMA AuthenticateStep ==
    ASSUME IInv, NEW w \in Workers, Authenticate(w)
    PROVE  IInv'
<1>1. req \in [Workers -> Request] /\ issued \subseteq Session
  BY DEF IInv, TypeOK
<1>2. CASE Finish(w)
  BY <1>2, FinishStep DEF Authenticate
<1>3. CASE ~Finish(w)
  <2> DEFINE identity == IF req[w].session = None THEN None ELSE req[w].session.account
             pc == CASE req[w].op = "mine" -> "insertMine"
                     [] req[w].op = "create" -> "insertSpace"
                     [] req[w].op = "use" /\ req[w].id = Mine -> "handle"
                     [] OTHER -> "access"
             r == [req[w] EXCEPT !.identity = identity, !.session = None, !.pc = pc]
  <2>1. /\ SyncAdmits(req[w].op, req[w].id, req[w].session)
        /\ req' = [req EXCEPT ![w].identity = identity, ![w].session = None, ![w].pc = pc]
        /\ OnlyReqChanges
    BY <1>3 DEF Authenticate
  <2>2. req' = [req EXCEPT ![w] = r]
    BY <1>1, <2>1
  <2>3. identity \in Accounts \cup {None} /\ (req[w].op = "mine" => identity \in Accounts)
    BY <1>1, <2>1 DEF SyncAdmits, Verified, Session
  <2>4. /\ pc \in {"insertMine", "insertSpace", "handle", "access"}
        /\ pc = "insertMine" => req[w].op = "mine"
        /\ pc = "handle" => req[w].id = Mine
        /\ pc \in {"insertSpace", "access"} => req[w].op # "mine"
    OBVIOUS
  <2> HIDE DEF identity, pc
  <2>5. /\ r \in Request
        /\ r.pc = pc /\ r.identity = identity /\ r.id = req[w].id
    BY <1>1, <2>3, <2>4 DEF Request, Pcs
  <2>6. req[w].op # "mine" => req[w].id \in Spaces
    BY <1>3 DEF Authenticate, At, IInv, TypeOK, IdKnown
  <2> HIDE DEF r
  <2>7. IdKnown(r) /\ RequestOK(r)
    BY <2>3, <2>4, <2>5, <2>6, AccessAssumption DEF RequestOK, IdKnown
  <2> QED BY <2>1, <2>2, <2>5, <2>7, OnlyReq
<1> QED BY <1>2, <1>3

LEMMA AccessStep ==
    ASSUME IInv, NEW w \in Workers, Access(w)
    PROVE  IInv'
<1>1. req \in [Workers -> Request]
  BY DEF IInv, TypeOK
<1>2. CASE ~MayUse(req[w].identity, req[w].id)
  BY <1>2, FinishStep DEF Access
<1>3. CASE MayUse(req[w].identity, req[w].id)
  <2> DEFINE r == [req[w] EXCEPT !.pc = "handle"]
  <2>1. req' = [req EXCEPT ![w] = r] /\ OnlyReqChanges
    BY <1>1, <1>3 DEF Access, Goto
  <2>2. /\ r \in Request /\ r.pc = "handle"
        /\ r.identity = req[w].identity /\ r.id = req[w].id
    BY <1>1 DEF Request, Pcs
  <2> HIDE DEF r
  <2>3. /\ r.identity = None => r.id \in EphemeralIds
        /\ space[r.id].owner = r.identity
        /\ r.id \in Spaces
    BY <1>3, <2>2 DEF MayUse, Access, At, IInv, TypeOK, IdKnown
  <2> QED BY <2>1, <2>2, <2>3, OnlyReq, AccessAssumption DEF RequestOK, IdKnown
<1> QED BY <1>2, <1>3

\* The cleaner only ever touches the rows of nobody.
LEMMA CleanerStep ==
    ASSUME IInv, NEW i \in Spaces, Claim(i) \/ Remove(i)
    PROVE  IInv'
<1>1. space \in [Spaces -> Row] /\ LifecycleOK(i) /\ space[Mine].state = "absent" /\ Mine \in Spaces
  BY AccessAssumption DEF IInv, TypeOK, MineFree
<1>2. PICK r \in Row :
        /\ space' = [space EXCEPT ![i] = r]
        /\ r.owner = None
        /\ space[i].owner = None
        /\ i # Mine
        /\ r.state # "absent" => (r.expires # None <=> i \in EphemeralIds)
  <2>1. CASE Claim(i)
    <3> DEFINE r == [space[i] EXCEPT !.state = "deleting"]
    <3>1. /\ space' = [space EXCEPT ![i] = r]
          /\ space[i].state = "active" /\ space[i].expires # None
      BY <1>1, <2>1 DEF Claim, ExpiredRow
    <3>2. r \in Row /\ r.owner = space[i].owner /\ r.expires = space[i].expires
      BY <1>1 DEF Row
    <3> HIDE DEF r
    <3> QED BY <1>1, <3>1, <3>2 DEF LifecycleOK
  <2>2. CASE Remove(i)
    <3>1. Absent.owner = None /\ Absent.state = "absent"
      BY DEF Absent
    <3> QED BY <1>1, <2>2, <3>1, RecordTypes DEF Remove, LifecycleOK
  <2> QED BY <2>1, <2>2
<1>3. UNCHANGED <<clock, signer, config, issued, answers, req>>
  BY DEF Claim, Remove
<1>4. /\ space' \in [Spaces -> Row]
      /\ \A j \in Spaces : LifecycleOK(j)'
  BY <1>2, RowReplaced DEF IInv
<1>5. TypeOK'
  BY <1>3, <1>4 DEF IInv, TypeOK, IdKnown
<1>6. /\ space'[i].owner = None
      /\ \A j \in Spaces \ {i} : space'[j] = space[j]
  BY <1>1, <1>2
<1>7. OwnersStay
  BY <1>2, <1>6 DEF OwnersStay
<1>8. RequestsOK' /\ AnswersOwned'
  BY <1>3, <1>5, <1>7, RequestsStay DEF RequestsOK
<1>9. UniqueOwner'
  BY <1>6 DEF IInv, UniqueOwner
<1>10. MineFree'
  BY <1>1, <1>2, <1>6 DEF MineFree
<1> QED BY <1>5, <1>8, <1>9, <1>10 DEF IInv

LEMMA InsertSpaceStep ==
    ASSUME IInv, NEW w \in Workers, InsertSpace(w)
    PROVE  IInv'
<1>1. req \in [Workers -> Request] /\ space \in [Spaces -> Row] /\ clock + SpaceTtl \in Nat
  BY AccessAssumption DEF IInv, TypeOK
<1>2. req[w].id \in Spaces
  BY DEF InsertSpace, At, IInv, TypeOK, IdKnown
<1> DEFINE i == req[w].id
           r == [state |-> "active", owner |-> None, expires |-> clock + SpaceTtl]
<1>3. r \in Row /\ r.owner = None /\ r.expires # None
  BY <1>1, AccessAssumption DEF Row
<1>4. /\ UNCHANGED <<clock, signer, config, issued, answers>>
      /\ req' = [req EXCEPT ![w] = Idle]
  BY DEF InsertSpace, Finish
<1>5. CASE space' = space
  BY <1>4, <1>5, FinishStep DEF OnlyReqChanges, Finish
<1>6. CASE space' # space
  <2>1. /\ i \in EphemeralIds
        /\ space[i].state = "absent"
        /\ space' = [space EXCEPT ![i] = r]
    BY <1>6 DEF InsertSpace, Creatable
  <2> HIDE DEF r, i
  <2>2. i \in Spaces /\ space[i].owner = None /\ i # Mine
    BY <1>2, <2>1, AccessAssumption DEF i, IInv, TypeOK, LifecycleOK
  <2>3. /\ space' \in [Spaces -> Row]
        /\ \A j \in Spaces : LifecycleOK(j)'
    BY <1>3, <2>1, <2>2, RowReplaced DEF IInv
  <2>4. /\ Idle \in Request /\ IdKnown(Idle) /\ Idle.pc = "idle"
    BY RecordTypes DEF Idle, IdKnown
  <2>5. /\ req' \in [Workers -> Request]
        /\ \A v \in Workers : IdKnown(req'[v])
        /\ req'[w] = Idle
        /\ \A v \in Workers \ {w} : req'[v] = req[v]
    BY <1>4, <2>4, RequestReplaced DEF IInv
  <2>6. TypeOK'
    BY <1>4, <2>3, <2>5 DEF IInv, TypeOK
  <2>7. /\ space'[i].owner = None
        /\ \A j \in Spaces \ {i} : space'[j] = space[j]
    BY <1>1, <1>3, <2>1, <2>2
  <2>8. OwnersStay
    BY <2>2, <2>7 DEF OwnersStay
  <2>9. RequestOK(req[w])'
    BY <2>4, <2>5 DEF RequestOK
  <2>10. RequestsOK' /\ AnswersOwned'
    BY <1>4, <2>5, <2>6, <2>8, <2>9, RequestsStay DEF RequestsOK
  <2>11. UniqueOwner'
    BY <2>7 DEF IInv, UniqueOwner
  <2>12. MineFree'
    BY <2>2, <2>7, AccessAssumption DEF MineFree, IInv
  <2> QED BY <2>6, <2>10, <2>11, <2>12 DEF IInv
<1> QED BY <1>5, <1>6

LEMMA InsertMineStep ==
    ASSUME IInv, NEW w \in Workers, NEW i \in Spaces, InsertMine(w, i)
    PROVE  IInv'
<1>1. req \in [Workers -> Request] /\ space \in [Spaces -> Row]
  BY DEF IInv, TypeOK
<1>2. /\ req[w].pc = "insertMine"
      /\ i \notin EphemeralIds /\ i # Mine
      /\ UNCHANGED <<clock, signer, config, issued, answers>>
  BY DEF InsertMine, At
<1> DEFINE a == req[w].identity
           q == [req[w] EXCEPT !.pc = "selectMine", !.id = i]
           r == [state |-> "active", owner |-> a, expires |-> None]
<1>3. a \in Accounts /\ a # None
  BY <1>2, AccessAssumption DEF IInv, RequestsOK, RequestOK
<1>4. /\ q \in Request /\ q.pc = "selectMine" /\ q.identity = a
      /\ req' = [req EXCEPT ![w] = q]
  BY <1>1 DEF Request, Pcs, InsertMine
<1>5. /\ r \in Row /\ r.owner = a /\ r.state = "active" /\ r.expires = None
      /\ space' = IF CanInsertMine(a, i) THEN [space EXCEPT ![i] = r] ELSE space
  BY <1>3 DEF Row, InsertMine
<1>6. space[i].state = "absent" \/ \E j \in Spaces : space[j].owner = a
  BY DEF InsertMine
<1> HIDE DEF a, q, r
<1>7. /\ req' \in [Workers -> Request]
      /\ \A v \in Workers : IdKnown(req'[v])
      /\ req'[w] = q
      /\ \A v \in Workers \ {w} : req'[v] = req[v]
  BY <1>4, RequestReplaced DEF IInv, IdKnown
<1>8. CASE CanInsertMine(a, i)
  <2>1. /\ space' = [space EXCEPT ![i] = r]
        /\ space[i].state = "absent" /\ \A j \in Spaces : space[j].owner # a
    BY <1>5, <1>8 DEF CanInsertMine
  <2>2. space[i].owner = None
    BY <2>1 DEF IInv, TypeOK, LifecycleOK
  <2>3. /\ space' \in [Spaces -> Row]
        /\ \A j \in Spaces : LifecycleOK(j)'
    BY <1>2, <1>5, <2>1, RowReplaced DEF IInv
  <2>4. TypeOK'
    BY <1>2, <1>7, <2>3 DEF IInv, TypeOK
  <2>5. /\ space'[i].owner = a
        /\ \A j \in Spaces \ {i} : space'[j] = space[j]
    BY <1>1, <1>5, <2>1
  <2>6. OwnersStay
    BY <2>2, <2>5 DEF OwnersStay
  <2>7. RequestOK(req[w])'
    BY <1>3, <1>4, <1>7, <2>5 DEF RequestOK
  <2>8. RequestsOK' /\ AnswersOwned'
    BY <1>2, <1>7, <2>4, <2>6, <2>7, RequestsStay DEF RequestsOK
  <2>9. UniqueOwner'
    BY <2>1, <2>5 DEF IInv, UniqueOwner
  <2>10. MineFree'
    BY <1>2, <2>5, AccessAssumption DEF MineFree, IInv
  <2> QED BY <2>4, <2>8, <2>9, <2>10 DEF IInv
<1>9. CASE ~CanInsertMine(a, i)
  <2>1. space' = space
    BY <1>5, <1>9
  <2>2. \E j \in Spaces : space[j].owner = a
    BY <1>6, <1>9 DEF CanInsertMine
  <2>3. RequestOK(q) /\ IdKnown(q)
    BY <1>3, <1>4, <2>2 DEF RequestOK, IdKnown
  <2>4. OnlyReqChanges
    BY <1>2, <2>1 DEF OnlyReqChanges
  <2> QED BY <1>4, <2>3, <2>4, OnlyReq
<1> QED BY <1>8, <1>9

LEMMA SelectMineStep ==
    ASSUME IInv, NEW w \in Workers, SelectMine(w)
    PROVE  IInv'
<1>1. PICK i \in Spaces :
        /\ space[i].owner = req[w].identity
        /\ answers' = [answers EXCEPT ![req[w].identity] = @ \cup {i}]
  BY DEF SelectMine, FoundMine
<1>2. /\ UNCHANGED <<clock, signer, config, issued, space>>
      /\ req' = [req EXCEPT ![w] = Idle]
      /\ req[w].identity \in Accounts
  BY DEF SelectMine, Finish, At, IInv, RequestsOK, RequestOK
<1>3. /\ Idle \in Request /\ IdKnown(Idle) /\ Idle.pc = "idle"
  BY RecordTypes DEF Idle, IdKnown
<1>4. /\ req' \in [Workers -> Request]
      /\ \A v \in Workers : IdKnown(req'[v])
      /\ req'[w] = Idle
      /\ \A v \in Workers \ {w} : req'[v] = req[v]
  BY <1>2, <1>3, RequestReplaced DEF IInv
<1>5. \A j \in Spaces : LifecycleOK(j)'
  BY <1>2 DEF IInv, TypeOK, LifecycleOK
<1>6. answers' \in [Accounts -> SUBSET Spaces]
  BY <1>1, <1>2 DEF IInv, TypeOK
<1>7. TypeOK'
  BY <1>2, <1>4, <1>5, <1>6 DEF IInv, TypeOK
<1>8. RequestsOK'
  BY <1>2, <1>3, <1>4 DEF IInv, RequestsOK, RequestOK
<1>9. AnswersOwned'
  BY <1>1, <1>2 DEF IInv, AnswersOwned, TypeOK
<1> QED BY <1>2, <1>7, <1>8, <1>9 DEF IInv, MineFree, UniqueOwner

-----------------------------------------------------------------------------
(* The invariant *)

LEMMA IInvInit == Init => IInv
<1> SUFFICES ASSUME Init PROVE IInv
  OBVIOUS
<1>1. TypeOK
  BY TypeInit
<1>2. PICK old \in SUBSET (Spaces \ (EphemeralIds \cup {Mine})) :
        space = [i \in Spaces |->
                   IF i \in old THEN [Absent EXCEPT !.state = "active"] ELSE Absent]
  BY DEF Init
<1>3. MineFree /\ \A i \in Spaces : space[i].owner = None
  BY <1>2, AccessAssumption DEF Absent, MineFree
<1>4. UniqueOwner /\ AnswersOwned
  BY <1>3 DEF UniqueOwner, AnswersOwned, Init
<1>5. RequestsOK
  BY DEF Init, Idle, RequestsOK, RequestOK
<1> QED BY <1>1, <1>3, <1>4, <1>5 DEF IInv

LEMMA IInvNext == IInv /\ [Next]_vars => IInv'
<1> SUFFICES ASSUME IInv, [Next]_vars PROVE IInv'
  OBVIOUS
<1>1. CASE Surroundings
  <2>1. TypeOK' /\ UNCHANGED <<space, answers, req>>
    BY <1>1, SurroundingsStep DEF IInv
  <2> QED BY <2>1 DEF IInv, MineFree, UniqueOwner, RequestsOK, RequestOK, AnswersOwned
<1>2. CASE \E i \in Spaces : Claim(i) \/ Remove(i)
  BY <1>2, CleanerStep
<1>3. ASSUME NEW w \in Workers,
             \/ \E op \in Ops, i \in Spaces \cup {None}, s \in issued \cup {None, Malformed} :
                  Send(w, op, i, s)
             \/ Authenticate(w) \/ Access(w) \/ InsertSpace(w) \/ SelectMine(w) \/ End(w)
             \/ \E i \in Spaces : InsertMine(w, i)
      PROVE  IInv'
  <2>1. CASE End(w)
    BY <2>1, FinishStep DEF End
  <2> QED
    BY <1>3, <2>1, SendStep, AuthenticateStep, AccessStep, InsertSpaceStep, SelectMineStep,
       InsertMineStep
<1> QED BY <1>1, <1>2, <1>3 DEF Next, Surroundings

LEMMA Invariance == Spec => []IInv
BY IInvInit, IInvNext, PTL DEF Spec

\* Every variable keeps its type, and the rows of sync_spaces are always such
\* as the triggers of the schema let through.
THEOREM AccessTypeCorrect == Spec => []TypeOK
BY Invariance, PTL DEF IInv

\* A handler of the sync worker never works on a space that is not the
\* requester's, although the access check and the work are separate steps and
\* the paths under "mine" have no access check.
THEOREM AccessCorrect == Spec => []HandlerOwnsSpace
<1>1. IInv => HandlerOwnsSpace
  <2> SUFFICES ASSUME IInv, NEW w \in Workers, At(w, "handle")
               PROVE  \/ space[req[w].id].state = "absent"
                      \/ space[req[w].id].owner = req[w].identity
    BY DEF HandlerOwnsSpace
  <2>1. RequestOK(req[w]) /\ req[w].id \in Spaces /\ LifecycleOK(req[w].id)
    BY DEF IInv, RequestsOK, TypeOK, IdKnown, At
  <2> QED BY <2>1 DEF RequestOK, At, LifecycleOK, IInv, MineFree
<1> QED BY <1>1, Invariance, PTL

\* getOrCreateAccountSpace gives every account one space, however many first
\* requests race, and answers every one of them with it.
THEOREM OwnSpaceCorrect == Spec => []OneSpacePerAccount
<1>1. IInv => OneSpacePerAccount
  <2> SUFFICES ASSUME IInv, NEW a \in Accounts, NEW i \in answers[a]
               PROVE  /\ answers[a] = {i}
                      /\ space[i] = [state |-> "active", owner |-> a, expires |-> None]
    BY DEF OneSpacePerAccount
  <2>1. answers[a] \subseteq Spaces /\ space \in [Spaces -> Row] /\ a # None
    BY AccessAssumption DEF IInv, TypeOK
  <2>2. \A j \in answers[a] : space[j].owner = a
    BY DEF IInv, AnswersOwned
  <2>3. answers[a] = {i}
    BY <2>1, <2>2 DEF IInv, UniqueOwner
  <2>4. space[i].owner = a /\ space[i].state = "active" /\ space[i].expires = None
    BY <2>1, <2>2 DEF IInv, TypeOK, LifecycleOK
  <2> QED BY <2>1, <2>3, <2>4 DEF Row
<1> QED BY <1>1, Invariance, PTL

\* Between INSERT OR IGNORE and the SELECT after it nothing removes the space of
\* the account or gives it another owner, so the SELECT always finds it.
THEOREM MineCorrect == Spec => []MineIsThere
<1>1. IInv => MineIsThere
  BY DEF IInv, RequestsOK, RequestOK, MineIsThere, At
<1> QED BY <1>1, Invariance, PTL

-----------------------------------------------------------------------------
(* Who was let in *)

\* The gateway let the session through: what it decided, without the time.
Forwarded(s) ==
    IF s = None THEN config["gateway"].anonymous = "true"
    ELSE s \in issued /\ s.key = config["gateway"].key

AdmissionOK(r) ==
    /\ r.pc = "authenticate" => Forwarded(r.session)
    /\ r.pc \notin {"idle", "authenticate"} => LetIn(r.identity)

RowAdmitted(i) ==
    space[i].owner # None \/ (i \in EphemeralIds /\ space[i].state # "absent")
      => LetIn(space[i].owner)

AdmissionInv ==
    /\ \A w \in Workers : AdmissionOK(req[w])
    /\ \A i \in Spaces : RowAdmitted(i)

\* Sessions are only ever added, and the settings stay.
LEMMA LetInStays ==
    ASSUME issued \subseteq issued', config' = config
    PROVE  /\ \A a : LetIn(a) => LetIn(a)'
           /\ \A s : Forwarded(s) => Forwarded(s)'
<1>1. ASSUME NEW a, LetIn(a) PROVE LetIn(a)'
  <2>1. CASE a = None
    BY <1>1, <2>1 DEF LetIn
  <2>2. CASE a # None
    <3>1. PICK s \in issued :
            s.account = a /\ \A worker \in DOMAIN config : s.key = config[worker].key
      BY <1>1, <2>2 DEF LetIn
    <3> QED BY <2>2, <3>1 DEF LetIn
  <2> QED BY <2>1, <2>2
<1>2. ASSUME NEW s, Forwarded(s) PROVE Forwarded(s)'
  BY <1>2 DEF Forwarded
<1> QED BY <1>1, <1>2

\* What both workers have let in is let in by both.
LEMMA BothLetIn ==
    ASSUME IInv, NEW r \in Request, Forwarded(r.session), SyncAdmits(r.op, r.id, r.session)
    PROVE  LetIn(IF r.session = None THEN None ELSE r.session.account)
<1>1. issued \subseteq Session /\ DOMAIN config = {"gateway", "sync"}
  BY DEF IInv, TypeOK
<1>2. CASE r.session = None
  BY <1>1, <1>2 DEF Forwarded, SyncAdmits, LetIn
<1>3. CASE r.session # None
  <2>1. /\ r.session \in issued
        /\ \A worker \in DOMAIN config : r.session.key = config[worker].key
    BY <1>1, <1>3 DEF Forwarded, SyncAdmits, Verified
  <2>2. r.session.account # None
    BY <1>1, <2>1, AccessAssumption DEF Session
  <2> QED BY <1>3, <2>1, <2>2 DEF LetIn
<1> QED BY <1>2, <1>3

\* A step of one request that leaves the rows alone.
LEMMA AdmissionOfRequest ==
    ASSUME IInv, AdmissionInv, NEW w \in Workers, NEW r,
           UNCHANGED <<config, issued, space>>, req' = [req EXCEPT ![w] = r],
           AdmissionOK(r)
    PROVE  AdmissionInv'
<1>1. req'[w] = r /\ \A v \in Workers \ {w} : req'[v] = req[v]
  BY DEF IInv, TypeOK
<1>2. (\A a : LetIn(a)' <=> LetIn(a)) /\ (\A s : Forwarded(s)' <=> Forwarded(s))
  BY DEF LetIn, Forwarded
<1>3. ASSUME NEW v \in Workers PROVE AdmissionOK(req[v])'
  BY <1>1, <1>2 DEF AdmissionInv, AdmissionOK
<1>4. ASSUME NEW i \in Spaces PROVE RowAdmitted(i)'
  BY <1>2 DEF AdmissionInv, RowAdmitted
<1> QED BY <1>3, <1>4 DEF AdmissionInv

LEMMA AdmissionOfFinish ==
    ASSUME IInv, AdmissionInv, NEW w \in Workers, UNCHANGED <<config, issued, space>>, Finish(w)
    PROVE  AdmissionInv'
<1>1. AdmissionOK(Idle)
  BY DEF AdmissionOK, Idle
<1> QED BY <1>1, AdmissionOfRequest DEF Finish

\* A step of the request w that replaces the row i.
LEMMA AdmissionOfRow ==
    ASSUME IInv, AdmissionInv, NEW w \in Workers, NEW r, NEW i \in Spaces, NEW row,
           UNCHANGED <<config, issued>>, req' = [req EXCEPT ![w] = r],
           space' = [space EXCEPT ![i] = row],
           AdmissionOK(r), LetIn(row.owner)
    PROVE  AdmissionInv'
<1>1. /\ req'[w] = r /\ \A v \in Workers \ {w} : req'[v] = req[v]
      /\ space'[i] = row /\ \A j \in Spaces \ {i} : space'[j] = space[j]
  BY DEF IInv, TypeOK
<1>2. (\A a : LetIn(a)' <=> LetIn(a)) /\ (\A s : Forwarded(s)' <=> Forwarded(s))
  BY DEF LetIn, Forwarded
<1>3. ASSUME NEW v \in Workers PROVE AdmissionOK(req[v])'
  BY <1>1, <1>2 DEF AdmissionInv, AdmissionOK
<1>4. ASSUME NEW j \in Spaces PROVE RowAdmitted(j)'
  BY <1>1, <1>2 DEF AdmissionInv, RowAdmitted
<1> QED BY <1>3, <1>4 DEF AdmissionInv

LEMMA AdmissionInit == Init => AdmissionInv
<1> SUFFICES ASSUME Init PROVE AdmissionInv
  OBVIOUS
<1>1. PICK old \in SUBSET (Spaces \ (EphemeralIds \cup {Mine})) :
        space = [i \in Spaces |->
                   IF i \in old THEN [Absent EXCEPT !.state = "active"] ELSE Absent]
  BY DEF Init
<1>2. \A i \in Spaces : space[i].owner = None /\ (i \in EphemeralIds => space[i].state = "absent")
  BY <1>1 DEF Absent
<1> QED BY <1>2 DEF Init, Idle, AdmissionInv, AdmissionOK, RowAdmitted

LEMMA AdmissionStep == IInv /\ AdmissionInv /\ [Next]_vars => AdmissionInv'
<1> SUFFICES ASSUME IInv, AdmissionInv, [Next]_vars PROVE AdmissionInv'
  OBVIOUS
<1>1. req \in [Workers -> Request] /\ space \in [Spaces -> Row]
  BY DEF IInv, TypeOK
<1>2. CASE Surroundings
  <2>1. issued \subseteq issued' /\ UNCHANGED <<config, space, req>>
    BY <1>2 DEF Surroundings, Tick, Login, vars
  <2>2. (\A a : LetIn(a) => LetIn(a)') /\ (\A s : Forwarded(s) => Forwarded(s)')
    BY <2>1, LetInStays
  <2>3. ASSUME NEW w \in Workers PROVE AdmissionOK(req[w])'
    BY <2>1, <2>2 DEF AdmissionInv, AdmissionOK
  <2>4. ASSUME NEW i \in Spaces PROVE RowAdmitted(i)'
    BY <2>1, <2>2 DEF AdmissionInv, RowAdmitted
  <2> QED BY <2>3, <2>4 DEF AdmissionInv
<1>3. ASSUME NEW i \in Spaces, Claim(i) \/ Remove(i) PROVE AdmissionInv'
  <2>1. UNCHANGED <<config, issued, req>>
    BY <1>3 DEF Claim, Remove
  <2>2. (\A a : LetIn(a)' <=> LetIn(a)) /\ (\A s : Forwarded(s)' <=> Forwarded(s))
    BY <2>1 DEF LetIn, Forwarded
  <2>3. ASSUME NEW w \in Workers PROVE AdmissionOK(req[w])'
    BY <2>1, <2>2 DEF AdmissionInv, AdmissionOK
  <2>4. \A j \in Spaces :
          \/ space'[j] = Absent
          \/ space'[j].owner = space[j].owner
               /\ (space'[j].state # "absent" => space[j].state # "absent")
    BY <1>1, <1>3 DEF Claim, Remove, ExpiredRow, Row
  <2>5. ASSUME NEW j \in Spaces PROVE RowAdmitted(j)'
    BY <2>2, <2>4 DEF AdmissionInv, RowAdmitted, Absent
  <2> QED BY <2>3, <2>5 DEF AdmissionInv
<1>4. ASSUME NEW w \in Workers, NEW op \in Ops, NEW i \in Spaces \cup {None},
             NEW s \in issued \cup {None, Malformed}, Send(w, op, i, s)
      PROVE  AdmissionInv'
  <2> DEFINE r == [pc |-> "authenticate", op |-> op, id |-> i, session |-> s, identity |-> None]
  <2>1. GatewayAdmits(op, s) /\ req' = [req EXCEPT ![w] = r] /\ OnlyReqChanges
    BY <1>4 DEF Send
  <2>2. Forwarded(s)
    BY <2>1 DEF GatewayAdmits, Forwarded, Verified
  <2>3. AdmissionOK(r)
    BY <2>2 DEF AdmissionOK
  <2> HIDE DEF r
  <2> QED BY <2>1, <2>3, AdmissionOfRequest DEF OnlyReqChanges
<1>5. ASSUME NEW w \in Workers, Authenticate(w) PROVE AdmissionInv'
  <2>1. CASE Finish(w)
    BY <1>5, <2>1, AdmissionOfFinish DEF Authenticate, OnlyReqChanges
  <2>2. CASE ~Finish(w)
    <3> DEFINE identity == IF req[w].session = None THEN None ELSE req[w].session.account
               pc == CASE req[w].op = "mine" -> "insertMine"
                       [] req[w].op = "create" -> "insertSpace"
                       [] req[w].op = "use" /\ req[w].id = Mine -> "handle"
                       [] OTHER -> "access"
               r == [req[w] EXCEPT !.identity = identity, !.session = None, !.pc = pc]
    <3>1. /\ SyncAdmits(req[w].op, req[w].id, req[w].session)
          /\ req' = [req EXCEPT ![w] = r]
          /\ OnlyReqChanges
      BY <1>1, <1>5, <2>2 DEF Authenticate
    <3>2. Forwarded(req[w].session) /\ req[w] \in Request
      BY <1>1, <1>5 DEF Authenticate, At, AdmissionInv, AdmissionOK
    <3>3. LetIn(identity)
      BY <3>1, <3>2, BothLetIn
    <3>4. pc \in {"insertMine", "insertSpace", "handle", "access"}
      OBVIOUS
    <3> HIDE DEF identity, pc
    <3>5. r.pc = pc /\ r.identity = identity
      BY <3>2 DEF Request
    <3> HIDE DEF r
    <3>6. AdmissionOK(r)
      BY <3>3, <3>4, <3>5 DEF AdmissionOK
    <3> QED BY <3>1, <3>6, AdmissionOfRequest DEF OnlyReqChanges
  <2> QED BY <2>1, <2>2
<1>6. ASSUME NEW w \in Workers, Access(w) PROVE AdmissionInv'
  <2>1. CASE Finish(w)
    BY <1>6, <2>1, AdmissionOfFinish DEF Access, OnlyReqChanges
  <2>2. CASE Goto(w, "handle")
    <3> DEFINE r == [req[w] EXCEPT !.pc = "handle"]
    <3>1. req' = [req EXCEPT ![w] = r] /\ OnlyReqChanges
      BY <1>1, <1>6, <2>2 DEF Access, Goto
    <3>2. r.pc = "handle" /\ r.identity = req[w].identity /\ LetIn(req[w].identity)
      BY <1>1, <1>6 DEF Access, At, AdmissionInv, AdmissionOK, Request
    <3> HIDE DEF r
    <3>3. AdmissionOK(r)
      BY <3>2 DEF AdmissionOK
    <3> QED BY <3>1, <3>3, AdmissionOfRequest DEF OnlyReqChanges
  <2> QED BY <1>6, <2>1, <2>2 DEF Access
<1>7. ASSUME NEW w \in Workers, InsertSpace(w) PROVE AdmissionInv'
  <2>1. UNCHANGED <<config, issued>> /\ req' = [req EXCEPT ![w] = Idle]
    BY <1>7 DEF InsertSpace, Finish
  <2>2. CASE space' = space
    BY <1>7, <2>1, <2>2, AdmissionOfFinish DEF InsertSpace
  <2>3. CASE space' # space
    <3> DEFINE row == [state |-> "active", owner |-> None, expires |-> clock + SpaceTtl]
    <3>1. /\ space' = [space EXCEPT ![req[w].id] = row]
          /\ req[w].identity = None
      BY <1>7, <2>3 DEF InsertSpace, Creatable
    <3>2. LetIn(None) /\ req[w].id \in Spaces
      BY <1>7, <3>1 DEF InsertSpace, At, AdmissionInv, AdmissionOK, IInv, TypeOK, IdKnown
    <3>3. row.owner = None /\ AdmissionOK(Idle)
      BY DEF AdmissionOK, Idle
    <3> HIDE DEF row
    <3> QED BY <2>1, <3>1, <3>2, <3>3, AdmissionOfRow
  <2> QED BY <2>2, <2>3
<1>8. ASSUME NEW w \in Workers, NEW i \in Spaces, InsertMine(w, i) PROVE AdmissionInv'
  <2> DEFINE r == [req[w] EXCEPT !.pc = "selectMine", !.id = i]
             row == [state |-> "active", owner |-> req[w].identity, expires |-> None]
  <2>1. UNCHANGED <<config, issued>> /\ req' = [req EXCEPT ![w] = r]
    BY <1>1, <1>8 DEF InsertMine
  <2>2. LetIn(req[w].identity)
    BY <1>8 DEF InsertMine, At, AdmissionInv, AdmissionOK
  <2>3. r.pc = "selectMine" /\ r.identity = req[w].identity /\ row.owner = req[w].identity
    BY <1>1 DEF Request
  <2>4. space' = space \/ space' = [space EXCEPT ![i] = row]
    BY <1>8 DEF InsertMine
  <2> HIDE DEF r, row
  <2>5. AdmissionOK(r)
    BY <2>2, <2>3 DEF AdmissionOK
  <2>6. CASE space' = space
    BY <2>1, <2>5, <2>6, AdmissionOfRequest
  <2>7. CASE space' = [space EXCEPT ![i] = row]
    BY <2>1, <2>2, <2>3, <2>5, <2>7, AdmissionOfRow
  <2> QED BY <2>4, <2>6, <2>7
<1>9. ASSUME NEW w \in Workers, SelectMine(w) \/ End(w) PROVE AdmissionInv'
  BY <1>9, AdmissionOfFinish DEF SelectMine, End, OnlyReqChanges
<1> QED BY <1>2, <1>3, <1>4, <1>5, <1>6, <1>7, <1>8, <1>9 DEF Next, Surroundings

\* No row of sync_spaces comes to be, and no handler works, on the word of the
\* gateway or of the sync worker alone, whatever their settings and keys, and
\* however long after their checks.
THEOREM AdmissionCorrect == Spec => []AdmittedByBoth
<1>1. AdmissionInv => AdmittedByBoth
  BY DEF AdmissionInv, AdmissionOK, RowAdmitted, AdmittedByBoth, At
<1> QED BY <1>1, Invariance, AdmissionInit, AdmissionStep, PTL DEF Spec

\* Behind an equally configured gateway no client is refused that the sync
\* worker would serve.
THEOREM GatewayCorrect == Spec => []GatewayAgrees
<1>1. GatewayAgrees
  BY DEF GatewayAgrees, SyncAdmits, GatewayAdmits
<1> QED BY <1>1, PTL
=============================================================================
