------------------------------ MODULE SyncAccess ------------------------------
(***************************************************************************)
(* Who may do what to which space: the gateway worker, the sync worker     *)
(* behind it, and the rows of sync_spaces, down to the point where a       *)
(* handler starts to work.  The two workers are deployed separately, each  *)
(* with its own ALLOW_ANONYMOUS_SPACES and JWT_SECRET, and identity signs  *)
(* sessions with a key of its own; no two of these are assumed to agree.   *)
(* A request reads each worker's settings once, and advances by one        *)
(* database call per step; what handlers do is in the other modules.       *)
(***************************************************************************)
EXTENDS Integers

CONSTANTS
    Accounts,
    Spaces,         \* space ids
    EphemeralIds,   \* those with the prefix e2e-cf-
    Mine,           \* the id "mine", whose paths skip the access check
    Keys,           \* values of JWT_SECRET
    Workers,        \* concurrent requests
    SessionTtl,     \* SESSION_TTL_SECONDS, in clock units
    SpaceTtl,       \* ANONYMOUS_SPACE_TTL_MS, in clock units
    MaxTime,        \* bound of the clock
    Malformed,      \* an Authorization header that holds no signed session
    None

ASSUME AccessAssumption ==
    /\ EphemeralIds \subseteq Spaces
    /\ Mine \in Spaces \ EphemeralIds
    /\ None \notin Accounts \cup Spaces \cup Keys \cup Nat
    /\ SessionTtl \in Nat /\ SpaceTtl \in Nat
    /\ MaxTime \in Nat

VARIABLES
    clock,
    signer,         \* the key identity signs with
    config,         \* of the gateway and of the sync worker
    issued,         \* sessions identity has signed
    space,          \* sync_spaces rows
    answers,        \* the space ids each account was told are its own
    req             \* what each request is doing

vars == <<clock, signer, config, issued, space, answers, req>>

Config == [anonymous : {"true", "false", "invalid"}, key : Keys \cup {None}]
Session == [account : Accounts, key : Keys, iat : Nat, exp : Nat]
\* owner is None for an anonymous space, expires is None for a lasting one.
Row == [state : {"absent", "active", "deleting"}, owner : Accounts \cup {None},
        expires : Nat \cup {None}]
Ops == {"mine", "create", "use"}
Pcs == {"idle", "authenticate", "access", "insertMine", "selectMine",
        "insertSpace", "handle"}
\* identity is None for an anonymous request.
Request ==
    [pc : Pcs, op : Ops, id : Spaces \cup {None},
     session : Session \cup {None, Malformed}, identity : Accounts \cup {None}]

Absent == [state |-> "absent", owner |-> None, expires |-> None]
Idle == [pc |-> "idle", op |-> "use", id |-> None, session |-> None, identity |-> None]

\* Every request but one for "mine" names a space.
IdKnown(r) ==
    r.pc \in {"access", "insertSpace", "handle"} \/ (r.pc = "authenticate" /\ r.op # "mine")
      => r.id \in Spaces

\* What the triggers of the schema insist on.
LifecycleOK(i) ==
    /\ space[i].owner # None => space[i].state = "active" /\ space[i].expires = None
    /\ space[i].state # "absent" => (space[i].expires # None <=> i \in EphemeralIds)

TypeOK ==
    /\ clock \in Nat
    /\ signer \in Keys
    /\ config \in [{"gateway", "sync"} -> Config]
    /\ issued \subseteq Session
    /\ space \in [Spaces -> Row]
    /\ answers \in [Accounts -> SUBSET Spaces]
    /\ req \in [Workers -> Request]
    /\ \A w \in Workers : IdKnown(req[w])
    /\ \A i \in Spaces : LifecycleOK(i)

\* The spaces there were before spaces had owners are anonymous and lasting.
Init ==
    /\ clock = 0
    /\ signer \in Keys
    /\ config \in [{"gateway", "sync"} -> Config]
    /\ issued = {}
    /\ \E old \in SUBSET (Spaces \ (EphemeralIds \cup {Mine})) :
         space = [i \in Spaces |->
                    IF i \in old THEN [Absent EXCEPT !.state = "active"] ELSE Absent]
    /\ answers = [a \in Accounts |-> {}]
    /\ req = [w \in Workers |-> Idle]

-----------------------------------------------------------------------------
(* The surroundings *)

Tick ==
    /\ clock < MaxTime
    /\ clock' = clock + 1
    /\ UNCHANGED <<signer, config, issued, space, answers, req>>

\* identity: createSession
Login(a) ==
    /\ issued' = issued \cup
         {[account |-> a, key |-> signer, iat |-> clock, exp |-> clock + SessionTtl]}
    /\ UNCHANGED <<clock, signer, config, space, answers, req>>

\* Faulty variant: neither the owner nor a missing expiry is looked at.
ExpiredRowAnyExpiry(r) == r.state = "active" /\ (r.expires # None => r.expires <= clock)
ExpiredRow(r) ==
    /\ r.state = "active" /\ r.owner = None
    /\ r.expires # None /\ r.expires <= clock

\* The cleaner claims an expired space, and later removes its row.
Claim(i) ==
    /\ ExpiredRow(space[i])
    /\ space' = [space EXCEPT ![i].state = "deleting"]
    /\ UNCHANGED <<clock, signer, config, issued, answers, req>>

Remove(i) ==
    /\ space[i].state = "deleting"
    /\ space' = [space EXCEPT ![i] = Absent]
    /\ UNCHANGED <<clock, signer, config, issued, answers, req>>

-----------------------------------------------------------------------------
(* Both workers: the configuration and the session *)

\* verifyRequestJwt: signed with this key, not from the future, not expired.
Verified(s, key) == s \in issued /\ s.key = key /\ s.iat <= clock /\ clock < s.exp

\* Faulty variant: the key is asked for before the header is looked at.
GatewayAdmitsKeyFirst(op, s) ==
    /\ config["gateway"].anonymous # "invalid" /\ config["gateway"].key # None
    /\ IF s = None
       THEN config["gateway"].anonymous = "true" /\ op # "mine"
       ELSE Verified(s, config["gateway"].key)
\* authorizeSyncRequest at the gateway.
GatewayAdmits(op, s) ==
    /\ config["gateway"].anonymous # "invalid"
    /\ IF s = None
       THEN config["gateway"].anonymous = "true" /\ op # "mine"
       ELSE config["gateway"].key # None /\ Verified(s, config["gateway"].key)

\* Faulty variant: the account is read from the session the gateway has verified.
SyncAdmitsDecoded(op, i, s) ==
    IF s = None
    THEN config["sync"].anonymous = "true" /\ op # "mine" /\ (op = "use" => i # Mine)
    ELSE s # Malformed
\* authenticateRequest at the sync worker; a path mine/... needs a session too.
SyncAdmits(op, i, s) ==
    IF s = None
    THEN config["sync"].anonymous = "true" /\ op # "mine" /\ (op = "use" => i # Mine)
    ELSE config["sync"].key # None /\ Verified(s, config["sync"].key)

-----------------------------------------------------------------------------
(* The course of a request *)

At(w, pc) == req[w].pc = pc
Finish(w) == req' = [req EXCEPT ![w] = Idle]
Goto(w, pc) == req' = [req EXCEPT ![w].pc = pc]
OnlyReqChanges == UNCHANGED <<clock, signer, config, issued, space, answers>>

\* A request that the gateway refuses changes nothing.
Send(w, op, i, s) ==
    /\ At(w, "idle")
    /\ i = None <=> op = "mine"
    /\ GatewayAdmits(op, s)
    /\ req' = [req EXCEPT ![w] = [pc |-> "authenticate", op |-> op, id |-> i,
                                  session |-> s, identity |-> None]]
    /\ OnlyReqChanges

\* The middleware, up to its first query.
Authenticate(w) ==
    /\ At(w, "authenticate")
    /\ LET r == req[w]
           identity == IF r.session = None THEN None ELSE r.session.account
       IN  \/ /\ ~SyncAdmits(r.op, r.id, r.session)
              /\ Finish(w)
           \/ /\ SyncAdmits(r.op, r.id, r.session)
              /\ req' = [req EXCEPT ![w].identity = identity, ![w].session = None,
                           ![w].pc = CASE r.op = "mine" -> "insertMine"
                                       [] r.op = "create" -> "insertSpace"
                                       [] r.op = "use" /\ r.id = Mine -> "handle"
                                       [] OTHER -> "access"]
    /\ OnlyReqChanges

\* isSpaceAvailableAt
Available(r) == r.state = "active" /\ (r.expires = None \/ clock < r.expires)

\* Faulty variant: any account may use any account's space.
MayUseAnyAccount(identity, i) ==
    /\ identity = None => i \in EphemeralIds
    /\ Available(space[i])
    /\ identity = None <=> space[i].owner = None
\* assertSpaceAccess
MayUse(identity, i) ==
    /\ identity = None => i \in EphemeralIds
    /\ Available(space[i])
    /\ space[i].owner = identity

Access(w) ==
    /\ At(w, "access")
    /\ IF MayUse(req[w].identity, req[w].id) THEN Goto(w, "handle") ELSE Finish(w)
    /\ OnlyReqChanges

\* The handler works on the space; it may end, or the worker disappear, at
\* any point of the request.
End(w) ==
    /\ ~At(w, "idle")
    /\ Finish(w)
    /\ OnlyReqChanges

\* Faulty variant: any id may be created.
CreatableAny(w) == req[w].identity = None
Creatable(w) == req[w].identity = None /\ req[w].id \in EphemeralIds

\* POST /v1/sync/spaces: createSpace, an INSERT OR IGNORE.
InsertSpace(w) ==
    /\ At(w, "insertSpace")
    /\ space' = IF Creatable(w) /\ space[req[w].id].state = "absent"
                THEN [space EXCEPT ![req[w].id] =
                        [state |-> "active", owner |-> None, expires |-> clock + SpaceTtl]]
                ELSE space
    /\ Finish(w)
    /\ UNCHANGED <<clock, signer, config, issued, answers>>

\* The id is not taken, and the index over the owners is UNIQUE.
CanInsertMine(a, i) ==
    /\ space[i].state = "absent"
    /\ \A j \in Spaces : space[j].owner # a

\* GET /v1/sync/spaces/mine: getOrCreateAccountSpace, an INSERT OR IGNORE
\* under a random id, and then a SELECT by owner.
InsertMine(w, i) ==
    /\ At(w, "insertMine")
    /\ i \in Spaces \ (EphemeralIds \cup {Mine})
    /\ space[i].state = "absent" \/ \E j \in Spaces : space[j].owner = req[w].identity
    /\ space' = IF CanInsertMine(req[w].identity, i)
                THEN [space EXCEPT ![i] =
                        [state |-> "active", owner |-> req[w].identity, expires |-> None]]
                ELSE space
    /\ req' = [req EXCEPT ![w].pc = "selectMine", ![w].id = i]
    /\ UNCHANGED <<clock, signer, config, issued, answers>>

\* Faulty variant: the request answers with the id it made up.
FoundMineOwn(w, i) == req[w].id = i
FoundMine(w, i) == space[i].owner = req[w].identity

SelectMine(w) ==
    /\ At(w, "selectMine")
    /\ \E i \in Spaces :
         /\ FoundMine(w, i)
         /\ answers' = [answers EXCEPT ![req[w].identity] = @ \cup {i}]
    /\ Finish(w)
    /\ UNCHANGED <<clock, signer, config, issued, space>>

Next ==
    \/ Tick
    \/ \E a \in Accounts : Login(a)
    \/ \E i \in Spaces : Claim(i) \/ Remove(i)
    \/ \E w \in Workers :
         \/ \E op \in Ops, i \in Spaces \cup {None}, s \in issued \cup {None, Malformed} :
              Send(w, op, i, s)
         \/ Authenticate(w) \/ Access(w) \/ InsertSpace(w) \/ SelectMine(w) \/ End(w)
         \/ \E i \in Spaces : InsertMine(w, i)

Spec == Init /\ [][Next]_vars

-----------------------------------------------------------------------------
(* Properties *)

\* The two checks and the work of a handler are separate steps, and paths
\* under "mine" skip the second check.  Still, whatever space a handler works
\* on is at that moment gone or the requester's own: an account never works
\* on a space of another or of nobody, an anonymous request never on an
\* account's, whatever happened to the row after it was read.
HandlerOwnsSpace ==
    \A w \in Workers : At(w, "handle") =>
      \/ space[req[w].id].state = "absent"
      \/ space[req[w].id].owner = req[w].identity

\* An account keeps one space: concurrent first requests for it are all
\* answered with the same id, which stays that account's active space.
OneSpacePerAccount ==
    \A a \in Accounts : \A i \in answers[a] :
      /\ answers[a] = {i}
      /\ space[i] = [state |-> "active", owner |-> a, expires |-> None]

\* The error of getOrCreateAccountSpace, that the space just inserted is not
\* there, cannot happen: no step takes the row away or hands it over.
MineIsThere ==
    \A w \in Workers : At(w, "selectMine") =>
      \E i \in Spaces : space[i].owner = req[w].identity

\* With the same, valid configuration the gateway turns away nothing that the
\* sync worker would let in.
GatewayAgrees ==
    config["gateway"] = config["sync"] /\ config["gateway"].anonymous # "invalid" =>
      \A op \in Ops, i \in Spaces, s \in issued \cup {None, Malformed} :
        SyncAdmits(op, i, s) => GatewayAdmits(op, s)

\* Both workers let a in, each by its own key, or let in nobody in particular.
LetIn(a) ==
    IF a = None
    THEN \A worker \in DOMAIN config : config[worker].anonymous = "true"
    ELSE \E s \in issued :
           s.account = a /\ \A worker \in DOMAIN config : s.key = config[worker].key

\* Neither worker stands in for the other: what a handler does and what is in
\* sync_spaces since, an account's space or an anonymous one, was let in by the
\* setting or by the key of both, although each decides at a time of its own
\* and the row is written later still.
AdmittedByBoth ==
    /\ \A w \in Workers : At(w, "handle") => LetIn(req[w].identity)
    /\ \A i \in Spaces :
         space[i].owner # None \/ (i \in EphemeralIds /\ space[i].state # "absent")
           => LetIn(space[i].owner)
=============================================================================
