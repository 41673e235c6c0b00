------------------------------ MODULE OAuthLogin ------------------------------
(***************************************************************************)
(* Logging in through an external provider: the oauth worker with its D1   *)
(* tables, the identity worker it calls, and the provider.  A request      *)
(* advances by one call per step, takes its time and its configuration     *)
(* when it starts, and may disappear between any two calls, which also     *)
(* stands for every error no handler catches.                              *)
(*                                                                         *)
(* A subject is a (provider_key, subject) pair.  A login is named by its   *)
(* state, and stands for its PKCE verifier and its nonce as well: the      *)
(* provider gives a token only for the code it issued for that login.      *)
(***************************************************************************)
EXTENDS Integers

CONSTANTS
    Logins,         \* login transactions: values of state
    Codes,          \* callback codes
    Subjects,       \* people as the providers know them
    Accounts,       \* account ids
    Targets,        \* frontend redirect URIs
    Workers,        \* concurrent requests of the oauth worker
    TypeOf,         \* [Subjects -> Types]: who knows the subject
    LoginTtl,       \* OAUTH_LOGIN_TTL_SECONDS, in clock units
    CodeTtl,        \* OAUTH_CALLBACK_CODE_TTL_SECONDS, in clock units
    MaxTime,        \* bound of the clock
    MaxDeploys,     \* bound of the configuration changes
    None

Types == {"oidc", "orangeauth"}

ASSUME LoginAssumption ==
    /\ None \notin Logins \cup Codes \cup Subjects \cup Accounts \cup Targets
    /\ TypeOf \in [Subjects -> Types]
    /\ LoginTtl \in Nat /\ CodeTtl \in Nat
    /\ MaxTime \in Nat /\ MaxDeploys \in Nat

VARIABLES
    clock,
    config,         \* the deployed provider type and frontend allowlist
    login,          \* oauth_login_transactions rows
    grant,          \* at the provider: what became of each login
    mapping,        \* oauth_mappings rows: the account of a subject
    code,           \* oauth_callback_codes rows
    accounts,       \* identity: rows of accounts
    session,        \* identity: sessions signed for each callback code
    req             \* what each worker is doing

rowVars == <<login, mapping, code>>
worldVars == <<clock, config, grant>>
vars == <<worldVars, rowVars, accounts, session, req>>

AccountOrNone == Accounts \cup {None}
Config == [type : Types, targets : SUBSET Targets, deploys : Nat]
LoginRow ==
    [state : {"absent", "open", "consumed"}, type : Types,
     target : Targets \cup {None}, expires : Nat]
\* token: the access token the provider has issued for this login.
Grant == [subject : Subjects \cup {None}, token : {"none", "live", "revoked"}]
\* login is not a column: it records which login the code was made for.
CodeRow ==
    [state : {"absent", "open", "consumed"}, login : Logins \cup {None},
     account : AccountOrNone, expires : Nat]
Session == [n : Nat, account : AccountOrNone, at : Nat]

Pcs == {"idle", "consumeLogin", "token", "userinfo", "revoke", "findMapping",
        "createAccount", "insertMapping", "readMapping", "insertCode",
        "consumeCode", "createSession"}
\* Where the provider's answer is known.
IdentifiedPcs ==
    {"findMapping", "createAccount", "insertMapping", "readMapping", "insertCode"}
Request ==
    [pc : Pcs, now : Nat, type : Types, targets : SUBSET Targets,
     login : Logins \cup {None}, denied : BOOLEAN, code : Codes \cup {None},
     subject : Subjects \cup {None}, account : AccountOrNone]

Idle ==
    [pc |-> "idle", now |-> 0, type |-> "oidc", targets |-> {}, login |-> None,
     denied |-> FALSE, code |-> None, subject |-> None, account |-> None]

TypeOK ==
    /\ clock \in Nat
    /\ config \in Config
    /\ login \in [Logins -> LoginRow]
    /\ grant \in [Logins -> Grant]
    /\ mapping \in [Subjects -> AccountOrNone]
    /\ code \in [Codes -> CodeRow]
    /\ accounts \subseteq Accounts
    /\ session \in [Codes -> Session]
    /\ req \in [Workers -> Request]
    /\ \A w \in Workers : req[w].pc \in IdentifiedPcs => req[w].subject # None

Init ==
    /\ clock = 0
    /\ \E type \in Types : config = [type |-> type, targets |-> Targets, deploys |-> 0]
    /\ login = [l \in Logins |->
                  [state |-> "absent", type |-> "oidc", target |-> None, expires |-> 0]]
    /\ grant = [l \in Logins |-> [subject |-> None, token |-> "none"]]
    /\ mapping = [s \in Subjects |-> None]
    /\ code = [c \in Codes |->
                 [state |-> "absent", login |-> None, account |-> None, expires |-> 0]]
    /\ accounts = {}
    /\ session = [c \in Codes |-> [n |-> 0, account |-> None, at |-> 0]]
    /\ req = [w \in Workers |-> Idle]

-----------------------------------------------------------------------------
(* The world around the worker *)

Tick ==
    /\ clock < MaxTime
    /\ clock' = clock + 1
    /\ UNCHANGED <<config, grant, rowVars, accounts, session, req>>

\* A deployment changes the provider or the list of frontends.
Redeploy(type, targets) ==
    /\ config.deploys < MaxDeploys
    /\ config' = [type |-> type, targets |-> targets, deploys |-> config.deploys + 1]
    /\ UNCHANGED <<clock, grant, rowVars, accounts, session, req>>

\* At the provider a person approves the login and is sent to the callback.
Approve(l, s) ==
    /\ login[l].state # "absent"
    /\ TypeOf[s] = login[l].type
    /\ grant[l].subject = None
    /\ grant' = [grant EXCEPT ![l].subject = s]
    /\ UNCHANGED <<clock, config, rowVars, accounts, session, req>>

-----------------------------------------------------------------------------
(* Control flow of a worker *)

At(w, pc) == req[w].pc = pc
Continue(w, r) == req' = [req EXCEPT ![w] = r]
Goto(w, pc) == Continue(w, [req[w] EXCEPT !.pc = pc])
Finish(w) == Continue(w, Idle)
New(pc) ==
    [Idle EXCEPT !.pc = pc, !.now = clock, !.type = config.type, !.targets = config.targets]

\* The worker disappears, or throws what becomes an error page.
Crash(w) ==
    /\ ~At(w, "idle")
    /\ Finish(w)
    /\ UNCHANGED <<worldVars, rowVars, accounts, session>>

-----------------------------------------------------------------------------
(* GET /v1/oauth/authorize: beginAuthorization *)

Begin(l, target) ==
    /\ login[l].state = "absent"
    /\ target \in config.targets
    /\ login' = [login EXCEPT ![l] = [state |-> "open", type |-> config.type,
                                      target |-> target, expires |-> clock + LoginTtl]]
    /\ UNCHANGED <<worldVars, mapping, code, accounts, session, req>>

-----------------------------------------------------------------------------
(* GET /v1/oauth/callback: completeCallback *)

\* The browser may send the callback more than once.
StartCallback(w, l, denied) ==
    /\ At(w, "idle")
    /\ Continue(w, [New("consumeLogin") EXCEPT !.login = l, !.denied = denied])
    /\ UNCHANGED <<worldVars, rowVars, accounts, session>>

CanConsumeLogin(l, now) == login[l].state = "open" /\ login[l].expires > now

\* Faulty variant: the frontend is not checked against the allowlist again.
AcceptableAnyTarget(w) == login[req[w].login].type = req[w].type /\ ~req[w].denied
Acceptable(w) ==
    /\ login[req[w].login].target \in req[w].targets
    /\ login[req[w].login].type = req[w].type
    /\ ~req[w].denied

\* After the transaction is spent the frontend, the provider and the answer
\* are looked at; whatever is wrong with them, it stays spent.
ConsumeLogin(w) ==
    /\ At(w, "consumeLogin")
    /\ LET l == req[w].login
       IN  IF CanConsumeLogin(l, req[w].now)
           THEN /\ login' = [login EXCEPT ![l].state = "consumed"]
                /\ IF Acceptable(w) THEN Goto(w, "token") ELSE Finish(w)
           ELSE Finish(w) /\ UNCHANGED login
    /\ UNCHANGED <<worldVars, mapping, code, accounts, session>>

\* The claims of the id_token, validated against the login's state and nonce.
OidcIdentity(w) ==
    Continue(w, [req[w] EXCEPT !.pc = "findMapping", !.subject = grant[req[w].login].subject])

\* The provider gives one token for the code of an approved login.  With OIDC
\* its answer names the subject; OrangeAuth is asked for it.
Token(w) ==
    /\ At(w, "token")
    /\ LET l == req[w].login
       IN  /\ grant[l].subject # None /\ grant[l].token = "none"
           /\ grant' = [grant EXCEPT ![l].token = "live"]
           /\ \/ req[w].type = "oidc" /\ OidcIdentity(w)
              \/ req[w].type = "orangeauth" /\ Goto(w, "userinfo")
              \/ Finish(w)      \* the answer is lost or malformed
    /\ UNCHANGED <<clock, config, rowVars, accounts, session>>

\* userinfo fails, or names no subject, or the refresh token was malformed:
\* the token is revoked all the same.
Userinfo(w) ==
    /\ At(w, "userinfo")
    /\ \/ Continue(w, [req[w] EXCEPT !.pc = "revoke", !.subject = grant[req[w].login].subject])
       \/ Goto(w, "revoke")
    /\ UNCHANGED <<worldVars, rowVars, accounts, session>>

\* Faulty variant: a return in the finally clause swallows the error.
AfterRevokeAlways(w) == Goto(w, "findMapping")
AfterRevoke(w) == IF req[w].subject = None THEN Finish(w) ELSE Goto(w, "findMapping")

\* bestEffortRevoke
Revoke(w) ==
    /\ At(w, "revoke")
    /\ \/ grant' = [grant EXCEPT ![req[w].login].token = "revoked"]
       \/ UNCHANGED grant
    /\ AfterRevoke(w)
    /\ UNCHANGED <<clock, config, rowVars, accounts, session>>

FindMapping(w) ==
    /\ At(w, "findMapping")
    /\ LET account == mapping[req[w].subject]
       IN  Continue(w, [req[w] EXCEPT !.account = account,
                          !.pc = IF account = None THEN "createAccount" ELSE "insertCode"])
    /\ UNCHANGED <<worldVars, rowVars, accounts, session>>

\* Faulty variant: a failed INSERT goes unnoticed.
StoredAccountMaybe(a) == accounts' \in {accounts, accounts \cup {a}}
StoredAccount(a) == accounts' = accounts \cup {a}

\* identity inserts an account under a fresh id; its answer may be lost.
CreateAccount(w) ==
    /\ At(w, "createAccount")
    /\ \E a \in Accounts \ accounts :
         /\ StoredAccount(a)
         /\ \/ Continue(w, [req[w] EXCEPT !.pc = "insertMapping", !.account = a])
            \/ Finish(w)
    /\ UNCHANGED <<worldVars, rowVars, session>>

\* Faulty variant: INSERT OR REPLACE.
InsertedMappingReplace(s, a) == [mapping EXCEPT ![s] = a]
\* INSERT OR IGNORE under PRIMARY KEY (provider_key, subject)
InsertedMapping(s, a) ==
    IF mapping[s] = None THEN [mapping EXCEPT ![s] = a] ELSE mapping

InsertMapping(w) ==
    /\ At(w, "insertMapping")
    /\ mapping' = InsertedMapping(req[w].subject, req[w].account)
    /\ Goto(w, "readMapping")
    /\ UNCHANGED <<worldVars, login, code, accounts, session>>

\* Faulty variant: the account just created is taken for the mapped one.
MappedAccountOwn(w) == req[w].account
\* The row that is there now, whoever inserted it.
MappedAccount(w) == mapping[req[w].subject]

ReadMapping(w) ==
    /\ At(w, "readMapping")
    /\ Continue(w, [req[w] EXCEPT !.pc = "insertCode", !.account = MappedAccount(w)])
    /\ UNCHANGED <<worldVars, rowVars, accounts, session>>

\* A fresh random code, which the redirect carries to the frontend.
InsertCode(w) ==
    /\ At(w, "insertCode")
    /\ \E c \in Codes :
         /\ code[c].state = "absent"
         /\ code' = [code EXCEPT ![c] =
                       [state |-> "open", login |-> req[w].login,
                        account |-> req[w].account, expires |-> req[w].now + CodeTtl]]
    /\ Finish(w)
    /\ UNCHANGED <<worldVars, login, mapping, accounts, session>>

-----------------------------------------------------------------------------
(* POST /v1/oauth/session: exchangeCallbackCode *)

StartExchange(w, c) ==
    /\ At(w, "idle")
    /\ code[c].state # "absent"
    /\ Continue(w, [New("consumeCode") EXCEPT !.code = c])
    /\ UNCHANGED <<worldVars, rowVars, accounts, session>>

\* Faulty variant: the UPDATE lacks "consumed_at IS NULL".
CanConsumeCodeTwice(c, now) == code[c].state # "absent" /\ code[c].expires > now
CanConsumeCode(c, now) == code[c].state = "open" /\ code[c].expires > now

ConsumeCode(w) ==
    /\ At(w, "consumeCode")
    /\ LET c == req[w].code
       IN  IF CanConsumeCode(c, req[w].now)
           THEN /\ code' = [code EXCEPT ![c].state = "consumed"]
                /\ Continue(w, [req[w] EXCEPT !.pc = "createSession", !.account = code[c].account])
           ELSE Finish(w) /\ UNCHANGED code
    /\ UNCHANGED <<worldVars, login, mapping, accounts, session>>

\* identity signs for an existing account only; its answer may be lost.
CreateSession(w) ==
    /\ At(w, "createSession")
    /\ LET c == req[w].code
       IN  session' = IF req[w].account \in accounts
                      THEN [session EXCEPT ![c] = [n |-> @.n + 1, account |-> req[w].account,
                                                   at |-> req[w].now]]
                      ELSE session
    /\ Finish(w)
    /\ UNCHANGED <<worldVars, rowVars, accounts>>

-----------------------------------------------------------------------------

Next ==
    \/ Tick
    \/ \E type \in Types, targets \in SUBSET Targets : Redeploy(type, targets)
    \/ \E l \in Logins, s \in Subjects : Approve(l, s)
    \/ \E l \in Logins, target \in Targets : Begin(l, target)
    \/ \E w \in Workers :
         \/ \E l \in Logins, denied \in BOOLEAN : StartCallback(w, l, denied)
         \/ \E c \in Codes : StartExchange(w, c)
         \/ ConsumeLogin(w) \/ Token(w) \/ Userinfo(w) \/ Revoke(w)
         \/ FindMapping(w) \/ CreateAccount(w) \/ InsertMapping(w) \/ ReadMapping(w)
         \/ InsertCode(w) \/ ConsumeCode(w) \/ CreateSession(w) \/ Crash(w)

Spec == Init /\ [][Next]_vars

-----------------------------------------------------------------------------
(* Properties *)

\* Whose login a callback code was made for, and the account that person has.
CodeSubject(c) == grant[code[c].login].subject

\* However many first callbacks of a person race, every callback code and
\* every session is for the one account mapped to the person who approved.
OwnAccount ==
    \A c \in Codes : code[c].state # "absent" =>
      /\ CodeSubject(c) # None
      /\ mapping[CodeSubject(c)] # None
      /\ code[c].account = mapping[CodeSubject(c)]
      /\ session[c].n > 0 => session[c].account = code[c].account

\* Accounts are not shared, and an account that is used exists at identity.
AccountsSeparate ==
    \A s \in Subjects : mapping[s] # None =>
      /\ mapping[s] \in accounts
      /\ \A t \in Subjects : mapping[t] = mapping[s] => t = s

\* A login gives at most one session, although the callback and the code may
\* be sent any number of times and at the same time.
OneSessionPerLogin ==
    \A c, d \in Codes :
      /\ session[c].n <= 1
      /\ session[c].n > 0 /\ session[d].n > 0 /\ code[c].login = code[d].login => c = d

\* The two expiries add up: a session comes before the login's expiry plus the
\* lifetime of a code, however slow the requests in between are.
SessionInTime ==
    \A c \in Codes : session[c].n > 0 => session[c].at < login[code[c].login].expires + CodeTtl

\* The account of a person is settled by the first mapping.
MappingFinal ==
    [][\A s \in Subjects : mapping[s] # None => mapping'[s] = mapping[s]]_vars

\* No code is made for a frontend that the configuration of its callback no
\* longer allows, nor after the provider has been exchanged for another.
CodeMatchesConfig ==
    [][\A w \in Workers :
         At(w, "insertCode") /\ code' # code /\ req'[w] # req[w] =>
           /\ login[req[w].login].target \in req[w].targets
           /\ TypeOf[req[w].subject] = req[w].type]_vars

-----------------------------------------------------------------------------

Login == INSTANCE LoginSessions WITH
    stage <- [l \in Logins |-> login[l].state],
    subject <- [l \in Logins |-> grant[l].subject],
    owner <- mapping,
    sessions <- [l \in Logins |->
                   UNION {{<<c, i, session[c].account>> : i \in 1 .. session[c].n} :
                            c \in {d \in Codes : code[d].login = l}}]

ImplementsLogin == Login!Spec
=============================================================================
