--------------------------- MODULE OAuthLoginProofs ---------------------------
(***************************************************************************)
(* Logging in, for every number of people, logins, codes and concurrent    *)
(* requests, every pattern of crashes and repeated callbacks, and every    *)
(* change of the configuration.                                            *)
(***************************************************************************)
EXTENDS OAuthLogin, TLAPS

\* Between consuming a login and inserting its code.
LoginPcs == IdentifiedPcs \cup {"token", "userinfo", "revoke"}

\* What a request has established by the time it gets where it is.
LoginHeld(r) == r.pc \in LoginPcs =>
    /\ r.login \in Logins
    /\ login[r.login].state = "consumed"
    /\ \A c \in Codes : code[c].state # "absent" => code[c].login # r.login

SubjectKnown(r) ==
    /\ r.pc \in LoginPcs \ {"token"} => grant[r.login].subject # None
    /\ r.pc \in IdentifiedPcs => r.subject = grant[r.login].subject
    /\ r.pc = "revoke" => r.subject \in {None, grant[r.login].subject}
    /\ r.pc \in {"consumeLogin", "token", "userinfo"} => r.subject = None

AccountKnown(r) ==
    /\ r.pc = "insertMapping" => r.account \in accounts /\ \A s \in Subjects : mapping[s] # r.account
    /\ r.pc = "readMapping" => mapping[r.subject] # None
    /\ r.pc = "insertCode" => r.account = mapping[r.subject] /\ r.account # None

CodeHeld(r) == r.pc = "createSession" =>
    /\ code[r.code].state = "consumed"
    /\ session[r.code].n = 0
    /\ r.account = code[r.code].account

Arguments(r) ==
    /\ r.pc = "consumeLogin" => r.login \in Logins
    /\ r.pc \in {"consumeCode", "createSession"} => r.code \in Codes /\ code[r.code].state # "absent"

RequestOK(r) ==
    /\ Arguments(r) /\ LoginHeld(r) /\ SubjectKnown(r) /\ AccountKnown(r) /\ CodeHeld(r)

\* What two requests never share.
Apart(r, q) ==
    /\ r.pc \in LoginPcs /\ q.pc \in LoginPcs => r.login # q.login
    /\ r.pc = "insertMapping" /\ q.pc = "insertMapping" => r.account # q.account
    /\ r.pc = "createSession" /\ q.pc = "createSession" => r.code # q.code

RequestsOK == \A w \in Workers : RequestOK(req[w])
RequestsApart == \A v, w \in Workers : v # w => Apart(req[v], req[w])

CodeOK(c) == code[c].state # "absent" =>
    /\ code[c].login \in Logins
    /\ login[code[c].login].state = "consumed"
    /\ grant[code[c].login].subject # None
    /\ mapping[grant[code[c].login].subject] # None
    /\ code[c].account = mapping[grant[code[c].login].subject]

CodesOK ==
    /\ \A c \in Codes : CodeOK(c)
    /\ \A c, d \in Codes :
         code[c].state # "absent" /\ code[d].state # "absent" /\ code[c].login = code[d].login => c = d

SessionsOK == \A c \in Codes :
    /\ session[c].n \in {0, 1}
    /\ session[c].n = 1 => code[c].state = "consumed" /\ session[c].account = code[c].account

IInv ==
    /\ TypeOK
    /\ RequestsOK
    /\ RequestsApart
    /\ CodesOK
    /\ SessionsOK
    /\ AccountsSeparate

-----------------------------------------------------------------------------
(* Records *)

LEMMA IdleOK ==
    /\ Idle \in Request
    /\ Idle.pc = "idle" /\ Idle.subject = None
    /\ RequestOK(Idle)
    /\ \A q : Apart(Idle, q) /\ Apart(q, Idle)
<1>1. Idle \in Request /\ Idle.pc = "idle" /\ Idle.subject = None
  BY DEF Idle, Request, Pcs, Types, AccountOrNone
<1> QED BY <1>1 DEF RequestOK, Arguments, LoginHeld, SubjectKnown, AccountKnown, CodeHeld, Apart,
           LoginPcs, IdentifiedPcs

LEMMA NewFields ==
    ASSUME TypeOK, NEW pc \in Pcs
    PROVE  New(pc) \in Request /\ New(pc).pc = pc
<1>1. config.type \in Types /\ config.targets \in SUBSET Targets /\ clock \in Nat
  BY DEF TypeOK, Config
<1> QED BY <1>1, IdleOK DEF New, Request

LEMMA NewCallback ==
    ASSUME TypeOK, NEW l \in Logins, NEW denied \in BOOLEAN
    PROVE  LET r == [New("consumeLogin") EXCEPT !.login = l, !.denied = denied]
           IN  r \in Request /\ r.pc = "consumeLogin" /\ r.login = l /\ r.subject = None
<1>1. New("consumeLogin") \in Request /\ New("consumeLogin").pc = "consumeLogin"
  BY NewFields DEF Pcs
<1>2. New("consumeLogin").subject = None
  BY IdleOK DEF New, Request
<1> QED BY <1>1, <1>2 DEF Request

LEMMA NewExchange ==
    ASSUME TypeOK, NEW c \in Codes
    PROVE  LET r == [New("consumeCode") EXCEPT !.code = c]
           IN  r \in Request /\ r.pc = "consumeCode" /\ r.code = c
<1>1. New("consumeCode") \in Request /\ New("consumeCode").pc = "consumeCode"
  BY NewFields DEF Pcs
<1> QED BY <1>1 DEF Request

LEMMA RequestReplaced ==
    ASSUME TypeOK, NEW w \in Workers, NEW r \in Request, Continue(w, r)
    PROVE  /\ req' \in [Workers -> Request]
           /\ req'[w] = r
           /\ \A v \in Workers \ {w} : req'[v] = req[v]
BY DEF Continue, TypeOK

\* One request goes on as r, whatever else the step does.
LEMMA RequestStep ==
    ASSUME IInv, NEW w \in Workers, NEW r \in Request, Continue(w, r),
           RequestOK(r)',
           \A v \in Workers \ {w} : RequestOK(req[v])',
           \A v \in Workers \ {w} : Apart(r, req[v])
    PROVE  RequestsOK' /\ RequestsApart'
<1>1. /\ req'[w] = r
      /\ \A v \in Workers \ {w} : req'[v] = req[v]
  BY RequestReplaced DEF IInv
<1>2. RequestsOK'
  BY <1>1 DEF RequestsOK
<1>3. \A v \in Workers \ {w} : Apart(req'[w], req'[v]) /\ Apart(req'[v], req'[w])
  BY <1>1 DEF Apart
<1>4. RequestsApart'
  BY <1>1, <1>3 DEF IInv, RequestsApart
<1> QED BY <1>2, <1>4

\* A step that only moves a request, which takes nothing new into its hands.
LEMMA OnlyReq ==
    ASSUME IInv, NEW w \in Workers, NEW r \in Request, Continue(w, r),
           UNCHANGED <<worldVars, rowVars, accounts, session>>,
           RequestOK(r),
           r.pc \in IdentifiedPcs => r.subject # None,
           r.pc \in LoginPcs => req[w].pc \in LoginPcs /\ r.login = req[w].login,
           r.pc \notin {"insertMapping", "createSession"}
    PROVE  IInv'
<1>1. UNCHANGED <<clock, config, grant, login, mapping, code, accounts, session>>
  BY DEF worldVars, rowVars
<1>2. /\ req' \in [Workers -> Request]
      /\ req'[w] = r
      /\ \A v \in Workers \ {w} : req'[v] = req[v]
  BY RequestReplaced DEF IInv
<1>3. TypeOK'
  BY <1>1, <1>2 DEF IInv, TypeOK
<1>4. RequestOK(r)' /\ \A v \in Workers \ {w} : RequestOK(req[v])'
  BY <1>1, <1>2 DEF IInv, RequestsOK, RequestOK, Arguments, LoginHeld, SubjectKnown, AccountKnown, CodeHeld
<1>5. \A v \in Workers \ {w} : Apart(r, req[v])
  BY DEF IInv, RequestsApart, Apart
<1>6. \A c \in Codes : CodeOK(c)'
  BY <1>1 DEF IInv, CodesOK, CodeOK
<1>7. CodesOK' /\ SessionsOK' /\ AccountsSeparate'
  BY <1>1, <1>6 DEF IInv, CodesOK, SessionsOK, AccountsSeparate
<1> QED BY <1>2, <1>3, <1>4, <1>5, <1>7, RequestStep DEF IInv

LEMMA FinishStep ==
    ASSUME IInv, NEW w \in Workers, Finish(w),
           UNCHANGED <<worldVars, rowVars, accounts, session>>
    PROVE  IInv'
BY OnlyReq, IdleOK DEF Finish, LoginPcs, IdentifiedPcs

-----------------------------------------------------------------------------
(* The world, the browser, and errors *)

\* Steps of nobody: each changes at most the login and grant rows, and those
\* only where no request has looked yet.
LEMMA WorldStep ==
    ASSUME IInv, UNCHANGED <<mapping, code, accounts, session, req>>, TypeOK',
           \A l \in Logins : login[l].state = "consumed" => login'[l].state = "consumed",
           \A l \in Logins : grant[l].subject # None => grant'[l].subject = grant[l].subject
    PROVE  IInv'
<1>1. \A w \in Workers : RequestOK(req[w])'
  <2> SUFFICES ASSUME NEW w \in Workers PROVE RequestOK(req[w])'
    OBVIOUS
  <2>1. RequestOK(req[w])
    BY DEF IInv, RequestsOK
  <2>2. LoginHeld(req[w])' /\ Arguments(req[w])' /\ AccountKnown(req[w])' /\ CodeHeld(req[w])'
    BY <2>1 DEF RequestOK, Arguments, LoginHeld, AccountKnown, CodeHeld
  <2>3. SubjectKnown(req[w])'
    BY <2>1 DEF RequestOK, LoginHeld, SubjectKnown, LoginPcs, IdentifiedPcs
  <2> QED BY <2>2, <2>3 DEF RequestOK
<1>2. \A c \in Codes : CodeOK(c)'
  BY DEF IInv, CodesOK, CodeOK
<1> QED BY <1>1, <1>2 DEF IInv, RequestsOK, RequestsApart, Apart, CodesOK, SessionsOK, AccountsSeparate

LEMMA TickStep == ASSUME IInv, Tick PROVE IInv'
<1>1. TypeOK'
  BY DEF IInv, TypeOK, Tick, rowVars
<1> QED BY <1>1, WorldStep DEF Tick, rowVars

LEMMA RedeployStep ==
    ASSUME IInv, NEW type \in Types, NEW targets \in SUBSET Targets, Redeploy(type, targets)
    PROVE  IInv'
<1>1. config' \in Config
  BY DEF IInv, TypeOK, Redeploy, Config
<1>2. TypeOK'
  BY <1>1 DEF IInv, TypeOK, Redeploy, rowVars
<1> QED BY <1>2, WorldStep DEF Redeploy, rowVars

LEMMA ApproveStep ==
    ASSUME IInv, NEW l \in Logins, NEW s \in Subjects, Approve(l, s)
    PROVE  IInv'
<1>1. /\ grant' \in [Logins -> Grant]
      /\ \A k \in Logins : grant[k].subject # None => grant'[k].subject = grant[k].subject
  <2> DEFINE g == [grant[l] EXCEPT !.subject = s]
  <2>1. g \in Grant
    BY DEF IInv, TypeOK, Grant
  <2>2. grant' = [grant EXCEPT ![l] = g] /\ grant[l].subject = None
    BY DEF IInv, TypeOK, Approve
  <2> HIDE DEF g
  <2> QED BY <2>1, <2>2 DEF IInv, TypeOK
<1>2. TypeOK'
  BY <1>1 DEF IInv, TypeOK, Approve, rowVars
<1> QED BY <1>1, <1>2, WorldStep DEF Approve, rowVars

LEMMA BeginStep ==
    ASSUME IInv, NEW l \in Logins, NEW target \in Targets, Begin(l, target)
    PROVE  IInv'
<1> DEFINE row == [state |-> "open", type |-> config.type, target |-> target,
                   expires |-> clock + LoginTtl]
<1>1. row \in LoginRow
  BY LoginAssumption DEF IInv, TypeOK, Config, LoginRow
<1>2. login' = [login EXCEPT ![l] = row] /\ login[l].state = "absent"
  BY DEF Begin
<1> HIDE DEF row
<1>3. /\ login' \in [Logins -> LoginRow]
      /\ \A k \in Logins : login[k].state = "consumed" => login'[k].state = "consumed"
  BY <1>1, <1>2 DEF IInv, TypeOK
<1>4. TypeOK'
  BY <1>3 DEF IInv, TypeOK, Begin, worldVars
<1> QED BY <1>3, <1>4, WorldStep DEF Begin, worldVars

LEMMA StartCallbackStep ==
    ASSUME IInv, NEW w \in Workers, NEW l \in Logins, NEW denied \in BOOLEAN,
           StartCallback(w, l, denied)
    PROVE  IInv'
<1> DEFINE r == [New("consumeLogin") EXCEPT !.login = l, !.denied = denied]
<1>1. r \in Request /\ r.pc = "consumeLogin" /\ r.login = l /\ r.subject = None
  BY NewCallback DEF IInv
<1>2. Continue(w, r) /\ UNCHANGED <<worldVars, rowVars, accounts, session>>
  BY DEF StartCallback
<1> HIDE DEF r
<1> QED BY <1>1, <1>2, OnlyReq DEF RequestOK, Arguments, LoginHeld, SubjectKnown, AccountKnown,
           CodeHeld, LoginPcs, IdentifiedPcs

LEMMA StartExchangeStep ==
    ASSUME IInv, NEW w \in Workers, NEW c \in Codes, StartExchange(w, c)
    PROVE  IInv'
<1> DEFINE r == [New("consumeCode") EXCEPT !.code = c]
<1>1. r \in Request /\ r.pc = "consumeCode" /\ r.code = c
  BY NewExchange DEF IInv
<1>2. /\ Continue(w, r) /\ UNCHANGED <<worldVars, rowVars, accounts, session>>
      /\ code[c].state # "absent"
  BY DEF StartExchange
<1> HIDE DEF r
<1> QED BY <1>1, <1>2, OnlyReq DEF RequestOK, Arguments, LoginHeld, SubjectKnown, AccountKnown,
           CodeHeld, LoginPcs, IdentifiedPcs

-----------------------------------------------------------------------------
(* The callback *)

\* What a request that moves to another pc takes with it.
LEMMA WithPc ==
    ASSUME NEW q \in Request, NEW pc \in Pcs
    PROVE  LET r == [q EXCEPT !.pc = pc]
           IN  /\ r \in Request /\ r.pc = pc
               /\ r.login = q.login /\ r.code = q.code
               /\ r.subject = q.subject /\ r.account = q.account
BY DEF Request

LEMMA ConsumeLoginStep ==
    ASSUME IInv, NEW w \in Workers, ConsumeLogin(w)
    PROVE  IInv'
<1> DEFINE l == req[w].login
           q == [req[w] EXCEPT !.pc = "token"]
<1>1. /\ req[w] \in Request /\ req[w].pc = "consumeLogin" /\ l \in Logins
      /\ req[w].subject = None
  BY DEF IInv, TypeOK, RequestsOK, RequestOK, Arguments, SubjectKnown, ConsumeLogin, At
<1>2. CASE ~CanConsumeLogin(l, req[w].now)
  BY <1>2, FinishStep DEF ConsumeLogin, rowVars
<1>3. CASE CanConsumeLogin(l, req[w].now)
  <2>1. /\ login' = [login EXCEPT ![l].state = "consumed"]
        /\ login[l].state = "open"
        /\ Continue(w, q) \/ Continue(w, Idle)
        /\ UNCHANGED <<clock, config, grant, mapping, code, accounts, session>>
    BY <1>3 DEF ConsumeLogin, CanConsumeLogin, Goto, Finish, worldVars
  <2>2. q \in Request /\ q.pc = "token" /\ q.login = l /\ q.subject = None
    BY <1>1, WithPc DEF Pcs
  <2>3. /\ login' \in [Logins -> LoginRow]
        /\ login'[l].state = "consumed"
        /\ \A k \in Logins \ {l} : login'[k] = login[k]
    <3> DEFINE row == [login[l] EXCEPT !.state = "consumed"]
    <3>1. row \in LoginRow /\ row.state = "consumed"
      BY <1>1 DEF IInv, TypeOK, LoginRow
    <3>2. login' = [login EXCEPT ![l] = row]
      BY <1>1, <2>1 DEF IInv, TypeOK
    <3> HIDE DEF row
    <3> QED BY <1>1, <3>1, <3>2 DEF IInv, TypeOK
  <2> HIDE DEF l, q
  <2>4. PICK r \in {q, Idle} : Continue(w, r)
    BY <2>1
  <2>5. /\ r \in Request /\ r.pc \in {"token", "idle"}
        /\ r.pc = "token" => r.login = l /\ r.subject = None
    BY <2>2, <2>4, IdleOK
  <2>6. /\ req' \in [Workers -> Request]
        /\ req'[w] = r
        /\ \A v \in Workers \ {w} : req'[v] = req[v]
    BY <2>4, <2>5, RequestReplaced DEF IInv
  <2>7. TypeOK'
    BY <2>1, <2>3, <2>5, <2>6 DEF IInv, TypeOK, IdentifiedPcs
  <2>8. \A c \in Codes : code[c].state # "absent" => code[c].login # l
    BY <2>1 DEF IInv, CodesOK, CodeOK
  <2>9. RequestOK(r)'
    BY <1>1, <2>1, <2>3, <2>5, <2>8
       DEF RequestOK, Arguments, LoginHeld, SubjectKnown, AccountKnown, CodeHeld, LoginPcs,
           IdentifiedPcs, l
  <2>10. ASSUME NEW v \in Workers \ {w} PROVE RequestOK(req[v])' /\ Apart(r, req[v])
    <3>1. RequestOK(req[v])
      BY DEF IInv, RequestsOK
    <3>2. req[v].pc \in LoginPcs => req[v].login # l
      BY <2>1, <3>1 DEF RequestOK, LoginHeld
    <3>3. Apart(r, req[v])
      BY <2>5, <3>2 DEF Apart, LoginPcs, IdentifiedPcs
    <3>4. RequestOK(req[v])'
      BY <2>1, <2>3, <2>6, <3>1
         DEF RequestOK, Arguments, LoginHeld, SubjectKnown, AccountKnown, CodeHeld
    <3> QED BY <3>3, <3>4
  <2>11. RequestsOK' /\ RequestsApart'
    BY <2>4, <2>5, <2>9, <2>10, RequestStep
  <2>12. \A c \in Codes : CodeOK(c)'
    BY <2>1, <2>3 DEF IInv, CodesOK, CodeOK
  <2>13. CodesOK' /\ SessionsOK' /\ AccountsSeparate'
    BY <2>1, <2>12 DEF IInv, CodesOK, SessionsOK, AccountsSeparate
  <2> QED BY <2>7, <2>11, <2>13 DEF IInv
<1> QED BY <1>2, <1>3

\* A request that does nothing keeps what it has established, as long as rows
\* only move forward and nobody takes what it holds.
LEMMA Bystander ==
    ASSUME IInv, NEW v \in Workers, req'[v] = req[v],
           \A l \in Logins : login[l].state = "consumed" => login'[l].state = "consumed",
           \A l \in Logins : grant[l].subject # None => grant'[l].subject = grant[l].subject,
           \A s \in Subjects : mapping[s] # None => mapping'[s] = mapping[s],
           accounts \subseteq accounts',
           \A c \in Codes : code[c].state # "absent" => code'[c].state # "absent",
           \A c \in Codes : code[c].state = "consumed" => code'[c] = code[c],
           req[v].pc \in LoginPcs =>
             \A c \in Codes : code'[c].state # "absent" => code'[c].login # req[v].login,
           req[v].pc = "insertMapping" => \A s \in Subjects : mapping'[s] # req[v].account,
           req[v].pc = "createSession" => session'[req[v].code].n = session[req[v].code].n
    PROVE  RequestOK(req[v])'
<1>1. RequestOK(req[v]) /\ req[v] \in Request
  BY DEF IInv, RequestsOK, TypeOK
<1>2. Arguments(req[v])'
  BY <1>1 DEF RequestOK, Arguments
<1>3. LoginHeld(req[v])'
  BY <1>1 DEF RequestOK, LoginHeld
<1>4. SubjectKnown(req[v])'
  BY <1>1 DEF RequestOK, LoginHeld, SubjectKnown, LoginPcs, IdentifiedPcs
<1>5. req[v].pc \in {"readMapping", "insertCode"} => req[v].subject \in Subjects
  BY <1>1 DEF RequestOK, SubjectKnown, LoginPcs, IdentifiedPcs, Request
<1>6. AccountKnown(req[v])'
  BY <1>1, <1>5 DEF RequestOK, AccountKnown
<1>7. CodeHeld(req[v])'
  BY <1>1 DEF RequestOK, Arguments, CodeHeld
<1> QED BY <1>2, <1>3, <1>4, <1>6, <1>7 DEF RequestOK

\* Token and Revoke: the grant changes, but not whose it is.
LEMMA GrantStep ==
    ASSUME IInv, NEW w \in Workers, NEW r \in Request, Continue(w, r),
           NEW l \in Logins, NEW token \in {"live", "revoked"},
           grant' = [grant EXCEPT ![l].token = token],
           UNCHANGED <<clock, config, rowVars, accounts, session>>,
           RequestOK(r),
           r.pc \in IdentifiedPcs => r.subject # None,
           r.pc \in LoginPcs => req[w].pc \in LoginPcs /\ r.login = req[w].login,
           r.pc \notin {"insertMapping", "createSession"}
    PROVE  IInv'
<1>1. UNCHANGED <<clock, config, login, mapping, code, accounts, session>>
  BY DEF rowVars
<1>2. /\ req' \in [Workers -> Request]
      /\ req'[w] = r
      /\ \A v \in Workers \ {w} : req'[v] = req[v]
  BY RequestReplaced DEF IInv
<1>3. grant' \in [Logins -> Grant] /\ \A k \in Logins : grant'[k].subject = grant[k].subject
  <2> DEFINE g == [grant[l] EXCEPT !.token = token]
  <2>1. g \in Grant /\ g.subject = grant[l].subject
    BY DEF IInv, TypeOK, Grant
  <2>2. grant' = [grant EXCEPT ![l] = g]
    BY DEF IInv, TypeOK
  <2> HIDE DEF g
  <2> QED BY <2>1, <2>2 DEF IInv, TypeOK
<1>4. TypeOK'
  BY <1>1, <1>2, <1>3 DEF IInv, TypeOK
<1>5. RequestOK(r)'
  <2>1. r.pc \in LoginPcs => r.login \in Logins
    BY DEF RequestOK, LoginHeld
  <2> QED BY <1>1, <1>3, <2>1
         DEF RequestOK, Arguments, LoginHeld, SubjectKnown, AccountKnown, CodeHeld, LoginPcs,
             IdentifiedPcs
<1>6. ASSUME NEW v \in Workers \ {w} PROVE RequestOK(req[v])' /\ Apart(r, req[v])
  <2>1. RequestOK(req[v])
    BY DEF IInv, RequestsOK
  <2>2. RequestOK(req[v])'
    BY <1>1, <1>2, <1>3, <2>1, Bystander DEF RequestOK, LoginHeld, AccountKnown
  <2> QED BY <2>2 DEF IInv, RequestsApart, Apart
<1>7. RequestsOK' /\ RequestsApart'
  BY <1>5, <1>6, RequestStep
<1>8. \A c \in Codes : CodeOK(c)'
  BY <1>1, <1>3 DEF IInv, CodesOK, CodeOK
<1>9. CodesOK' /\ SessionsOK' /\ AccountsSeparate'
  BY <1>1, <1>8 DEF IInv, CodesOK, SessionsOK, AccountsSeparate
<1> QED BY <1>4, <1>7, <1>9 DEF IInv

LEMMA TokenStep ==
    ASSUME IInv, NEW w \in Workers, Token(w)
    PROVE  IInv'
<1> DEFINE l == req[w].login
           q == [req[w] EXCEPT !.pc = "findMapping", !.subject = grant[l].subject]
           u == [req[w] EXCEPT !.pc = "userinfo"]
<1>1. /\ req[w] \in Request /\ req[w].pc = "token" /\ RequestOK(req[w])
      /\ l \in Logins /\ grant[l].subject \in Subjects
  BY DEF IInv, TypeOK, Grant, RequestsOK, RequestOK, LoginHeld, LoginPcs, Token, At
<1>2. /\ q \in Request /\ q.pc = "findMapping" /\ q.login = l /\ q.subject = grant[l].subject
      /\ u \in Request /\ u.pc = "userinfo" /\ u.login = l /\ u.subject = req[w].subject
  BY <1>1 DEF Request, Pcs
<1>3. /\ grant' = [grant EXCEPT ![l].token = "live"]
      /\ Continue(w, q) \/ Continue(w, u) \/ Continue(w, Idle)
      /\ UNCHANGED <<clock, config, rowVars, accounts, session>>
  BY DEF Token, OidcIdentity, Goto, Finish
<1> HIDE DEF q, u, l
<1>4. RequestOK(q) /\ RequestOK(u)
  BY <1>1, <1>2, LoginAssumption
     DEF RequestOK, Arguments, LoginHeld, SubjectKnown, AccountKnown, CodeHeld, LoginPcs,
         IdentifiedPcs, l
<1>5. req[w].pc \in LoginPcs /\ req[w].login = l
  BY <1>1 DEF LoginPcs, l
<1>6. PICK r \in {q, u, Idle} : Continue(w, r)
  BY <1>3
<1>7. /\ r \in Request /\ RequestOK(r)
      /\ r.pc \in {"findMapping", "userinfo", "idle"}
      /\ r.pc = "findMapping" => r.subject # None
      /\ r.pc \in LoginPcs => r.login = l
  BY <1>1, <1>2, <1>4, <1>6, IdleOK, LoginAssumption DEF LoginPcs, IdentifiedPcs
<1> QED BY <1>1, <1>3, <1>5, <1>6, <1>7, GrantStep DEF IdentifiedPcs

LEMMA UserinfoStep ==
    ASSUME IInv, NEW w \in Workers, Userinfo(w)
    PROVE  IInv'
<1> DEFINE q == [req[w] EXCEPT !.pc = "revoke", !.subject = grant[req[w].login].subject]
           u == [req[w] EXCEPT !.pc = "revoke"]
<1>1. /\ req[w] \in Request /\ req[w].pc = "userinfo" /\ RequestOK(req[w])
      /\ req[w].login \in Logins
      /\ grant[req[w].login].subject \in Subjects \cup {None}
  BY DEF IInv, TypeOK, Grant, RequestsOK, RequestOK, LoginHeld, LoginPcs, Userinfo, At
<1>2. /\ q \in Request /\ q.pc = "revoke" /\ q.login = req[w].login
      /\ q.subject = grant[req[w].login].subject
      /\ u \in Request /\ u.pc = "revoke" /\ u.login = req[w].login
      /\ u.subject = req[w].subject
  BY <1>1 DEF Request, Pcs
<1>3. /\ Continue(w, q) \/ Continue(w, u)
      /\ UNCHANGED <<worldVars, rowVars, accounts, session>>
  BY DEF Userinfo, Goto
<1>4. req[w].subject = None
  BY <1>1 DEF RequestOK, SubjectKnown
<1> HIDE DEF q, u
<1>5. RequestOK(q) /\ RequestOK(u)
  BY <1>1, <1>2, <1>4
     DEF RequestOK, Arguments, LoginHeld, SubjectKnown, AccountKnown, CodeHeld, LoginPcs,
         IdentifiedPcs
<1> QED BY <1>1, <1>2, <1>3, <1>5, OnlyReq DEF LoginPcs, IdentifiedPcs

LEMMA RevokeStep ==
    ASSUME IInv, NEW w \in Workers, Revoke(w)
    PROVE  IInv'
<1> DEFINE q == [req[w] EXCEPT !.pc = "findMapping"]
<1>1. /\ req[w] \in Request /\ req[w].pc = "revoke" /\ RequestOK(req[w])
      /\ req[w].login \in Logins
  BY DEF IInv, TypeOK, RequestsOK, RequestOK, LoginHeld, LoginPcs, Revoke, At
<1>2. /\ q \in Request /\ q.pc = "findMapping" /\ q.login = req[w].login
      /\ q.subject = req[w].subject
  BY <1>1, WithPc DEF Pcs
<1>3. Continue(w, Idle) \/ (Continue(w, q) /\ req[w].subject # None)
  BY DEF Revoke, AfterRevoke, Finish, Goto
<1>4. \/ grant' = [grant EXCEPT ![req[w].login].token = "revoked"]
      \/ grant' = grant
  BY DEF Revoke
<1>5. UNCHANGED <<clock, config, rowVars, accounts, session>>
  BY DEF Revoke
<1> HIDE DEF q
<1>6. req[w].subject # None => RequestOK(q)
  BY <1>1, <1>2
     DEF RequestOK, Arguments, LoginHeld, SubjectKnown, AccountKnown, CodeHeld, LoginPcs,
         IdentifiedPcs
<1>7. PICK r \in {q, Idle} : Continue(w, r) /\ (r = q => req[w].subject # None \/ r = Idle)
  BY <1>3
<1>8. /\ r \in Request /\ RequestOK(r)
      /\ r.pc \in {"findMapping", "idle"}
      /\ r.pc = "findMapping" => r.subject # None
      /\ r.pc \in LoginPcs => req[w].pc \in LoginPcs /\ r.login = req[w].login
  BY <1>1, <1>2, <1>6, <1>7, IdleOK DEF LoginPcs, IdentifiedPcs
<1>9. CASE grant' = grant
  <2>1. UNCHANGED <<worldVars, rowVars, accounts, session>>
    BY <1>5, <1>9 DEF worldVars
  <2> QED BY <1>7, <1>8, <2>1, OnlyReq DEF IdentifiedPcs
<1>10. CASE grant' = [grant EXCEPT ![req[w].login].token = "revoked"]
  BY <1>1, <1>5, <1>7, <1>8, <1>10, GrantStep DEF IdentifiedPcs
<1> QED BY <1>4, <1>9, <1>10

LEMMA FindMappingStep ==
    ASSUME IInv, NEW w \in Workers, FindMapping(w)
    PROVE  IInv'
<1> DEFINE a == mapping[req[w].subject]
           pc == IF a = None THEN "createAccount" ELSE "insertCode"
           q == [req[w] EXCEPT !.account = a, !.pc = pc]
<1>1. /\ req[w] \in Request /\ req[w].pc = "findMapping" /\ RequestOK(req[w])
      /\ req[w].subject \in Subjects /\ req[w].subject # None
      /\ a \in AccountOrNone
  BY DEF IInv, TypeOK, RequestsOK, IdentifiedPcs, Request, FindMapping, At
<1>2. /\ Continue(w, q)
      /\ UNCHANGED <<worldVars, rowVars, accounts, session>>
  BY DEF FindMapping
<1>3. pc \in {"createAccount", "insertCode"} /\ (pc = "insertCode" => a # None)
  OBVIOUS
<1> HIDE DEF pc
<1>4. /\ q \in Request /\ q.pc = pc /\ q.login = req[w].login
      /\ q.subject = req[w].subject /\ q.account = a
  BY <1>1, <1>3 DEF Request, Pcs
<1> HIDE DEF q
<1>5. RequestOK(q)
  BY <1>1, <1>3, <1>4
     DEF RequestOK, Arguments, LoginHeld, SubjectKnown, AccountKnown, CodeHeld, LoginPcs,
         IdentifiedPcs
<1> QED BY <1>1, <1>2, <1>3, <1>4, <1>5, OnlyReq DEF LoginPcs, IdentifiedPcs

LEMMA CreateAccountStep ==
    ASSUME IInv, NEW w \in Workers, CreateAccount(w)
    PROVE  IInv'
<1>1. /\ req[w] \in Request /\ req[w].pc = "createAccount" /\ RequestOK(req[w])
      /\ req[w].subject # None
  BY DEF IInv, TypeOK, RequestsOK, IdentifiedPcs, CreateAccount, At
<1>2. PICK a \in Accounts \ accounts :
        /\ accounts' = accounts \cup {a}
        /\ \/ Continue(w, [req[w] EXCEPT !.pc = "insertMapping", !.account = a])
           \/ Finish(w)
  BY DEF CreateAccount, StoredAccount
<1>3. UNCHANGED <<clock, config, grant, login, mapping, code, session>>
  BY DEF CreateAccount, worldVars, rowVars
<1>4. a # None /\ \A s \in Subjects : mapping[s] # a
  BY LoginAssumption DEF IInv, AccountsSeparate
<1> DEFINE q == [req[w] EXCEPT !.pc = "insertMapping", !.account = a]
<1>5. /\ q \in Request /\ q.pc = "insertMapping" /\ q.login = req[w].login
      /\ q.subject = req[w].subject /\ q.account = a
  BY <1>1 DEF Request, Pcs, AccountOrNone
<1>6. Continue(w, q) \/ Continue(w, Idle)
  BY <1>2 DEF Finish
<1> HIDE DEF q
<1>7. PICK r \in {q, Idle} : Continue(w, r)
  BY <1>6
<1>8. /\ r \in Request
      /\ r = q \/ r.pc = "idle"
  BY <1>5, <1>7, IdleOK
<1>9. /\ req' \in [Workers -> Request]
      /\ req'[w] = r
      /\ \A v \in Workers \ {w} : req'[v] = req[v]
  BY <1>7, <1>8, RequestReplaced DEF IInv
<1>10. TypeOK'
  <2>1. r.pc \in IdentifiedPcs => r.subject # None
    BY <1>1, <1>5, <1>8 DEF IdentifiedPcs
  <2> QED BY <1>2, <1>3, <1>9, <2>1 DEF IInv, TypeOK
<1>11. RequestOK(r)'
  <2>1. CASE r = q
    BY <1>1, <1>2, <1>3, <1>4, <1>5, <2>1
       DEF RequestOK, Arguments, LoginHeld, SubjectKnown, AccountKnown, CodeHeld, LoginPcs,
           IdentifiedPcs
  <2>2. CASE r.pc = "idle"
    BY <2>2 DEF RequestOK, Arguments, LoginHeld, SubjectKnown, AccountKnown, CodeHeld, LoginPcs,
                IdentifiedPcs
  <2> QED BY <1>8, <2>1, <2>2
<1>12. ASSUME NEW v \in Workers \ {w} PROVE RequestOK(req[v])' /\ Apart(r, req[v])
  <2>1. RequestOK(req[v]) /\ Apart(req[w], req[v])
    BY DEF IInv, RequestsOK, RequestsApart
  <2>2. RequestOK(req[v])'
    BY <1>2, <1>3, <1>9, <2>1, Bystander DEF RequestOK, LoginHeld, AccountKnown
  <2>3. req[v].pc = "insertMapping" => req[v].account # a
    BY <2>1 DEF RequestOK, AccountKnown
  <2>4. Apart(r, req[v])
    BY <1>1, <1>5, <1>8, <2>1, <2>3 DEF Apart, LoginPcs, IdentifiedPcs
  <2> QED BY <2>2, <2>4
<1>13. RequestsOK' /\ RequestsApart'
  BY <1>7, <1>8, <1>11, <1>12, RequestStep
<1>14. \A c \in Codes : CodeOK(c)'
  BY <1>3 DEF IInv, CodesOK, CodeOK
<1>15. CodesOK' /\ SessionsOK' /\ AccountsSeparate'
  BY <1>2, <1>3, <1>14 DEF IInv, CodesOK, SessionsOK, AccountsSeparate
<1> QED BY <1>10, <1>13, <1>15 DEF IInv

LEMMA InsertMappingStep ==
    ASSUME IInv, NEW w \in Workers, InsertMapping(w)
    PROVE  IInv'
<1> DEFINE s == req[w].subject
           a == req[w].account
           q == [req[w] EXCEPT !.pc = "readMapping"]
<1>1. /\ req[w] \in Request /\ req[w].pc = "insertMapping" /\ RequestOK(req[w])
      /\ s \in Subjects /\ s # None
      /\ a \in accounts /\ a \in Accounts /\ \A t \in Subjects : mapping[t] # a
  BY DEF IInv, TypeOK, RequestsOK, RequestOK, AccountKnown, IdentifiedPcs, Request,
         InsertMapping, At
<1>2. /\ mapping' = InsertedMapping(s, a)
      /\ Continue(w, q)
      /\ UNCHANGED <<clock, config, grant, login, code, accounts, session>>
  BY DEF InsertMapping, Goto, worldVars
<1>3. /\ q \in Request /\ q.pc = "readMapping" /\ q.login = req[w].login /\ q.subject = s
  BY <1>1, WithPc DEF Pcs
<1>4. a # None
  BY <1>1, LoginAssumption
<1> HIDE DEF s, a
<1>5. /\ mapping' \in [Subjects -> AccountOrNone]
      /\ mapping'[s] # None
      /\ mapping'[s] = mapping[s] \/ (mapping'[s] = a /\ mapping[s] = None)
      /\ \A t \in Subjects \ {s} : mapping'[t] = mapping[t]
  <2>1. mapping \in [Subjects -> AccountOrNone] /\ a \in AccountOrNone
    BY <1>1 DEF IInv, TypeOK, AccountOrNone
  <2>2. CASE mapping[s] = None
    <3>1. mapping' = [mapping EXCEPT ![s] = a]
      BY <1>2, <2>2 DEF InsertedMapping
    <3>2. mapping' \in [Subjects -> AccountOrNone]
      BY <2>1, <3>1
    <3>3. mapping'[s] = a /\ \A t \in Subjects \ {s} : mapping'[t] = mapping[t]
      BY <1>1, <2>1, <3>1
    <3> QED BY <1>4, <2>2, <3>2, <3>3
  <2>3. CASE mapping[s] # None
    <3>1. mapping' = mapping
      BY <1>2, <2>3 DEF InsertedMapping
    <3> QED BY <2>1, <2>3, <3>1
  <2> QED BY <2>2, <2>3
<1> HIDE DEF q
<1>6. PICK r \in Request :
        /\ Continue(w, r)
        /\ r.pc = "readMapping" /\ r.login = req[w].login /\ r.subject = s
  BY <1>2, <1>3
<1>7. /\ req' \in [Workers -> Request]
      /\ req'[w] = r
      /\ \A v \in Workers \ {w} : req'[v] = req[v]
  BY <1>6, RequestReplaced DEF IInv
<1>8. TypeOK'
  BY <1>1, <1>2, <1>5, <1>7, <1>6 DEF IInv, TypeOK
<1>9. RequestOK(r)'
  BY <1>1, <1>2, <1>5, <1>6
     DEF RequestOK, Arguments, LoginHeld, SubjectKnown, AccountKnown, CodeHeld, LoginPcs,
         IdentifiedPcs, s
<1>10. ASSUME NEW v \in Workers \ {w} PROVE RequestOK(req[v])' /\ Apart(r, req[v])
  <2>1. RequestOK(req[v]) /\ Apart(req[w], req[v])
    BY DEF IInv, RequestsOK, RequestsApart
  <2>2. req[v].pc = "insertMapping" => \A t \in Subjects : mapping'[t] # req[v].account
    BY <1>1, <1>5, <2>1 DEF RequestOK, AccountKnown, Apart, a
  <2>3. RequestOK(req[v])'
    BY <1>2, <1>5, <1>7, <2>1, <2>2, Bystander DEF RequestOK, LoginHeld
  <2>4. Apart(r, req[v])
    BY <1>1, <1>6, <2>1 DEF Apart, LoginPcs, IdentifiedPcs
  <2> QED BY <2>3, <2>4
<1>11. RequestsOK' /\ RequestsApart'
  BY <1>9, <1>10, <1>6, RequestStep
<1>12. \A c \in Codes : CodeOK(c)'
  <2>1. \A l \in Logins : grant[l].subject \in Subjects \cup {None}
    BY DEF IInv, TypeOK, Grant
  <2> QED BY <1>2, <1>5, <2>1 DEF IInv, CodesOK, CodeOK
<1>13. CodesOK' /\ SessionsOK'
  BY <1>2, <1>12 DEF IInv, CodesOK, SessionsOK
<1>14. AccountsSeparate'
  BY <1>1, <1>2, <1>5 DEF IInv, AccountsSeparate
<1> QED BY <1>8, <1>11, <1>13, <1>14 DEF IInv

LEMMA ReadMappingStep ==
    ASSUME IInv, NEW w \in Workers, ReadMapping(w)
    PROVE  IInv'
<1> DEFINE a == mapping[req[w].subject]
           q == [req[w] EXCEPT !.pc = "insertCode", !.account = a]
<1>1. /\ req[w] \in Request /\ req[w].pc = "readMapping" /\ RequestOK(req[w])
      /\ req[w].subject \in Subjects /\ req[w].subject # None
      /\ a \in AccountOrNone /\ a # None
  BY DEF IInv, TypeOK, RequestsOK, RequestOK, AccountKnown, IdentifiedPcs, Request,
         ReadMapping, At
<1>2. /\ Continue(w, q)
      /\ UNCHANGED <<worldVars, rowVars, accounts, session>>
  BY DEF ReadMapping, MappedAccount
<1>3. /\ q \in Request /\ q.pc = "insertCode" /\ q.login = req[w].login
      /\ q.subject = req[w].subject /\ q.account = a
  BY <1>1 DEF Request, Pcs
<1> HIDE DEF q
<1>4. RequestOK(q)
  BY <1>1, <1>3
     DEF RequestOK, Arguments, LoginHeld, SubjectKnown, AccountKnown, CodeHeld, LoginPcs,
         IdentifiedPcs
<1> QED BY <1>1, <1>2, <1>3, <1>4, OnlyReq DEF LoginPcs, IdentifiedPcs

LEMMA InsertCodeStep ==
    ASSUME IInv, NEW w \in Workers, InsertCode(w)
    PROVE  IInv'
<1> DEFINE l == req[w].login
           row == [state |-> "open", login |-> l, account |-> req[w].account,
                   expires |-> req[w].now + CodeTtl]
<1>1. /\ req[w] \in Request /\ req[w].pc = "insertCode" /\ RequestOK(req[w])
      /\ l \in Logins /\ login[l].state = "consumed"
      /\ \A c \in Codes : code[c].state # "absent" => code[c].login # l
      /\ grant[l].subject # None /\ mapping[grant[l].subject] # None
      /\ req[w].account = mapping[grant[l].subject]
  BY DEF IInv, TypeOK, RequestsOK, RequestOK, LoginHeld, SubjectKnown, AccountKnown, LoginPcs,
         IdentifiedPcs, InsertCode, At
<1>2. PICK c \in Codes :
        /\ code[c].state = "absent"
        /\ code' = [code EXCEPT ![c] = row]
  BY DEF InsertCode
<1>3. /\ Continue(w, Idle)
      /\ UNCHANGED <<clock, config, grant, login, mapping, accounts, session>>
  BY DEF InsertCode, Finish, worldVars
<1>4. /\ row \in CodeRow
      /\ row.state = "open" /\ row.login = l /\ row.account = mapping[grant[l].subject]
  BY <1>1, LoginAssumption DEF Request, CodeRow
<1> HIDE DEF row, l
<1>5. /\ code' \in [Codes -> CodeRow] /\ code'[c] = row
      /\ \A d \in Codes \ {c} : code'[d] = code[d]
  BY <1>2, <1>4 DEF IInv, TypeOK
<1>6. /\ req' \in [Workers -> Request]
      /\ req'[w] = Idle
      /\ \A v \in Workers \ {w} : req'[v] = req[v]
  BY <1>3, IdleOK, RequestReplaced DEF IInv
<1>7. TypeOK'
  BY <1>3, <1>5, <1>6, IdleOK DEF IInv, TypeOK, IdentifiedPcs
<1>8. ASSUME NEW v \in Workers \ {w} PROVE RequestOK(req[v])'
  <2>1. RequestOK(req[v]) /\ Apart(req[w], req[v])
    BY DEF IInv, RequestsOK, RequestsApart
  <2>2. req[v].pc \in LoginPcs => req[v].login # l
    BY <1>1, <2>1 DEF Apart, LoginPcs, IdentifiedPcs, l
  <2> QED BY <1>2, <1>3, <1>4, <1>5, <1>6, <2>1, <2>2, Bystander
         DEF RequestOK, LoginHeld, AccountKnown
<1>9. RequestOK(Idle)'
  BY IdleOK DEF RequestOK, Arguments, LoginHeld, SubjectKnown, AccountKnown, CodeHeld,
                LoginPcs, IdentifiedPcs
<1>10. RequestsOK' /\ RequestsApart'
  BY <1>3, <1>8, <1>9, IdleOK, RequestStep
<1>11. \A d \in Codes : CodeOK(d)'
  BY <1>1, <1>3, <1>4, <1>5 DEF IInv, CodesOK, CodeOK
<1>12. CodesOK'
  BY <1>1, <1>4, <1>5, <1>11 DEF IInv, CodesOK
<1>13. SessionsOK' /\ AccountsSeparate'
  BY <1>2, <1>3, <1>5 DEF IInv, SessionsOK, AccountsSeparate
<1> QED BY <1>7, <1>10, <1>12, <1>13 DEF IInv

-----------------------------------------------------------------------------
(* The exchange of a code *)

LEMMA ConsumeCodeStep ==
    ASSUME IInv, NEW w \in Workers, ConsumeCode(w)
    PROVE  IInv'
<1>1. PICK c \in Codes : c = req[w].code
  BY DEF IInv, RequestsOK, RequestOK, Arguments, ConsumeCode, At
<1>2. /\ req[w] \in Request /\ req[w].pc = "consumeCode"
      /\ code[c] \in CodeRow /\ code \in [Codes -> CodeRow]
  BY DEF IInv, TypeOK, ConsumeCode, At
<1>3. UNCHANGED <<clock, config, grant, login, mapping, accounts, session>>
  BY DEF ConsumeCode, worldVars
<1>4. CASE ~CanConsumeCode(c, req[w].now)
  BY <1>1, <1>4, FinishStep DEF ConsumeCode, rowVars
<1>5. CASE CanConsumeCode(c, req[w].now)
  <2>1. /\ code[c].state = "open"
        /\ code' = [code EXCEPT ![c].state = "consumed"]
        /\ Continue(w, [req[w] EXCEPT !.pc = "createSession", !.account = code[c].account])
    BY <1>1, <1>5 DEF ConsumeCode, CanConsumeCode
  <2> DEFINE row == [code[c] EXCEPT !.state = "consumed"]
             q == [req[w] EXCEPT !.pc = "createSession", !.account = code[c].account]
  <2>2. /\ row \in CodeRow /\ row.state = "consumed"
        /\ row.login = code[c].login /\ row.account = code[c].account
        /\ code' = [code EXCEPT ![c] = row]
    BY <1>2, <2>1 DEF CodeRow
  <2>3. /\ q \in Request /\ q.pc = "createSession" /\ q.code = c
        /\ q.account = code[c].account
    BY <1>1, <1>2 DEF Request, Pcs, CodeRow
  <2> HIDE DEF row, q
  <2>4. PICK r \in Request :
          /\ Continue(w, r)
          /\ r.pc = "createSession" /\ r.code = c /\ r.account = code[c].account
    BY <2>1, <2>3 DEF q
  <2>5. /\ code' \in [Codes -> CodeRow] /\ code'[c] = row
        /\ \A d \in Codes \ {c} : code'[d] = code[d]
    BY <1>2, <2>2
  <2>6. /\ req' \in [Workers -> Request]
        /\ req'[w] = r
        /\ \A v \in Workers \ {w} : req'[v] = req[v]
    BY <2>4, RequestReplaced DEF IInv
  <2>7. TypeOK'
    BY <1>3, <2>4, <2>5, <2>6 DEF IInv, TypeOK, IdentifiedPcs
  <2>8. session[c].n = 0
    BY <2>1 DEF IInv, SessionsOK
  <2>9. RequestOK(r)'
    BY <1>3, <2>2, <2>4, <2>5, <2>8
       DEF RequestOK, Arguments, LoginHeld, SubjectKnown, AccountKnown, CodeHeld, LoginPcs,
           IdentifiedPcs
  <2>10. ASSUME NEW v \in Workers \ {w} PROVE RequestOK(req[v])' /\ Apart(r, req[v])
    <3>1. RequestOK(req[v])
      BY DEF IInv, RequestsOK
    <3>2. /\ \A d \in Codes : code[d].state # "absent" => code'[d].state # "absent"
          /\ \A d \in Codes : code[d].state = "consumed" => code'[d] = code[d]
          /\ \A d \in Codes : code'[d].state # "absent" =>
               code[d].state # "absent" /\ code'[d].login = code[d].login
      BY <2>1, <2>2, <2>5
    <3>3. req[v].pc \in LoginPcs =>
            \A d \in Codes : code'[d].state # "absent" => code'[d].login # req[v].login
      BY <3>1, <3>2 DEF RequestOK, LoginHeld
    <3>4. RequestOK(req[v])'
      BY <1>3, <2>6, <3>1, <3>2, <3>3, Bystander DEF RequestOK, AccountKnown
    <3>5. Apart(r, req[v])
      BY <2>1, <2>4, <3>1 DEF RequestOK, CodeHeld, Apart, LoginPcs, IdentifiedPcs
    <3> QED BY <3>4, <3>5
  <2>11. RequestsOK' /\ RequestsApart'
    BY <2>4, <2>9, <2>10, RequestStep
  <2>12. \A d \in Codes : CodeOK(d)'
    BY <1>3, <2>1, <2>2, <2>5 DEF IInv, CodesOK, CodeOK
  <2>13. CodesOK'
    BY <2>1, <2>2, <2>5, <2>12 DEF IInv, CodesOK
  <2>14. SessionsOK' /\ AccountsSeparate'
    BY <1>3, <2>1, <2>5 DEF IInv, SessionsOK, AccountsSeparate
  <2> QED BY <2>7, <2>11, <2>13, <2>14 DEF IInv
<1> QED BY <1>4, <1>5

LEMMA CreateSessionStep ==
    ASSUME IInv, NEW w \in Workers, CreateSession(w)
    PROVE  IInv'
<1>1. PICK c \in Codes : c = req[w].code
  BY DEF IInv, RequestsOK, RequestOK, Arguments, CreateSession, At
<1>2. /\ req[w] \in Request /\ req[w].pc = "createSession"
      /\ code[c].state = "consumed" /\ session[c].n = 0 /\ req[w].account = code[c].account
      /\ session \in [Codes -> Session]
  BY <1>1 DEF IInv, TypeOK, RequestsOK, RequestOK, CodeHeld, CreateSession, At
<1>3. /\ UNCHANGED <<clock, config, grant, login, mapping, code, accounts>>
      /\ Continue(w, Idle)
  BY DEF CreateSession, Finish, worldVars, rowVars
<1>4. CASE session' = session
  BY <1>3, <1>4, FinishStep DEF Finish, worldVars, rowVars
<1>5. CASE session' # session
  <2> DEFINE row == [n |-> session[c].n + 1, account |-> req[w].account, at |-> req[w].now]
  <2>1. session' = [session EXCEPT ![c] = row]
    BY <1>1, <1>2, <1>5 DEF CreateSession
  <2>2. row \in Session /\ row.n = 1 /\ row.account = code[c].account
    BY <1>2 DEF Session, Request
  <2> HIDE DEF row
  <2>3. /\ session' \in [Codes -> Session] /\ session'[c] = row
        /\ \A d \in Codes \ {c} : session'[d] = session[d]
    BY <1>2, <2>1, <2>2
  <2>4. /\ req' \in [Workers -> Request]
        /\ req'[w] = Idle
        /\ \A v \in Workers \ {w} : req'[v] = req[v]
    BY <1>3, IdleOK, RequestReplaced DEF IInv
  <2>5. TypeOK'
    BY <1>3, <2>3, <2>4, IdleOK DEF IInv, TypeOK, IdentifiedPcs
  <2>6. ASSUME NEW v \in Workers \ {w} PROVE RequestOK(req[v])'
    <3>1. RequestOK(req[v]) /\ Apart(req[w], req[v])
      BY DEF IInv, RequestsOK, RequestsApart
    <3>2. req[v].pc = "createSession" => req[v].code \in Codes \ {c}
      BY <1>1, <1>2, <3>1 DEF Apart, RequestOK, Arguments
    <3> QED BY <1>3, <2>3, <2>4, <3>1, <3>2, Bystander DEF RequestOK, LoginHeld, AccountKnown
  <2>7. RequestOK(Idle)'
    BY IdleOK DEF RequestOK, Arguments, LoginHeld, SubjectKnown, AccountKnown, CodeHeld,
                  LoginPcs, IdentifiedPcs
  <2>8. RequestsOK' /\ RequestsApart'
    BY <1>3, <2>6, <2>7, IdleOK, RequestStep
  <2>9. \A d \in Codes : CodeOK(d)'
    BY <1>3 DEF IInv, CodesOK, CodeOK
  <2>10. CodesOK' /\ AccountsSeparate'
    BY <1>3, <2>9 DEF IInv, CodesOK, AccountsSeparate
  <2>11. SessionsOK'
    BY <1>2, <1>3, <2>2, <2>3 DEF IInv, SessionsOK
  <2> QED BY <2>5, <2>8, <2>10, <2>11 DEF IInv
<1> QED BY <1>4, <1>5

-----------------------------------------------------------------------------
(* The invariant *)

LEMMA IInvInit == Init => IInv
<1> SUFFICES ASSUME Init PROVE IInv
  OBVIOUS
<1>1. TypeOK
  <2>1. clock \in Nat /\ config \in Config
    BY DEF Init, Config
  <2>2. login \in [Logins -> LoginRow] /\ grant \in [Logins -> Grant]
    BY DEF Init, LoginRow, Grant, Types
  <2>3. mapping \in [Subjects -> AccountOrNone] /\ accounts \subseteq Accounts
    BY DEF Init, AccountOrNone
  <2>4. code \in [Codes -> CodeRow] /\ session \in [Codes -> Session]
    BY DEF Init, CodeRow, Session, AccountOrNone
  <2>5. req \in [Workers -> Request] /\ \A w \in Workers : req[w].pc = "idle"
    BY IdleOK DEF Init
  <2> QED BY <2>1, <2>2, <2>3, <2>4, <2>5 DEF TypeOK, IdentifiedPcs
<1>2. RequestsOK /\ RequestsApart
  BY IdleOK DEF Init, RequestsOK, RequestsApart
<1>3. CodesOK /\ SessionsOK /\ AccountsSeparate
  BY DEF Init, CodesOK, CodeOK, SessionsOK, AccountsSeparate
<1> QED BY <1>1, <1>2, <1>3 DEF IInv

LEMMA IInvNext == IInv /\ [Next]_vars => IInv'
<1> SUFFICES ASSUME IInv, [Next]_vars PROVE IInv'
  OBVIOUS
<1>1. CASE UNCHANGED vars
  <2>1. /\ UNCHANGED <<clock, config, grant, login, mapping, code, accounts, session, req>>
    BY <1>1 DEF vars, worldVars, rowVars
  <2>2. TypeOK'
    BY <2>1 DEF IInv, TypeOK
  <2> QED BY <2>1, <2>2, WorldStep
<1>2. CASE \/ Tick
           \/ \E type \in Types, targets \in SUBSET Targets : Redeploy(type, targets)
           \/ \E l \in Logins, s \in Subjects : Approve(l, s)
           \/ \E l \in Logins, target \in Targets : Begin(l, target)
  BY <1>2, TickStep, RedeployStep, ApproveStep, BeginStep
<1>3. ASSUME NEW w \in Workers,
             \/ \E l \in Logins, denied \in BOOLEAN : StartCallback(w, l, denied)
             \/ \E c \in Codes : StartExchange(w, c)
             \/ ConsumeLogin(w) \/ Token(w) \/ Userinfo(w) \/ Revoke(w)
             \/ FindMapping(w) \/ CreateAccount(w) \/ InsertMapping(w) \/ ReadMapping(w)
             \/ InsertCode(w) \/ ConsumeCode(w) \/ CreateSession(w) \/ Crash(w)
      PROVE  IInv'
  <2>1. CASE Crash(w)
    BY <2>1, FinishStep DEF Crash
  <2>2. ASSUME NEW l \in Logins, NEW denied \in BOOLEAN, StartCallback(w, l, denied)
        PROVE  IInv'
    BY <2>2, StartCallbackStep
  <2>3. ASSUME NEW c \in Codes, StartExchange(w, c) PROVE IInv'
    BY <2>3, StartExchangeStep
  <2>4. CASE ConsumeLogin(w) \/ Token(w) \/ Userinfo(w) \/ Revoke(w) \/ FindMapping(w)
    BY <2>4, ConsumeLoginStep, TokenStep, UserinfoStep, RevokeStep, FindMappingStep
  <2>5. CASE CreateAccount(w) \/ InsertMapping(w) \/ ReadMapping(w) \/ InsertCode(w)
    BY <2>5, CreateAccountStep, InsertMappingStep, ReadMappingStep, InsertCodeStep
  <2>6. CASE ConsumeCode(w) \/ CreateSession(w)
    BY <2>6, ConsumeCodeStep, CreateSessionStep
  <2> QED BY <1>3, <2>1, <2>2, <2>3, <2>4, <2>5, <2>6
<1> QED BY <1>1, <1>2, <1>3 DEF Next

LEMMA Invariance == Spec => []IInv
BY IInvInit, IInvNext, PTL DEF Spec

\* Every variable of the login keeps its type.
THEOREM LoginTypeCorrect == Spec => []TypeOK
BY Invariance, PTL DEF IInv

\* Two people never share an account, however their first logins race, and an
\* account that is handed out has been stored by identity.
THEOREM AccountsCorrect == Spec => []AccountsSeparate
BY Invariance, PTL DEF IInv

\* A callback code, and the session it is exchanged for, is for the account
\* mapped to the person who approved the login at the provider, also when the
\* request that made it had just created another account.
THEOREM OwnAccountCorrect == Spec => []OwnAccount
<1>1. IInv => OwnAccount
  <2> SUFFICES ASSUME IInv, NEW c \in Codes, code[c].state # "absent"
               PROVE  /\ CodeSubject(c) # None
                      /\ mapping[CodeSubject(c)] # None
                      /\ code[c].account = mapping[CodeSubject(c)]
                      /\ session[c].n > 0 => session[c].account = code[c].account
    BY DEF OwnAccount
  <2>1. CodeOK(c)
    BY DEF IInv, CodesOK
  <2>2. session[c].n > 0 => session[c].account = code[c].account
    BY DEF IInv, SessionsOK
  <2> QED BY <2>1, <2>2 DEF CodeOK, CodeSubject
<1> QED BY <1>1, Invariance, PTL

\* A login gives at most one session, whatever is sent twice.
THEOREM OneSessionCorrect == Spec => []OneSessionPerLogin
<1>1. IInv => OneSessionPerLogin
  <2> SUFFICES ASSUME IInv, NEW c \in Codes, NEW d \in Codes
               PROVE  /\ session[c].n <= 1
                      /\ session[c].n > 0 /\ session[d].n > 0 /\ code[c].login = code[d].login => c = d
    BY DEF OneSessionPerLogin
  <2>1. session[c].n <= 1
    BY DEF IInv, SessionsOK
  <2>2. /\ session[c].n > 0 => code[c].state = "consumed"
        /\ session[d].n > 0 => code[d].state = "consumed"
    BY DEF IInv, SessionsOK
  <2> QED BY <2>1, <2>2 DEF IInv, CodesOK
<1> QED BY <1>1, Invariance, PTL

\* The account of a person never changes once there is one.
THEOREM MappingCorrect == Spec => MappingFinal
<1>1. IInv /\ [Next]_vars => [\A s \in Subjects : mapping[s] # None => mapping'[s] = mapping[s]]_vars
  <2> SUFFICES ASSUME IInv, [Next]_vars, NEW s \in Subjects, mapping[s] # None
               PROVE  mapping'[s] = mapping[s]
    OBVIOUS
  <2>1. ASSUME NEW w \in Workers, InsertMapping(w) PROVE mapping'[s] = mapping[s]
    BY <2>1 DEF InsertMapping, InsertedMapping, IInv, TypeOK
  <2>2. CASE \A w \in Workers : ~InsertMapping(w)
    BY <2>2 DEF Next, vars, rowVars, worldVars, Tick, Redeploy, Approve, Begin, StartCallback,
                StartExchange, ConsumeLogin, Token, Userinfo, Revoke, FindMapping, CreateAccount,
                ReadMapping, InsertCode, ConsumeCode, CreateSession, Crash
  <2> QED BY <2>1, <2>2
<1> QED BY <1>1, Invariance, PTL DEF Spec, MappingFinal

-----------------------------------------------------------------------------
(* How late a session may be *)

\* A request that has consumed a row started before the row expired, and what
\* it writes expires a bounded time later.
RequestInTime(r) ==
    /\ r.pc \in LoginPcs => r.now < login[r.login].expires
    /\ r.pc = "createSession" => r.now < login[code[r.code].login].expires + CodeTtl
CodeInTime(c) ==
    code[c].state # "absent" => code[c].expires < login[code[c].login].expires + CodeTtl

TimeInv ==
    /\ \A w \in Workers : RequestInTime(req[w])
    /\ \A c \in Codes : CodeInTime(c)
    /\ SessionInTime

\* The rows of logins are written by these two only,
LEMMA LoginChanges ==
    ASSUME [Next]_vars,
           \A k \in Logins, target \in Targets : ~Begin(k, target),
           \A w \in Workers : ~ConsumeLogin(w)
    PROVE  login' = login
<1>1. CASE Tick \/ UNCHANGED vars
  BY <1>1 DEF Tick, vars, rowVars
<1>2. \A type \in Types, targets \in SUBSET Targets : Redeploy(type, targets) => login' = login
  BY DEF Redeploy, rowVars
<1>3. \A l \in Logins, s \in Subjects : Approve(l, s) => login' = login
  BY DEF Approve, rowVars
<1>4. ASSUME NEW w \in Workers
      PROVE  \A l \in Logins, denied \in BOOLEAN : StartCallback(w, l, denied) => login' = login
  BY DEF StartCallback, rowVars
<1>5. ASSUME NEW w \in Workers PROVE \A c \in Codes : StartExchange(w, c) => login' = login
  BY DEF StartExchange, rowVars
<1>6. ASSUME NEW w \in Workers, Token(w) \/ Revoke(w) PROVE login' = login
  BY <1>6 DEF Token, Revoke, rowVars
<1>7. ASSUME NEW w \in Workers, Userinfo(w) \/ FindMapping(w) PROVE login' = login
  BY <1>7 DEF Userinfo, FindMapping, rowVars
<1>8. ASSUME NEW w \in Workers, CreateAccount(w) PROVE login' = login
  BY <1>8 DEF CreateAccount, rowVars
<1>9. ASSUME NEW w \in Workers, ReadMapping(w) \/ InsertCode(w) \/ ConsumeCode(w)
      PROVE  login' = login
  BY <1>9 DEF ReadMapping, InsertCode, ConsumeCode, rowVars
<1>10. ASSUME NEW w \in Workers, InsertMapping(w) \/ CreateSession(w) \/ Crash(w)
       PROVE  login' = login
  BY <1>10 DEF InsertMapping, CreateSession, Crash, rowVars
<1> QED BY <1>1, <1>2, <1>3, <1>4, <1>5, <1>6, <1>7, <1>8, <1>9, <1>10 DEF Next

\* and what the provider knows by these.
LEMMA GrantChanges ==
    ASSUME [Next]_vars,
           \A k \in Logins, s \in Subjects : ~Approve(k, s),
           \A w \in Workers : ~Token(w) /\ ~Revoke(w)
    PROVE  grant' = grant
<1>1. CASE Tick \/ UNCHANGED vars
  BY <1>1 DEF Tick, vars, worldVars
<1>2. \A type \in Types, targets \in SUBSET Targets : Redeploy(type, targets) => grant' = grant
  BY DEF Redeploy
<1>3. \A l \in Logins, target \in Targets : Begin(l, target) => grant' = grant
  BY DEF Begin, worldVars
<1>4. ASSUME NEW w \in Workers
      PROVE  \A l \in Logins, denied \in BOOLEAN : StartCallback(w, l, denied) => grant' = grant
  BY DEF StartCallback, worldVars
<1>5. ASSUME NEW w \in Workers PROVE \A c \in Codes : StartExchange(w, c) => grant' = grant
  BY DEF StartExchange, worldVars
<1>6. ASSUME NEW w \in Workers, ConsumeLogin(w) PROVE grant' = grant
  BY <1>6 DEF ConsumeLogin, worldVars
<1>7. ASSUME NEW w \in Workers, Userinfo(w) \/ FindMapping(w) PROVE grant' = grant
  BY <1>7 DEF Userinfo, FindMapping, worldVars
<1>8. ASSUME NEW w \in Workers, CreateAccount(w) PROVE grant' = grant
  BY <1>8 DEF CreateAccount, worldVars
<1>9. ASSUME NEW w \in Workers, ReadMapping(w) \/ InsertCode(w) \/ ConsumeCode(w)
      PROVE  grant' = grant
  BY <1>9 DEF ReadMapping, InsertCode, ConsumeCode, worldVars
<1>10. ASSUME NEW w \in Workers, InsertMapping(w) \/ CreateSession(w) \/ Crash(w)
       PROVE  grant' = grant
  BY <1>10 DEF InsertMapping, CreateSession, Crash, worldVars
<1> QED BY <1>1, <1>2, <1>3, <1>4, <1>5, <1>6, <1>7, <1>8, <1>9, <1>10 DEF Next

SameLogin(l) ==
    /\ login'[l].expires = login[l].expires
    /\ login'[l].target = login[l].target /\ login'[l].type = login[l].type

\* Of a row that is there only the state changes.
LEMMA RowsStay ==
    ASSUME IInv, [Next]_vars
    PROVE  /\ \A l \in Logins : login[l].state # "absent" => SameLogin(l)
           /\ \A c \in Codes : code[c].state # "absent" =>
                code'[c].login = code[c].login /\ code'[c].expires = code[c].expires
<1>1. login \in [Logins -> LoginRow] /\ code \in [Codes -> CodeRow]
  BY DEF IInv, TypeOK
<1>2. ASSUME NEW l \in Logins, login[l].state # "absent"
      PROVE  SameLogin(l)
  <2>1. ASSUME NEW k \in Logins, NEW target \in Targets, Begin(k, target)
        PROVE  SameLogin(l)
    BY <1>1, <1>2, <2>1 DEF Begin, SameLogin
  <2>2. ASSUME NEW w \in Workers, ConsumeLogin(w) PROVE SameLogin(l)
    <3>1. \/ login' = login
          \/ login' = [login EXCEPT ![req[w].login].state = "consumed"]
      BY <2>2 DEF ConsumeLogin
    <3> QED BY <1>1, <3>1 DEF LoginRow, SameLogin
  <2>3. CASE /\ \A k \in Logins, target \in Targets : ~Begin(k, target)
             /\ \A w \in Workers : ~ConsumeLogin(w)
    BY <2>3, LoginChanges DEF SameLogin
  <2> QED BY <2>1, <2>2, <2>3
<1>3. ASSUME NEW c \in Codes, code[c].state # "absent"
      PROVE  code'[c].login = code[c].login /\ code'[c].expires = code[c].expires
  <2>1. ASSUME NEW w \in Workers, InsertCode(w) PROVE code'[c] = code[c]
    BY <1>1, <1>3, <2>1 DEF InsertCode
  <2>2. ASSUME NEW w \in Workers, ConsumeCode(w)
        PROVE  code'[c].login = code[c].login /\ code'[c].expires = code[c].expires
    <3>1. \/ code' = code
          \/ code' = [code EXCEPT ![req[w].code].state = "consumed"]
      BY <2>2 DEF ConsumeCode
    <3> QED BY <1>1, <3>1 DEF CodeRow
  <2>3. CASE \A w \in Workers : ~InsertCode(w) /\ ~ConsumeCode(w)
    BY <2>3 DEF Next, vars, rowVars, worldVars, Tick, Redeploy, Approve, Begin, StartCallback,
                StartExchange, ConsumeLogin, Token, Userinfo, Revoke, FindMapping,
                CreateAccount, InsertMapping, ReadMapping, CreateSession, Crash
  <2> QED BY <2>1, <2>2, <2>3
<1> QED BY <1>2, <1>3

\* How a request gets to hold a login or a code, and that it keeps its time.
Holds(r) == r.pc \in LoginPcs \cup {"createSession"}
Keeps(q, r) ==
    /\ q.now = r.now /\ q.login = r.login /\ q.code = r.code
    /\ q.type = r.type /\ q.targets = r.targets
Accepts(q) == login[q.login].target \in q.targets /\ login[q.login].type = q.type
Gains(q, r) ==
    \/ r = q
    \/ ~Holds(r)
    \/ Keeps(q, r) /\ q.pc \in LoginPcs /\ r.pc \in LoginPcs
    \/ /\ Keeps(q, r) /\ r.pc = "token"
       /\ q.login \in Logins /\ CanConsumeLogin(q.login, q.now) /\ Accepts(q)
    \/ Keeps(q, r) /\ r.pc = "createSession" /\ q.code \in Codes /\ CanConsumeCode(q.code, q.now)

LEMMA RequestGains ==
    ASSUME IInv, [Next]_vars, NEW v \in Workers
    PROVE  Gains(req[v], req'[v])
<1>1. CASE UNCHANGED req
  BY <1>1 DEF Gains
<1>2. ASSUME NEW w \in Workers, NEW r, Continue(w, r), Gains(req[w], r)
      PROVE  Gains(req[v], req'[v])
  <2>1. req'[w] = r /\ \A u \in Workers \ {w} : req'[u] = req[u]
    BY <1>2 DEF Continue, IInv, TypeOK
  <2> QED BY <1>2, <2>1 DEF Gains
<1>3. ASSUME NEW w \in Workers, Finish(w) PROVE Gains(req[v], req'[v])
  <2>1. ~Holds(Idle)
    BY IdleOK DEF Holds, LoginPcs, IdentifiedPcs
  <2> QED BY <1>2, <1>3, <2>1 DEF Finish, Gains
<1>4. ASSUME NEW w \in Workers PROVE req[w] \in Request /\ RequestOK(req[w])
  BY DEF IInv, TypeOK, RequestsOK
<1>5. ASSUME NEW w \in Workers, NEW r, Continue(w, r), Keeps(req[w], r),
             req[w].pc \in LoginPcs, r.pc \in LoginPcs
      PROVE  Gains(req[v], req'[v])
  BY <1>2, <1>5 DEF Gains
<1>6. ASSUME NEW w \in Workers, NEW pc \in LoginPcs, Goto(w, pc), req[w].pc \in LoginPcs
      PROVE  Gains(req[v], req'[v])
  <2> DEFINE r == [req[w] EXCEPT !.pc = pc]
  <2>1. Keeps(req[w], r) /\ r.pc = pc
    BY <1>4 DEF Request, Keeps
  <2>2. Continue(w, r)
    BY <1>6 DEF Goto
  <2> HIDE DEF r
  <2> QED BY <1>5, <1>6, <2>1, <2>2
<1>7. ASSUME NEW w \in Workers, NEW l \in Logins, NEW denied \in BOOLEAN, StartCallback(w, l, denied)
      PROVE  Gains(req[v], req'[v])
  <2> DEFINE r == [New("consumeLogin") EXCEPT !.login = l, !.denied = denied]
  <2> TypeOK
    BY DEF IInv
  <2>1. r.pc = "consumeLogin"
    BY NewCallback, Zenon
  <2>2. Continue(w, r)
    BY <1>7 DEF StartCallback
  <2> HIDE DEF r
  <2> QED BY <1>2, <2>1, <2>2 DEF Gains, Holds, LoginPcs, IdentifiedPcs
<1>8. ASSUME NEW w \in Workers, NEW c \in Codes, StartExchange(w, c)
      PROVE  Gains(req[v], req'[v])
  <2> DEFINE r == [New("consumeCode") EXCEPT !.code = c]
  <2>1. r.pc = "consumeCode" /\ Continue(w, r)
    BY <1>8, NewExchange DEF IInv, StartExchange
  <2> HIDE DEF r
  <2> QED BY <1>2, <2>1 DEF Gains, Holds, LoginPcs, IdentifiedPcs
<1>9. ASSUME NEW w \in Workers, ConsumeLogin(w) PROVE Gains(req[v], req'[v])
  <2> DEFINE r == [req[w] EXCEPT !.pc = "token"]
  <2>1. Keeps(req[w], r) /\ r.pc = "token" /\ req[w].login \in Logins
    BY <1>4, <1>9 DEF Request, Keeps, ConsumeLogin, At, RequestOK, Arguments
  <2>2. \/ Finish(w)
        \/ /\ CanConsumeLogin(req[w].login, req[w].now) /\ Accepts(req[w])
           /\ Continue(w, r)
    BY <1>9 DEF ConsumeLogin, Goto, Acceptable, Accepts
  <2> HIDE DEF r
  <2> QED BY <1>2, <1>3, <2>1, <2>2 DEF Gains
<1>10. ASSUME NEW w \in Workers, Token(w) PROVE Gains(req[v], req'[v])
  <2> DEFINE r == [req[w] EXCEPT !.pc = "findMapping", !.subject = grant[req[w].login].subject]
  <2>1. Keeps(req[w], r) /\ r.pc = "findMapping"
    BY <1>4 DEF Request, Keeps
  <2>2. req[w].pc = "token" /\ (Continue(w, r) \/ Goto(w, "userinfo") \/ Finish(w))
    BY <1>10 DEF Token, At, OidcIdentity
  <2> HIDE DEF r
  <2> QED BY <1>3, <1>5, <1>6, <2>1, <2>2 DEF LoginPcs, IdentifiedPcs
<1>11. ASSUME NEW w \in Workers, Userinfo(w) PROVE Gains(req[v], req'[v])
  <2> DEFINE r == [req[w] EXCEPT !.pc = "revoke", !.subject = grant[req[w].login].subject]
  <2>1. Keeps(req[w], r) /\ r.pc = "revoke"
    BY <1>4 DEF Request, Keeps
  <2>2. req[w].pc = "userinfo" /\ (Continue(w, r) \/ Goto(w, "revoke"))
    BY <1>11 DEF Userinfo, At
  <2> HIDE DEF r
  <2> QED BY <1>5, <1>6, <2>1, <2>2 DEF LoginPcs, IdentifiedPcs
<1>12. ASSUME NEW w \in Workers, Revoke(w) PROVE Gains(req[v], req'[v])
  <2>1. req[w].pc = "revoke" /\ (Goto(w, "findMapping") \/ Finish(w))
    BY <1>12 DEF Revoke, At, AfterRevoke
  <2> QED BY <1>3, <1>6, <2>1 DEF LoginPcs, IdentifiedPcs
<1>13. ASSUME NEW w \in Workers, FindMapping(w) PROVE Gains(req[v], req'[v])
  <2> DEFINE a == mapping[req[w].subject]
             r == [req[w] EXCEPT !.account = a,
                     !.pc = IF a = None THEN "createAccount" ELSE "insertCode"]
  <2>1. Keeps(req[w], r) /\ r.pc \in {"createAccount", "insertCode"}
    BY <1>4 DEF Request, Keeps
  <2>2. req[w].pc = "findMapping" /\ Continue(w, r)
    BY <1>13 DEF FindMapping, At
  <2> HIDE DEF r
  <2> QED BY <1>5, <2>1, <2>2 DEF LoginPcs, IdentifiedPcs
<1>14. ASSUME NEW w \in Workers, CreateAccount(w) PROVE Gains(req[v], req'[v])
  <2>1. PICK a \in Accounts :
          \/ Continue(w, [req[w] EXCEPT !.pc = "insertMapping", !.account = a])
          \/ Finish(w)
    BY <1>14, Zenon DEF CreateAccount
  <2> DEFINE r == [req[w] EXCEPT !.pc = "insertMapping", !.account = a]
  <2>2. Keeps(req[w], r) /\ r.pc = "insertMapping"
    BY <1>4 DEF Request, Keeps
  <2>3. req[w].pc = "createAccount" /\ (Continue(w, r) \/ Finish(w))
    BY <1>14, <2>1 DEF CreateAccount, At
  <2> HIDE DEF r
  <2> QED BY <1>3, <1>5, <2>2, <2>3 DEF LoginPcs, IdentifiedPcs
<1>15. ASSUME NEW w \in Workers, InsertMapping(w) PROVE Gains(req[v], req'[v])
  <2>1. req[w].pc = "insertMapping" /\ Goto(w, "readMapping")
    BY <1>15 DEF InsertMapping, At
  <2> QED BY <1>6, <2>1 DEF LoginPcs, IdentifiedPcs
<1>16. ASSUME NEW w \in Workers, ReadMapping(w) PROVE Gains(req[v], req'[v])
  <2> DEFINE r == [req[w] EXCEPT !.pc = "insertCode", !.account = MappedAccount(w)]
  <2>1. Keeps(req[w], r) /\ r.pc = "insertCode"
    BY <1>4 DEF Request, Keeps
  <2>2. req[w].pc = "readMapping" /\ Continue(w, r)
    BY <1>16 DEF ReadMapping, At
  <2> HIDE DEF r
  <2> QED BY <1>5, <2>1, <2>2 DEF LoginPcs, IdentifiedPcs
<1>17. ASSUME NEW w \in Workers, ConsumeCode(w) PROVE Gains(req[v], req'[v])
  <2> DEFINE r == [req[w] EXCEPT !.pc = "createSession", !.account = code[req[w].code].account]
  <2>1. Keeps(req[w], r) /\ r.pc = "createSession" /\ req[w].code \in Codes
    BY <1>4, <1>17 DEF Request, Keeps, ConsumeCode, At, RequestOK, Arguments
  <2>2. \/ Finish(w)
        \/ CanConsumeCode(req[w].code, req[w].now) /\ Continue(w, r)
    BY <1>17 DEF ConsumeCode
  <2> HIDE DEF r
  <2> QED BY <1>2, <1>3, <2>1, <2>2 DEF Gains
<1>18. ASSUME NEW w \in Workers, InsertCode(w) \/ CreateSession(w) \/ Crash(w)
       PROVE  Gains(req[v], req'[v])
  BY <1>3, <1>18 DEF InsertCode, CreateSession, Crash
<1>19. CASE \/ Tick
            \/ \E type \in Types, targets \in SUBSET Targets : Redeploy(type, targets)
            \/ \E l \in Logins, s \in Subjects : Approve(l, s)
            \/ \E l \in Logins, target \in Targets : Begin(l, target)
            \/ UNCHANGED vars
  BY <1>1, <1>19 DEF Tick, Redeploy, Approve, Begin, vars
<1> QED BY <1>7, <1>8, <1>9, <1>10, <1>11, <1>12, <1>13, <1>14, <1>15, <1>16, <1>17, <1>18,
           <1>19 DEF Next

LEMMA RequestsInTime ==
    ASSUME IInv, TimeInv, [Next]_vars, NEW v \in Workers
    PROVE  RequestInTime(req[v])'
<1> DEFINE r == req'[v]
<1>1. /\ req[v] \in Request /\ RequestOK(req[v]) /\ RequestInTime(req[v])
      /\ login \in [Logins -> LoginRow] /\ code \in [Codes -> CodeRow]
  BY DEF IInv, TypeOK, RequestsOK, TimeInv
<1>2. ASSUME r.pc \in LoginPcs PROVE r.now < login'[r.login].expires
  <2>1. CASE req[v].pc \in LoginPcs /\ Keeps(req[v], r)
    <3>1. /\ req[v].login \in Logins /\ login[req[v].login].state # "absent"
          /\ req[v].now < login[req[v].login].expires
      BY <1>1, <2>1 DEF RequestOK, LoginHeld, RequestInTime
    <3> QED BY <2>1, <3>1, RowsStay DEF Keeps, SameLogin
  <2>2. CASE /\ req[v].login \in Logins /\ Keeps(req[v], r)
             /\ CanConsumeLogin(req[v].login, req[v].now)
    BY <1>1, <2>2, RowsStay DEF CanConsumeLogin, Keeps, LoginRow, Request, SameLogin
  <2> QED BY <1>2, <2>1, <2>2, RequestGains
         DEF Gains, Holds, Keeps, LoginPcs, IdentifiedPcs
<1>3. ASSUME r.pc = "createSession"
      PROVE  r.now < login'[code'[r.code].login].expires + CodeTtl
  <2> DEFINE c == req[v].code
  <2>1. /\ Keeps(req[v], r) /\ c \in Codes /\ code[c].state # "absent"
        /\ req[v].now < login[code[c].login].expires + CodeTtl
    <3>1. CASE req[v].pc = "createSession" /\ Keeps(req[v], r)
      BY <1>1, <3>1 DEF RequestOK, Arguments, RequestInTime
    <3>2. CASE c \in Codes /\ Keeps(req[v], r) /\ CanConsumeCode(c, req[v].now)
      <4>1. /\ code[c].state = "open" /\ req[v].now < code[c].expires
            /\ code[c].expires < login[code[c].login].expires + CodeTtl
            /\ code[c].login \in Logins
        BY <1>1, <3>2 DEF CanConsumeCode, TimeInv, CodeInTime, CodeRow, Request, IInv, CodesOK,
                          CodeOK
      <4> QED BY <1>1, <3>2, <4>1, LoginAssumption DEF Request, CodeRow, LoginRow
    <3> QED BY <1>3, <3>1, <3>2, RequestGains
           DEF Gains, Holds, Keeps, LoginPcs, IdentifiedPcs
  <2>2. code[c].login \in Logins /\ login[code[c].login].state = "consumed"
    BY <2>1 DEF IInv, CodesOK, CodeOK
  <2> QED BY <2>1, <2>2, RowsStay DEF Keeps, SameLogin
<1> QED BY <1>2, <1>3 DEF RequestInTime

LEMMA CodesInTime ==
    ASSUME IInv, TimeInv, [Next]_vars, NEW c \in Codes
    PROVE  CodeInTime(c)'
<1> SUFFICES ASSUME code'[c].state # "absent"
             PROVE  code'[c].expires < login'[code'[c].login].expires + CodeTtl
  BY DEF CodeInTime
<1>1. CASE code[c].state # "absent"
  <2>1. /\ code[c].login \in Logins /\ login[code[c].login].state = "consumed"
        /\ code[c].expires < login[code[c].login].expires + CodeTtl
    BY <1>1 DEF IInv, CodesOK, CodeOK, TimeInv, CodeInTime
  <2> QED BY <1>1, <2>1, RowsStay DEF SameLogin
<1>2. CASE code[c].state = "absent"
  <2>1. PICK w \in Workers : InsertCode(w)
    <3>1. ASSUME NEW w \in Workers, ConsumeCode(w) PROVE code'[c].state = "absent"
      <4>1. \/ code' = code
            \/ /\ code' = [code EXCEPT ![req[w].code].state = "consumed"]
               /\ code[req[w].code].state = "open"
        BY <3>1 DEF ConsumeCode, CanConsumeCode
      <4> QED BY <1>2, <4>1 DEF IInv, TypeOK
    <3> QED BY <1>2, <3>1, ZenonT(30)
           DEF Next, vars, rowVars, worldVars, Tick, Redeploy, Approve, Begin, StartCallback,
               StartExchange, ConsumeLogin, Token, Userinfo, Revoke, FindMapping,
               CreateAccount, InsertMapping, ReadMapping, CreateSession, Crash
  <2>2. /\ code'[c].login = req[w].login /\ code'[c].expires = req[w].now + CodeTtl
        /\ login' = login
    BY <1>2, <2>1 DEF InsertCode, IInv, TypeOK
  <2>3. /\ req[w].login \in Logins /\ req[w].now < login[req[w].login].expires
        /\ req[w].now \in Nat /\ login[req[w].login].expires \in Nat
    BY <2>1 DEF InsertCode, At, IInv, TypeOK, RequestsOK, RequestOK, LoginHeld, LoginPcs,
                IdentifiedPcs, TimeInv, RequestInTime, Request, LoginRow
  <2> QED BY <2>2, <2>3, LoginAssumption
<1> QED BY <1>1, <1>2

LEMMA SessionsInTime ==
    ASSUME IInv, TimeInv, [Next]_vars
    PROVE  SessionInTime'
<1> SUFFICES ASSUME NEW c \in Codes, session'[c].n > 0
             PROVE  session'[c].at < login'[code'[c].login].expires + CodeTtl
  BY DEF SessionInTime
<1>1. CASE session'[c] = session[c]
  <2>1. code[c].state = "consumed"
    BY <1>1 DEF IInv, SessionsOK
  <2>2. /\ code[c].login \in Logins /\ login[code[c].login].state = "consumed"
        /\ session[c].at < login[code[c].login].expires + CodeTtl
    BY <1>1, <2>1 DEF IInv, CodesOK, CodeOK, TimeInv, SessionInTime
  <2> QED BY <1>1, <2>1, <2>2, RowsStay DEF SameLogin
<1>2. CASE session'[c] # session[c]
  <2>1. PICK w \in Workers : CreateSession(w)
    BY <1>2, ZenonT(30)
       DEF Next, vars, rowVars, worldVars, Tick, Redeploy, Approve, Begin, StartCallback,
           StartExchange, ConsumeLogin, Token, Userinfo, Revoke, FindMapping, CreateAccount,
           InsertMapping, ReadMapping, InsertCode, ConsumeCode, Crash
  <2>2. /\ login' = login /\ code' = code
        /\ c = req[w].code /\ session'[c].at = req[w].now
    BY <1>2, <2>1 DEF CreateSession, rowVars, IInv, TypeOK
  <2>3. req[w].now < login[code[c].login].expires + CodeTtl
    BY <2>1, <2>2 DEF CreateSession, At, TimeInv, RequestInTime
  <2> QED BY <2>2, <2>3
<1> QED BY <1>1, <1>2

\* However slow the requests in between are, a session is asked for before the
\* login's expiry plus the lifetime of a code, for every pair of lifetimes.
THEOREM SessionTimeCorrect == Spec => []SessionInTime
<1>1. Init => TimeInv
  BY IdleOK DEF Init, TimeInv, RequestInTime, CodeInTime, SessionInTime, LoginPcs, IdentifiedPcs
<1>2. IInv /\ TimeInv /\ [Next]_vars => TimeInv'
  BY RequestsInTime, CodesInTime, SessionsInTime DEF TimeInv
<1>3. TimeInv => SessionInTime
  BY DEF TimeInv
<1> QED BY <1>1, <1>2, <1>3, Invariance, PTL DEF Spec

-----------------------------------------------------------------------------
(* Which configuration a code is made under *)

\* Who approved a login is known to the provider the login was begun with, and
\* a request that has consumed a login was configured for it.
SubjectFits(l) == grant[l].subject # None =>
    login[l].state # "absent" /\ TypeOf[grant[l].subject] = login[l].type
ConfigInv ==
    /\ \A l \in Logins : SubjectFits(l)
    /\ \A w \in Workers : req[w].pc \in LoginPcs => Accepts(req[w])

LEMMA SubjectsFit ==
    ASSUME IInv, ConfigInv, [Next]_vars, NEW l \in Logins
    PROVE  SubjectFits(l)'
<1>1. grant \in [Logins -> Grant] /\ login \in [Logins -> LoginRow] /\ SubjectFits(l)
  BY DEF IInv, TypeOK, ConfigInv
<1>2. ASSUME NEW k \in Logins, NEW s \in Subjects, Approve(k, s) PROVE SubjectFits(l)'
  BY <1>1, <1>2 DEF Approve, SubjectFits, Grant, rowVars
<1>3. CASE \A k \in Logins, s \in Subjects : ~Approve(k, s)
  <2>1. grant'[l].subject = grant[l].subject
    <3>1. ASSUME NEW w \in Workers, Token(w) \/ Revoke(w)
          PROVE  grant'[l].subject = grant[l].subject
      BY <1>1, <3>1 DEF Token, Revoke, Grant
    <3>2. CASE \A w \in Workers : ~Token(w) /\ ~Revoke(w)
      BY <1>3, <3>2, GrantChanges
    <3> QED BY <3>1, <3>2
  <2>2. login[l].state # "absent" => login'[l].state # "absent"
    <3>1. ASSUME NEW k \in Logins, NEW target \in Targets, Begin(k, target)
          PROVE  login[l].state # "absent" => login'[l].state # "absent"
      BY <1>1, <3>1 DEF Begin
    <3>2. ASSUME NEW w \in Workers, ConsumeLogin(w)
          PROVE  login[l].state # "absent" => login'[l].state # "absent"
      BY <1>1, <3>2 DEF ConsumeLogin, LoginRow
    <3>3. CASE /\ \A k \in Logins, target \in Targets : ~Begin(k, target)
               /\ \A w \in Workers : ~ConsumeLogin(w)
      BY <3>3, LoginChanges
    <3> QED BY <3>1, <3>2, <3>3
  <2> QED BY <1>1, <2>1, <2>2, RowsStay DEF SubjectFits, SameLogin
<1> QED BY <1>2, <1>3

LEMMA RequestsConfigured ==
    ASSUME IInv, ConfigInv, [Next]_vars, NEW v \in Workers, req'[v].pc \in LoginPcs
    PROVE  Accepts(req[v])'
<1> DEFINE r == req'[v]
<1>1. RequestOK(req[v]) /\ req[v] \in Request
  BY DEF IInv, RequestsOK, TypeOK
<1>2. /\ req[v].login \in Logins /\ login[req[v].login].state # "absent"
      /\ Accepts(req[v]) /\ Keeps(req[v], r)
  <2>1. CASE req[v].pc \in LoginPcs /\ Keeps(req[v], r)
    BY <1>1, <2>1 DEF RequestOK, LoginHeld, ConfigInv
  <2>2. CASE /\ req[v].login \in Logins /\ Keeps(req[v], r) /\ Accepts(req[v])
             /\ CanConsumeLogin(req[v].login, req[v].now)
    BY <2>2 DEF CanConsumeLogin
  <2> QED BY <2>1, <2>2, RequestGains DEF Gains, Holds, Keeps, LoginPcs, IdentifiedPcs
<1> QED BY <1>2, RowsStay DEF Keeps, Accepts, SameLogin

\* However the provider and the list of frontends are changed while a login is
\* under way, a code is made only for a login the request was configured for.
THEOREM ConfigCorrect == Spec => CodeMatchesConfig
<1>1. Init => ConfigInv
  BY IdleOK DEF Init, ConfigInv, SubjectFits, LoginPcs, IdentifiedPcs
<1>2. IInv /\ ConfigInv /\ [Next]_vars => ConfigInv'
  BY SubjectsFit, RequestsConfigured DEF ConfigInv
<1>3. IInv /\ ConfigInv /\ [Next]_vars =>
        [\A w \in Workers :
           At(w, "insertCode") /\ code' # code /\ req'[w] # req[w] =>
             /\ login[req[w].login].target \in req[w].targets
             /\ TypeOf[req[w].subject] = req[w].type]_vars
  <2> SUFFICES ASSUME IInv, ConfigInv, NEW w \in Workers, At(w, "insertCode")
               PROVE  /\ login[req[w].login].target \in req[w].targets
                      /\ TypeOf[req[w].subject] = req[w].type
    OBVIOUS
  <2>1. /\ req[w].login \in Logins /\ grant[req[w].login].subject # None
        /\ req[w].subject = grant[req[w].login].subject
    BY DEF IInv, RequestsOK, RequestOK, LoginHeld, SubjectKnown, At, LoginPcs, IdentifiedPcs
  <2>2. Accepts(req[w])
    BY DEF ConfigInv, At, LoginPcs, IdentifiedPcs
  <2> QED BY <2>1, <2>2 DEF ConfigInv, SubjectFits, Accepts
<1> QED BY <1>1, <1>2, <1>3, Invariance, PTL DEF Spec, CodeMatchesConfig

-----------------------------------------------------------------------------
(* The handlers implement LoginSessions *)

\* What the refinement mapping takes for the sessions of a login.
Given(l) ==
    UNION {{<<c, i, session[c].account>> : i \in 1 .. session[c].n} :
             c \in {d \in Codes : code[d].login = l}}
IssuedCodes(l) == {c \in Codes : code[c].login = l /\ session[c].n = 1}
FirstSessions(C) == {<<c, 1, session[c].account>> : c \in C}

\* They are those of its codes that have been exchanged, one each.
GivenOnce == \A l \in Logins : Given(l) = FirstSessions(IssuedCodes(l))

LEMMA GivenIssued == SessionsOK => GivenOnce
<1> SUFFICES ASSUME SessionsOK, NEW l \in Logins
             PROVE  Given(l) = FirstSessions(IssuedCodes(l))
  BY Zenon DEF GivenOnce
<1> DEFINE S(c) == {<<c, i, session[c].account>> : i \in 1 .. session[c].n}
<1>1. \A c \in Codes : session[c].n \in {0, 1}
  BY DEF SessionsOK
<1>2. \A c \in Codes : S(c) = IF session[c].n = 1 THEN {<<c, 1, session[c].account>>} ELSE {}
  <2> SUFFICES ASSUME NEW c \in Codes
               PROVE  S(c) = IF session[c].n = 1 THEN {<<c, 1, session[c].account>>} ELSE {}
    OBVIOUS
  <2>1. CASE session[c].n = 0
    <3>1. 1 .. session[c].n = {}
      BY <2>1
    <3> QED BY <2>1, <3>1
  <2>2. CASE session[c].n = 1
    <3>1. 1 .. session[c].n = {1}
      BY <2>2
    <3> QED BY <2>2, <3>1
  <2> QED BY <1>1, <2>1, <2>2
<1> HIDE DEF S
<1>3. UNION {S(c) : c \in {d \in Codes : code[d].login = l}}
        = FirstSessions(IssuedCodes(l))
  BY <1>2 DEF IssuedCodes, FirstSessions
<1> QED BY <1>3 DEF Given, S

\* A step that signs no session and gives no code with one to another login.
LEMMA SameGiven ==
    ASSUME SessionsOK, SessionsOK', UNCHANGED session,
           \A c \in Codes : session[c].n = 1 => code'[c].login = code[c].login
    PROVE  [l \in Logins |-> Given(l)]' = [l \in Logins |-> Given(l)]
<1> SUFFICES ASSUME NEW l \in Logins PROVE Given(l)' = Given(l)
  OBVIOUS
<1>1. IssuedCodes(l)' = IssuedCodes(l)
  BY DEF IssuedCodes
<1>2. FirstSessions(IssuedCodes(l))' = FirstSessions(IssuedCodes(l))
  BY <1>1 DEF FirstSessions
<1>3. GivenOnce /\ GivenOnce'
  BY GivenIssued, PTL
<1> QED BY <1>2, <1>3 DEF GivenOnce

\* What a stuttering step of LoginSessions leaves alone.
LEMMA LoginStutters ==
    ASSUME UNCHANGED mapping,
           \A l \in Logins : login'[l].state = login[l].state,
           \A l \in Logins : grant'[l].subject = grant[l].subject,
           [l \in Logins |-> Given(l)]' = [l \in Logins |-> Given(l)]
    PROVE  UNCHANGED Login!vars
<1>1. [l \in Logins |-> login[l].state]' = [l \in Logins |-> login[l].state]
  OBVIOUS
<1>2. [l \in Logins |-> grant[l].subject]' = [l \in Logins |-> grant[l].subject]
  OBVIOUS
<1> QED BY <1>1, <1>2 DEF Login!vars, Given

\* A step that touches no row but an access token, the accounts or a code's state.
LEMMA RequestStutters ==
    ASSUME SessionsOK, SessionsOK', UNCHANGED <<login, mapping, session>>,
           \A l \in Logins : grant'[l].subject = grant[l].subject,
           \A c \in Codes : session[c].n = 1 => code'[c].login = code[c].login
    PROVE  UNCHANGED Login!vars
BY SameGiven, LoginStutters

\* Consuming the login is Spend, or stutters when it is spent or too old.
LEMMA ConsumeLoginSpends ==
    ASSUME IInv, IInv', NEW w \in Workers, ConsumeLogin(w)
    PROVE  Login!Next \/ UNCHANGED Login!vars
<1>1. PICK l \in Logins : l = req[w].login
  BY DEF IInv, RequestsOK, RequestOK, Arguments, ConsumeLogin, At
<1>2. SessionsOK /\ SessionsOK' /\ UNCHANGED <<grant, mapping, code, session>>
  BY DEF IInv, ConsumeLogin, worldVars
<1>3. CASE CanConsumeLogin(l, req[w].now)
  <2>1. login[l].state = "open" /\ login' = [login EXCEPT ![l].state = "consumed"]
    BY <1>1, <1>3 DEF ConsumeLogin, CanConsumeLogin
  <2>2. [k \in Logins |-> login[k].state]'
          = [[k \in Logins |-> login[k].state] EXCEPT ![l] = "consumed"]
    BY <2>1 DEF IInv, TypeOK, LoginRow
  <2>3. [k \in Logins |-> grant[k].subject]' = [k \in Logins |-> grant[k].subject]
    BY <1>2
  <2>4. [k \in Logins |-> Given(k)]' = [k \in Logins |-> Given(k)]
    BY <1>2, SameGiven
  <2>5. Login!Spend(l)
    BY <1>2, <2>1, <2>2, <2>3, <2>4 DEF Login!Spend, Given
  <2> QED BY <2>5 DEF Login!Next
<1>4. CASE ~CanConsumeLogin(l, req[w].now)
  BY <1>1, <1>2, <1>4, RequestStutters DEF ConsumeLogin
<1> QED BY <1>3, <1>4

\* Inserting the mapping is Adopt, or stutters when the row is there already.
LEMMA InsertMappingAdopts ==
    ASSUME IInv, IInv', NEW w \in Workers, InsertMapping(w)
    PROVE  Login!Next \/ UNCHANGED Login!vars
<1>1. RequestOK(req[w]) /\ req[w].pc = "insertMapping" /\ req[w].pc \in IdentifiedPcs
  BY DEF IInv, RequestsOK, InsertMapping, At, IdentifiedPcs
<1>2. PICK l \in Logins : l = req[w].login /\ login[l].state = "consumed"
                          /\ grant[l].subject # None /\ req[w].subject = grant[l].subject
  BY <1>1 DEF RequestOK, LoginHeld, SubjectKnown, LoginPcs, IdentifiedPcs
<1>3. PICK a \in Accounts : a = req[w].account /\ \A s \in Subjects : mapping[s] # a
  BY <1>1 DEF RequestOK, AccountKnown, IInv, TypeOK
<1>4. SessionsOK /\ SessionsOK' /\ UNCHANGED <<login, grant, code, session>>
  BY DEF IInv, InsertMapping, worldVars
<1>5. mapping' = IF mapping[grant[l].subject] = None
                 THEN [mapping EXCEPT ![grant[l].subject] = a] ELSE mapping
  BY <1>2, <1>3 DEF InsertMapping, InsertedMapping
<1>6. CASE mapping[grant[l].subject] = None
  <2>1. /\ [k \in Logins |-> login[k].state]' = [k \in Logins |-> login[k].state]
        /\ [k \in Logins |-> grant[k].subject]' = [k \in Logins |-> grant[k].subject]
    BY <1>4
  <2>2. [k \in Logins |-> Given(k)]' = [k \in Logins |-> Given(k)]
    BY <1>4, SameGiven
  <2>3. Login!Adopt(l, a)
    BY <1>2, <1>3, <1>5, <1>6, <2>1, <2>2 DEF Login!Adopt, Given
  <2> QED BY <2>3 DEF Login!Next
<1>7. CASE mapping[grant[l].subject] # None
  BY <1>4, <1>5, <1>7, RequestStutters
<1> QED BY <1>6, <1>7

\* identity's session is Issue, or stutters when there is no such account.
LEMMA CreateSessionIssues ==
    ASSUME IInv, IInv', NEW w \in Workers, CreateSession(w)
    PROVE  Login!Next \/ UNCHANGED Login!vars
<1>1. PICK c \in Codes : /\ c = req[w].code /\ code[c].state = "consumed"
                         /\ session[c].n = 0 /\ req[w].account = code[c].account
  BY DEF IInv, RequestsOK, RequestOK, Arguments, CodeHeld, CreateSession, At
<1>2. PICK l \in Logins : /\ l = code[c].login /\ login[l].state = "consumed"
                          /\ grant[l].subject # None /\ mapping[grant[l].subject] # None
                          /\ code[c].account = mapping[grant[l].subject]
  BY <1>1 DEF IInv, CodesOK, CodeOK
<1>3. SessionsOK /\ SessionsOK' /\ UNCHANGED <<login, grant, mapping, code>>
  BY DEF IInv, CreateSession, worldVars, rowVars
<1>4. CASE req[w].account \notin accounts
  BY <1>1, <1>3, <1>4, RequestStutters DEF CreateSession
<1>5. CASE req[w].account \in accounts
  <2> DEFINE x == <<c, 1, mapping[grant[l].subject]>>
  <2>1. /\ session'[c].n = 1 /\ session'[c].account = code[c].account
        /\ \A d \in Codes \ {c} : session'[d] = session[d]
    BY <1>1, <1>5 DEF CreateSession, IInv, TypeOK, Session
  <2>2. \A d \in Codes : code[d].login = l /\ session[d].n = 1 => d = c
    BY <1>1, <1>2 DEF IInv, CodesOK, SessionsOK
  <2>3. GivenOnce /\ GivenOnce'
    BY <1>3, GivenIssued, PTL
  <2>4. Given(l) = {}
    <3>1. IssuedCodes(l) = {}
      BY <1>1, <2>2 DEF IssuedCodes
    <3>2. FirstSessions({}) = {}
      BY DEF FirstSessions
    <3> QED BY <2>3, <3>1, <3>2 DEF GivenOnce
  <2>5. Given(l)' = {x}
    <3>1. IssuedCodes(l)' = {c}
      BY <1>2, <1>3, <2>1, <2>2 DEF IssuedCodes
    <3>2. FirstSessions(IssuedCodes(l))' = {x}
      BY <1>2, <2>1, <3>1 DEF FirstSessions
    <3> QED BY <2>3, <3>2 DEF GivenOnce
  <2>6. ASSUME NEW k \in Logins, k # l PROVE Given(k)' = Given(k)
    <3>1. IssuedCodes(k)' = IssuedCodes(k)
      BY <1>2, <1>3, <2>1, <2>6 DEF IssuedCodes
    <3>2. \A d \in IssuedCodes(k) : session'[d] = session[d]
      BY <1>2, <2>1, <2>6 DEF IssuedCodes
    <3>3. FirstSessions(IssuedCodes(k))' = FirstSessions(IssuedCodes(k))
      BY <3>1, <3>2 DEF FirstSessions
    <3> QED BY <2>3, <3>3 DEF GivenOnce
  <2>7. [k \in Logins |-> Given(k)]' = [[k \in Logins |-> Given(k)] EXCEPT ![l] = {x}]
    BY <2>5, <2>6
  <2>8. /\ [k \in Logins |-> login[k].state]' = [k \in Logins |-> login[k].state]
        /\ [k \in Logins |-> grant[k].subject]' = [k \in Logins |-> grant[k].subject]
    BY <1>3
  <2>9. x \in [k \in Logins |-> Given(k)]'[l] /\ x[3] = mapping[grant[l].subject]
    BY <2>5
  <2> HIDE DEF x
  <2>10. Login!Issue(l)
    BY <1>2, <1>3, <2>4, <2>7, <2>8, <2>9 DEF Login!Issue, Given
  <2> QED BY <2>10 DEF Login!Next
<1> QED BY <1>4, <1>5

\* Of the other steps Begin is Open and Approve is Approve; the rest stutter.
LEMMA LoginStepRefines ==
    ASSUME IInv, IInv', [Next]_vars
    PROVE  Login!Next \/ UNCHANGED Login!vars
<1>s. SessionsOK /\ SessionsOK'
  BY DEF IInv
<1>1. CASE UNCHANGED <<login, grant, mapping, code, session>>
  BY <1>s, <1>1, RequestStutters
<1>2. ASSUME NEW l \in Logins, NEW s \in Subjects, Approve(l, s)
      PROVE  Login!Next
  <2>1. UNCHANGED <<login, mapping, code, session>>
    BY <1>2 DEF Approve, rowVars
  <2>2. [k \in Logins |-> grant[k].subject]'
          = [[k \in Logins |-> grant[k].subject] EXCEPT ![l] = s]
    BY <1>2 DEF Approve, IInv, TypeOK, Grant
  <2>3. [k \in Logins |-> login[k].state]' = [k \in Logins |-> login[k].state]
    BY <2>1
  <2>4. [k \in Logins |-> Given(k)]' = [k \in Logins |-> Given(k)]
    BY <1>s, <2>1, SameGiven
  <2>5. Login!Approve(l, s)
    BY <1>2, <2>1, <2>2, <2>3, <2>4 DEF Login!Approve, Approve, Given
  <2> QED BY <2>5 DEF Login!Next
<1>3. ASSUME NEW l \in Logins, NEW target \in Targets, Begin(l, target)
      PROVE  Login!Next
  <2>1. UNCHANGED <<grant, mapping, code, session>>
    BY <1>3 DEF Begin, worldVars
  <2>2. [k \in Logins |-> login[k].state]'
          = [[k \in Logins |-> login[k].state] EXCEPT ![l] = "open"]
    BY <1>3 DEF Begin, IInv, TypeOK
  <2>3. [k \in Logins |-> grant[k].subject]' = [k \in Logins |-> grant[k].subject]
    BY <2>1
  <2>4. [k \in Logins |-> Given(k)]' = [k \in Logins |-> Given(k)]
    BY <1>s, <2>1, SameGiven
  <2>5. Login!Open(l)
    BY <1>3, <2>1, <2>2, <2>3, <2>4 DEF Login!Open, Begin, Given
  <2> QED BY <2>5 DEF Login!Next
<1>4. ASSUME NEW w \in Workers, Token(w) \/ Revoke(w)
      PROVE  UNCHANGED Login!vars
  <2>1. UNCHANGED <<login, mapping, code, session>>
    BY <1>4 DEF Token, Revoke, rowVars
  <2>2. \A l \in Logins : grant'[l].subject = grant[l].subject
    BY <1>4 DEF Token, Revoke, IInv, TypeOK, Grant
  <2> QED BY <1>s, <2>1, <2>2, RequestStutters
<1>5. ASSUME NEW w \in Workers, InsertCode(w) PROVE UNCHANGED Login!vars
  <2>1. UNCHANGED <<login, grant, mapping, session>>
    BY <1>5 DEF InsertCode, worldVars
  <2>2. \A c \in Codes : session[c].n = 1 => code'[c] = code[c]
    BY <1>5, <1>s DEF InsertCode, SessionsOK, IInv, TypeOK
  <2> QED BY <1>s, <2>1, <2>2, RequestStutters
<1>6. ASSUME NEW w \in Workers, ConsumeCode(w) PROVE UNCHANGED Login!vars
  <2>1. UNCHANGED <<login, grant, mapping, session>>
    BY <1>6 DEF ConsumeCode, worldVars
  <2>2. \A c \in Codes : code'[c].login = code[c].login
    BY <1>6 DEF ConsumeCode, IInv, TypeOK, CodeRow
  <2> QED BY <1>s, <2>1, <2>2, RequestStutters
<1>7. CASE \/ Tick \/ UNCHANGED vars
           \/ \E type \in Types, targets \in SUBSET Targets : Redeploy(type, targets)
  BY <1>1, <1>7 DEF Tick, Redeploy, vars, worldVars, rowVars
<1>8. ASSUME NEW w \in Workers,
             \/ \E l \in Logins, denied \in BOOLEAN : StartCallback(w, l, denied)
             \/ \E c \in Codes : StartExchange(w, c)
             \/ Userinfo(w) \/ FindMapping(w) \/ CreateAccount(w) \/ ReadMapping(w)
             \/ Crash(w)
      PROVE  UNCHANGED <<login, grant, mapping, code, session>>
  <2>1. \A l \in Logins, denied \in BOOLEAN :
          StartCallback(w, l, denied) => UNCHANGED <<login, grant, mapping, code, session>>
    BY DEF StartCallback, worldVars, rowVars
  <2>2. \A c \in Codes :
          StartExchange(w, c) => UNCHANGED <<login, grant, mapping, code, session>>
    BY DEF StartExchange, worldVars, rowVars
  <2>3. CASE Userinfo(w) \/ FindMapping(w) \/ ReadMapping(w) \/ Crash(w)
    BY <2>3 DEF Userinfo, FindMapping, ReadMapping, Crash, worldVars, rowVars
  <2>4. CASE CreateAccount(w)
    BY <2>4 DEF CreateAccount, worldVars, rowVars
  <2> QED BY <1>8, <2>1, <2>2, <2>3, <2>4
<1> QED BY <1>1, <1>2, <1>3, <1>4, <1>5, <1>6, <1>7, <1>8, ConsumeLoginSpends,
           InsertMappingAdopts, CreateSessionIssues DEF Next

\* No row is an initial state of LoginSessions.
LEMMA LoginInitRefines == Init => Login!Init
<1> SUFFICES ASSUME Init PROVE Login!Init
  OBVIOUS
<1>1. [l \in Logins |-> login[l].state] = [l \in Logins |-> "absent"]
  BY DEF Init
<1>2. [l \in Logins |-> grant[l].subject] = [l \in Logins |-> None]
  BY DEF Init
<1>3. [l \in Logins |-> Given(l)] = [l \in Logins |-> {}]
  <2>1. \A c \in Codes : session[c].n = 0
    BY DEF Init
  <2>2. SessionsOK
    BY <2>1 DEF SessionsOK
  <2>3. \A l \in Logins : IssuedCodes(l) = {}
    BY <2>1 DEF IssuedCodes
  <2>4. FirstSessions({}) = {}
    BY DEF FirstSessions
  <2>5. \A l \in Logins : Given(l) = {}
    BY <2>2, <2>3, <2>4, GivenIssued, Zenon DEF GivenOnce
  <2> QED BY <2>5
<1> QED BY <1>1, <1>2, <1>3 DEF Init, Login!Init, Given

\* Whatever fails, is repeated, or races: a login is spent once and gives at
\* most one session, to the one account of the person who approved it.
THEOREM LoginImplemented == Spec => ImplementsLogin
<1>1. IInv /\ IInv' /\ [Next]_vars => [Login!Next]_(Login!vars)
  BY LoginStepRefines
<1> QED BY <1>1, LoginInitRefines, Invariance, PTL DEF Spec, ImplementsLogin, Login!Spec
=============================================================================
