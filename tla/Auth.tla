-------------------------------- MODULE Auth --------------------------------
(***************************************************************************)
(* The auth server: internal/service/auth_service.go over internal/        *)
(* repository, as internal/handler/auth_handler.go serves it.              *)
(*                                                                         *)
(* A request runs in a goroutine of its own and executes its SQL statements *)
(* one at a time, each in its own transaction; nothing holds two of them   *)
(* together.  The steps of a request are its statements.                   *)
(*                                                                         *)
(* Abstractions.  A refresh token is a model value: its jti makes it       *)
(* unique.  Access tokens are never stored and left out.  An input that    *)
(* Register refuses before it reaches the database is the name of the      *)
(* reason.  Rows of users are never deleted, so FindByID finds the user a  *)
(* token was signed for.                                                   *)
(***************************************************************************)
EXTENDS Naturals

CONSTANTS
  Requests,    \* goroutines serving a request
  Emails, Names, Passwords,
  Tokens,      \* refresh tokens that can be signed: bounds the logins and refreshes
  None,        \* no token, or one this server did not sign
  Malformed, Invalid, TooLong, \* bodies of POST /register that never reach the database:
               \* not JSON; no @, or a short username or password; a password beyond
               \* the 72 bytes bcrypt takes
  Faults       \* statements may fail and the process may crash

Account == [email : Emails, name : Names, password : Passwords]

ASSUME AuthAssumption ==
  /\ None \notin Tokens
  /\ Faults \in BOOLEAN

BadInput == {Malformed, Invalid, TooLong}

VARIABLES
  users,      \* table users
  tokens,     \* table refresh_tokens
  expired,    \* tokens past their exp claim
  pc,         \* the statement each request executes next
  account,    \* the body of Register or Login
  token,      \* the token of Refresh or Logout; None in Login
  answer,     \* HTTP status of the request's answer; 0 before it
  minted,     \* history: tokens that were ever stored
  parent,     \* history: the token a stored token was exchanged for
  issued,     \* history: tokens answered to a client
  presented,  \* history: tokens a client asked to exchange or to log out
  contended,  \* history: tokens presented while a request with them was running
  loggedOut   \* history: tokens whose logout was answered 200

reqVars == <<pc, account, token, answer>>
history == <<minted, parent, issued, presented, contended, loggedOut>>
vars == <<users, tokens, expired, reqVars, history>>

Statement == {"createUser", "checkPassword", "findRefresh", "deleteRefresh", "findUser",
              "insert", "findLogout", "deleteLogout"}

TypeOK ==
  /\ users \in SUBSET Account
  /\ tokens \in SUBSET Tokens
  /\ expired \in SUBSET Tokens
  /\ pc \in [Requests -> Statement \cup {"idle"}]
  /\ account \in [Requests -> Account \cup {None}]
  /\ token \in [Requests -> Tokens \cup {None}]
  /\ answer \in [Requests -> {0, 200, 201, 400, 401, 409, 500}]
  /\ minted \in SUBSET Tokens
  /\ parent \in [Tokens -> Tokens \cup {None}]
  /\ issued \in SUBSET Tokens
  /\ presented \in SUBSET Tokens
  /\ contended \in SUBSET Tokens
  /\ loggedOut \in SUBSET Tokens

Init ==
  /\ users = {}
  /\ tokens = {}
  /\ expired = {}
  /\ pc = [r \in Requests |-> "idle"]
  /\ account = [r \in Requests |-> None]
  /\ token = [r \in Requests |-> None]
  /\ answer = [r \in Requests |-> 0]
  /\ minted = {}
  /\ parent = [t \in Tokens |-> None]
  /\ issued = {}
  /\ presented = {}
  /\ contended = {}
  /\ loggedOut = {}

-----------------------------------------------------------------------------
\* A request comes in and reaches its first statement.
Begin(r, statement, a, t) ==
  /\ pc[r] = "idle"
  /\ pc' = [pc EXCEPT ![r] = statement]
  /\ account' = [account EXCEPT ![r] = a]
  /\ token' = [token EXCEPT ![r] = t]
  /\ answer' = [answer EXCEPT ![r] = 0]

\* A request comes in and is answered without a statement.
Refuse(r, code) ==
  /\ pc[r] = "idle"
  /\ answer' = [answer EXCEPT ![r] = code]
  /\ UNCHANGED <<pc, account, token>>

Goto(r, statement) ==
  /\ pc' = [pc EXCEPT ![r] = statement]
  /\ UNCHANGED <<account, token, answer>>

Answer(r, code) ==
  /\ pc' = [pc EXCEPT ![r] = "idle"]
  /\ account' = [account EXCEPT ![r] = None]
  /\ token' = [token EXCEPT ![r] = None]
  /\ answer' = [answer EXCEPT ![r] = code]

\* A statement that changed the database is reported done, or its answer is lost and
\* the service takes it for failed.
Reported == IF Faults THEN BOOLEAN ELSE {TRUE}

\* A client presents a token it was given, if any; others may be doing so.
Present(t) ==
  LET new == {t} \ {None} IN
  /\ new \subseteq issued
  /\ presented' = presented \cup new
  /\ contended' = contended \cup {u \in new : \E r \in Requests : pc[r] # "idle" /\ token[r] = u}

-----------------------------------------------------------------------------
(* Register.                                                               *)

Register(r, a) ==
  /\ Begin(r, "createUser", a, None)
  /\ UNCHANGED <<users, tokens, expired, history>>

\* mapServiceError knows the service's own errors; anything else is internal.
\* (Mutant: a status no endpoint answers.)
VerdictUnprocessable(input) == 422
Verdict(input) == IF input = Invalid THEN 400 ELSE 500

RegisterRefused(r, input) ==
  /\ Refuse(r, Verdict(input))
  /\ UNCHANGED <<users, tokens, expired, history>>

\* The unique indexes on email and on username.
Taken(a) == \E u \in users : u.email = a.email \/ u.name = a.name

\* gorm reports ErrDuplicatedKey only with TranslateError, which db.go does not set.
CreateUserDuplicate(r) ==
  /\ pc[r] = "createUser"
  /\ Taken(account[r])
  /\ Answer(r, 500)
  /\ UNCHANGED <<users, tokens, expired, history>>

CreateUser(r) ==
  /\ pc[r] = "createUser"
  /\ ~Taken(account[r])
  /\ users' = users \cup {account[r]}
  /\ \E ok \in Reported : Answer(r, IF ok THEN 201 ELSE 500)
  /\ UNCHANGED <<tokens, expired, history>>

\* BodyParser refuses the body of another endpoint.
BodyRefused(r) ==
  /\ Refuse(r, 500)
  /\ UNCHANGED <<users, tokens, expired, history>>

-----------------------------------------------------------------------------
(* Login.                                                                  *)

Login(r, a) ==
  /\ Begin(r, "checkPassword", a, None)
  /\ UNCHANGED <<users, tokens, expired, history>>

\* FindByEmail and CompareHashAndPassword.
PasswordAccepted(r) ==
  /\ pc[r] = "checkPassword"
  /\ \E u \in users : u.email = account[r].email /\ u.password = account[r].password
  /\ Goto(r, "insert")
  /\ UNCHANGED <<users, tokens, expired, history>>

PasswordRefused(r) ==
  /\ pc[r] = "checkPassword"
  /\ \A u \in users : u.email = account[r].email => u.password # account[r].password
  /\ Answer(r, 401)
  /\ UNCHANGED <<users, tokens, expired, history>>

\* createTokenPair, for Login and for Refresh: the pair is answered once its refresh
\* token is stored.
InsertToken(r, t) ==
  /\ pc[r] = "insert"
  /\ t \notin minted
  /\ tokens' = tokens \cup {t}
  /\ minted' = minted \cup {t}
  /\ parent' = [parent EXCEPT ![t] = token[r]]
  /\ \E ok \in Reported :
       /\ Answer(r, IF ok THEN 200 ELSE 500)
       /\ issued' = IF ok THEN issued \cup {t} ELSE issued
  /\ UNCHANGED <<users, expired, presented, contended, loggedOut>>

-----------------------------------------------------------------------------
(* Refresh.                                                                *)

\* The first check is jwt.Parse: the signature, and the exp claim.
Refresh(r, t) ==
  /\ t \notin expired
  /\ Begin(r, "findRefresh", None, t)
  /\ Present(t)
  /\ UNCHANGED <<users, tokens, expired, minted, parent, issued, loggedOut>>

RefreshRefused(r) ==
  /\ Refuse(r, 401)
  /\ UNCHANGED <<users, tokens, expired, history>>

\* FindByToken.  (Mutant: its result is not looked at.)
FindIgnored(t) == TRUE
Found(t) == t \in tokens

FindRefresh(r) ==
  /\ pc[r] = "findRefresh"
  /\ \/ Found(token[r]) /\ Goto(r, "deleteRefresh")
     \/ ~Found(token[r]) /\ Answer(r, 401)
  /\ UNCHANGED <<users, tokens, expired, history>>

\* DeleteByToken: whether the row was still there is not looked at.  (Mutants:
\* nothing is deleted; every token of the user is, as DeleteByUserID does.)
DeleteForgotten(t) == UNCHANGED tokens
DeleteOfUser(t) == tokens' = {}
DeleteByToken(t) == tokens' = tokens \ {t}

DeleteRefresh(r) ==
  /\ pc[r] = "deleteRefresh"
  /\ DeleteByToken(token[r])
  /\ \E ok \in Reported : IF ok THEN Goto(r, "findUser") ELSE Answer(r, 500)
  /\ UNCHANGED <<users, expired, history>>

FindUser(r) ==
  /\ pc[r] = "findUser"
  /\ Goto(r, "insert")
  /\ UNCHANGED <<users, tokens, expired, history>>

-----------------------------------------------------------------------------
(* Logout: the token is not parsed, only looked up.                        *)

Logout(r, t) ==
  /\ Begin(r, "findLogout", None, t)
  /\ Present(t)
  /\ UNCHANGED <<users, tokens, expired, minted, parent, issued, loggedOut>>

LoggedOut(r) ==
  /\ Answer(r, 200)
  /\ loggedOut' = loggedOut \cup ({token[r]} \ {None})

FindLogout(r) ==
  /\ pc[r] = "findLogout"
  /\ \/ Found(token[r]) /\ Goto(r, "deleteLogout") /\ UNCHANGED loggedOut
     \/ ~Found(token[r]) /\ LoggedOut(r)
  /\ UNCHANGED <<users, tokens, expired, minted, parent, issued, presented, contended>>

DeleteLogout(r) ==
  /\ pc[r] = "deleteLogout"
  /\ DeleteByToken(token[r])
  /\ \E ok \in Reported :
       IF ok THEN LoggedOut(r) ELSE Answer(r, 500) /\ UNCHANGED loggedOut
  /\ UNCHANGED <<users, expired, minted, parent, issued, presented, contended>>

-----------------------------------------------------------------------------
\* A statement fails and changes nothing.
StatementFails(r) ==
  /\ Faults
  /\ pc[r] # "idle"
  /\ Answer(r, 500)
  /\ UNCHANGED <<users, tokens, expired, history>>

\* The process dies, or Shutdown closes the database under its requests, and docker
\* starts a new one: no request is answered.
Crash ==
  /\ Faults
  /\ pc' = [r \in Requests |-> "idle"]
  /\ account' = [r \in Requests |-> None]
  /\ token' = [r \in Requests |-> None]
  /\ answer' = [r \in Requests |-> 0]
  /\ UNCHANGED <<users, tokens, expired, history>>

Expire(t) ==
  /\ t \in minted \ expired
  /\ expired' = expired \cup {t}
  /\ UNCHANGED <<users, tokens, reqVars, history>>

\* What a client sends.
Client(r) ==
  \/ \E a \in Account : Register(r, a) \/ Login(r, a)
  \/ \E input \in BadInput : RegisterRefused(r, input)
  \/ \E t \in Tokens : Refresh(r, t)
  \/ RefreshRefused(r) \/ BodyRefused(r)
  \/ \E t \in Tokens \cup {None} : Logout(r, t)

\* What the server does.
Serve(r) ==
  \/ CreateUserDuplicate(r) \/ CreateUser(r)
  \/ PasswordAccepted(r) \/ PasswordRefused(r)
  \/ \E t \in Tokens : InsertToken(r, t)
  \/ FindRefresh(r) \/ DeleteRefresh(r) \/ FindUser(r)
  \/ FindLogout(r) \/ DeleteLogout(r)

Next ==
  \/ \E r \in Requests : Client(r) \/ Serve(r) \/ StatementFails(r)
  \/ Crash
  \/ \E t \in Tokens : Expire(t)

Spec == Init /\ [][Next]_vars

-----------------------------------------------------------------------------
(* Safety.                                                                 *)

\* Rotation: as long as a token can be exchanged, no token it was exchanged for is
\* stored; the old one is always gone before the new one exists, also when the
\* refresh fails halfway or races with another one.
RotationOrder ==
  \A t \in minted : parent[t] # None => parent[t] \notin tokens

\* A token whose logout was answered 200 passes no lookup of Refresh any more, however many
\* requests with it run.  A refresh that had looked it up before may still exchange it, but
\* then the token was presented while another request with it was running.
LogoutFinal ==
  [][\A r \in Requests : token[r] \in loggedOut =>
       /\ pc[r] = "findRefresh" => pc'[r] # "deleteRefresh"
       /\ pc[r] = "insert" /\ minted' # minted => token[r] \in contended]_vars

\* No session is lost behind the client's back: a token it was given stays stored
\* until it presents it, through crashes and failed statements of other requests.
NoSilentLoss == issued \ tokens \subseteq presented

\* The tokens a token was exchanged for.
Children(t) == {u \in minted : parent[u] = t}

\* FindByToken lets a request through only while its token was never exchanged: a
\* second exchange needs two requests that both looked before either stored its token.
ReuseNeedsOverlap ==
  [][\A r \in Requests :
       pc[r] = "findRefresh" /\ pc'[r] = "deleteRefresh" => Children(token[r]) = {}]_vars

\* A token is exchanged more than once only when it was presented while a request with
\* it was running, however the requests end.
ForkNeedsContention ==
  \A t, u \in minted :
    parent[t] # None /\ parent[t] = parent[u] => t = u \/ parent[t] \in contended

\* The server implements Sessions; a token stays live for the client while its exchange
\* is on the way.
S == INSTANCE Sessions WITH
       live <- tokens \cup {token[r] : r \in {q \in Requests : pc[q] \in {"findUser", "insert"}
                                                           /\ token[q] # None}},
       ever <- minted

SessionsSpec == S!Spec

-----------------------------------------------------------------------------
(* What the README of the auth server says, and the code does not do.      *)

\* POST /refresh answers 401 for a refresh token already used: no token is exchanged
\* twice.
SingleUse ==
  \A t, u \in minted : parent[t] # None /\ parent[t] = parent[u] => t = u

\* POST /register answers 409 when the user exists.
DuplicateAnswered409 ==
  [][\A r \in Requests :
       pc[r] = "createUser" /\ Taken(account[r]) /\ pc'[r] = "idle" => answer'[r] = 409]_vars

\* POST /register answers 400 for incorrect data.
BadInputAnswered400 ==
  [][\A r \in Requests, input \in BadInput : RegisterRefused(r, input) => answer'[r] = 400]_vars

=============================================================================
