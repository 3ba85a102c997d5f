------------------------------- MODULE Users -------------------------------
(***************************************************************************)
(* The user API (internal/api/user_handler.go), its repository and pool    *)
(* (internal/db), the middleware (internal/middleware/auth_middleware.go), *)
(* and the table behind them, which alone outlives the process.            *)
(*                                                                         *)
(* A handler waits for a connection, sends one statement, and answers by   *)
(* its reply.  The database executes a statement atomically, but the reply *)
(* may be lost, the client may leave, and the process may end in between;  *)
(* a statement that was sent may then still be executed later.             *)
(*                                                                         *)
(* An account is its email and password, and stands for its id.  A hash    *)
(* matches the password it was made of and no other.  Emails are those     *)
(* that pass validateEmail, as sent (it trims only a copy); an email that  *)
(* does not pass is one nobody has registered.  Roles, payloads, and       *)
(* answers that depend on nothing else than the request are left out.      *)
(***************************************************************************)
EXTENDS Integers, FiniteSets

CONSTANTS
  Clients, Emails, Passwords, None,
  MaxConns,     \* of the pool
  TokenLife,    \* 24 hours
  Secrets,      \* values of SECRET the process may be started with
  NoSecret,     \* the variable is not set
  MaxRestarts,  \* bound
  MaxStray,     \* bound: statements that may outlive their calls at a time
  Horizon       \* bound: how long the clock runs

Account == [email : Emails, password : Passwords]

\* A login that has succeeded.
Earned == [account : Account, time : 0..Horizon, secret : Secrets]

\* What the database may reply.
Replies == {"created", "unique_violation", "no_rows", "found"}

Call == [phase   : {"idle", "acquiring", "executing", "replied"},
         kind    : {None, "register", "login"},
         account : Account \cup {None},
         reply   : Replies \cup {None},
         row     : Account \cup {None}]

ASSUME UsersAssumption ==
  /\ MaxConns \in Nat \ {0} /\ TokenLife \in Nat \ {0}
  /\ NoSecret \in Secrets
  /\ IsFiniteSet(Clients)
  \* None is none of the values it stands beside
  /\ None \notin Clients /\ None \notin Replies /\ None \notin Earned
  /\ MaxRestarts \in Nat /\ MaxStray \in Nat /\ Horizon \in Nat

VARIABLES
  users,         \* the table
  conns,         \* connections of the pool that are in use
  call,          \* call[c]: the call that serves client c
  token,         \* token[c]: the last token c was given, or None
  secret,        \* SECRET of this process
  admitted,      \* the client the middleware has just let pass, or None
  stray,         \* the accounts of INSERTs that have outlived their calls
  now,
  restarts,
  acknowledged,  \* history: the accounts whose registration was answered 201
  earned         \* history: the last login of c that succeeded, or None

sessionVars == <<token, earned, secret, now, restarts>>
vars == <<users, conns, call, admitted, stray, acknowledged, sessionVars>>

NoCall == [phase |-> "idle", kind |-> None, account |-> None,
           reply |-> None, row |-> None]

Init ==
  /\ users = {}
  /\ conns = 0
  /\ call = [c \in Clients |-> NoCall]
  /\ token = [c \in Clients |-> None]
  /\ secret \in Secrets
  /\ admitted = None
  /\ stray = {}
  /\ now = 0
  /\ restarts = 0
  /\ acknowledged = {}
  /\ earned = [c \in Clients |-> None]

At(c, phase) == call[c].phase = phase

\* The row with the email of account u: at most one, by the unique index.
Rows(u) == {v \in users : v.email = u.email}

----------------------------------------------------------------------------
(* A call.                                                                 *)

\* c's call becomes this.
Go(c, new) == call' = [call EXCEPT ![c] = new] /\ admitted' = None

Begin(c, kind, account) ==
  /\ At(c, "idle")
  /\ Go(c, [phase |-> "acquiring", kind |-> kind, account |-> account,
            reply |-> None, row |-> None])
  /\ UNCHANGED <<users, conns, stray, acknowledged, sessionVars>>

\* A valid email, and a password that can be hashed; others get 400 and 500.
RegisterUser(c, account) == Begin(c, "register", account)

Login(c, account) == Begin(c, "login", account)

\* c takes a connection while fewer than limit are in use.
AcquireBelow(c, limit) ==
  /\ At(c, "acquiring")
  /\ conns < limit
  /\ conns' = conns + 1
  /\ Go(c, [call[c] EXCEPT !.phase = "executing"])
  /\ UNCHANGED <<users, stray, acknowledged, sessionVars>>

\* Mutant of AcquireConn: the limit is one more.
AcquireConnOneMore(c) == AcquireBelow(c, MaxConns + 1)

\* QueryRow takes a connection of the pool.
AcquireConn(c) == AcquireBelow(c, MaxConns)

Executing(c, kind) == At(c, "executing") /\ call[c].kind = kind

Reply(c, reply, row) ==
  Go(c, [phase |-> "replied", kind |-> call[c].kind, account |-> call[c].account,
         reply |-> reply, row |-> row])

\* Mutant of CreateUser: the statement is an upsert.
CreateUserOrReplace(c) ==
  /\ Executing(c, "register")
  /\ users' = (users \ Rows(call[c].account)) \cup {call[c].account}
  /\ Reply(c, "created", None)
  /\ UNCHANGED <<conns, stray, acknowledged, sessionVars>>

\* The INSERT, and the unique index.
CreateUser(c) ==
  /\ Executing(c, "register")
  /\ IF Rows(call[c].account) = {}
     THEN users' = users \cup {call[c].account} /\ Reply(c, "created", None)
     ELSE UNCHANGED users /\ Reply(c, "unique_violation", None)
  /\ UNCHANGED <<conns, stray, acknowledged, sessionVars>>

\* The SELECT.
GetUserByEmail(c) ==
  /\ Executing(c, "login")
  /\ IF Rows(call[c].account) = {}
     THEN Reply(c, "no_rows", None)
     ELSE \E u \in Rows(call[c].account) : Reply(c, "found", u)
  /\ UNCHANGED <<users, conns, stray, acknowledged, sessionVars>>

\* Scan has given the connection back, and the handler answers.
Return(c) ==
  /\ Go(c, NoCall)
  /\ conns' = IF At(c, "acquiring") THEN conns ELSE conns - 1

\* An INSERT that is on its way when the call ends is executed later, or not.
MayStray(clients) ==
  /\ stray' \in {stray, stray \cup
       {call[c].account : c \in {d \in clients : Executing(d, "register")}}}
  /\ Cardinality(stray') <= MaxStray

\* c's registration, if that is its call, is answered 201.
Acknowledge(c) ==
  acknowledged' = IF call[c].kind = "register"
                  THEN acknowledged \cup {call[c].account} ELSE acknowledged

\* Mutant of QueryFails: only an error of the server is an error.
QueryFailsUnnoticed(c) ==
  /\ ~ At(c, "idle")
  /\ Return(c) /\ MayStray({c}) /\ Acknowledge(c)
  /\ UNCHANGED <<users, sessionVars>>

\* The client leaves, the connection breaks, or the statement fails: 500,
\* whatever became of the statement.
QueryFails(c) ==
  /\ ~ At(c, "idle")
  /\ Return(c) /\ MayStray({c})
  /\ UNCHANGED <<users, acknowledged, sessionVars>>

Replied(c, replies) == At(c, "replied") /\ call[c].reply \in replies

\* RegisterUser: 201
Registered(c) ==
  /\ Replied(c, {"created"})
  /\ Return(c) /\ Acknowledge(c)
  /\ UNCHANGED <<users, stray, sessionVars>>

\* Mutant of FailReplied: the row is not scanned, so the connection stays in use.
FailRepliedUnscanned(c) ==
  /\ Replied(c, {"unique_violation", "no_rows"})
  /\ Go(c, NoCall)
  /\ UNCHANGED <<users, conns, stray, acknowledged, sessionVars>>

\* 500 for ErrUserAlreadyExists, and for ErrUserNotFound, which is not
\* sql.ErrNoRows.
FailReplied(c) ==
  /\ Replied(c, {"unique_violation", "no_rows"})
  /\ Return(c)
  /\ UNCHANGED <<users, stray, acknowledged, sessionVars>>

\* Login hands out a token, even one signed without a SECRET.
Grant(c) ==
  /\ token' = [token EXCEPT ![c] =
       [sub |-> call[c].row, exp |-> now + TokenLife, secret |-> secret]]
  /\ earned' = [earned EXCEPT ![c] =
       [account |-> call[c].account, time |-> now, secret |-> secret]]
  /\ UNCHANGED <<secret, now, restarts>>

\* Login with the row it has found, when Matches returns this.
LoginFound(c, matches) ==
  /\ Replied(c, {"found"})
  /\ Return(c)
  /\ IF matches THEN Grant(c) ELSE UNCHANGED sessionVars
  /\ UNCHANGED <<users, stray, acknowledged>>

\* Mutant of LoggedIn: only the error of Matches is looked at.
LoggedInUnmatched(c) == LoginFound(c, TRUE)

\* 200 or 401
LoggedIn(c) == LoginFound(c, call[c].row.password = call[c].account.password)

----------------------------------------------------------------------------
(* The middleware and the environment.                                     *)

\* jwt.Parse, after the check of SECRET.
Valid(t) == secret # NoSecret /\ t.secret = secret /\ now < t.exp

\* A valid token passes; others get 401.  (A request without the header passes
\* as AnonymousUser, and nothing here depends on it.)
Authenticate(c) ==
  /\ At(c, "idle")
  /\ token[c] # None
  /\ Valid(token[c])
  /\ admitted' = c
  /\ UNCHANGED <<users, conns, call, stray, acknowledged, sessionVars>>

SettleStray(u) ==
  /\ u \in stray
  /\ stray' = stray \ {u}
  /\ users' \in {users, IF Rows(u) = {} THEN users \cup {u} ELSE users}
  /\ admitted' = None
  /\ UNCHANGED <<conns, call, acknowledged, sessionVars>>

\* The process ends and is started again, perhaps with another SECRET.
Restart ==
  /\ restarts < MaxRestarts
  /\ restarts' = restarts + 1
  /\ secret' \in Secrets
  /\ conns' = 0
  /\ call' = [c \in Clients |-> NoCall]
  /\ MayStray(Clients)
  /\ admitted' = None
  /\ UNCHANGED <<users, token, earned, now, acknowledged>>

Tick ==
  /\ now < Horizon
  /\ now' = now + 1
  /\ admitted' = None
  /\ UNCHANGED <<users, conns, call, token, earned, secret, stray, restarts,
                 acknowledged>>

----------------------------------------------------------------------------
\* The database executes and the handler answers.
Serve(c) ==
  \/ CreateUser(c) \/ GetUserByEmail(c)
  \/ Registered(c) \/ FailReplied(c) \/ LoggedIn(c)

Next ==
  \/ \E c \in Clients :
       \/ \E account \in Account : RegisterUser(c, account) \/ Login(c, account)
       \/ AcquireConn(c) \/ QueryFails(c) \/ Serve(c) \/ Authenticate(c)
  \/ \E u \in stray : SettleStray(u)
  \/ Restart
  \/ Tick

Spec == Init /\ [][Next]_vars

\* The database executes what it is sent, handlers go on, and the pool serves
\* those that wait for a connection in order.
FairSpec ==
  Spec /\ \A c \in Clients : WF_vars(Serve(c)) /\ SF_vars(AcquireConn(c))

----------------------------------------------------------------------------
(* Properties.                                                             *)

TypeOK ==
  /\ users \subseteq Account /\ stray \subseteq Account
  /\ acknowledged \subseteq Account
  /\ conns \in 0..MaxConns
  /\ call \in [Clients -> Call]
  /\ token \in [Clients ->
       [sub : Account, exp : 0..(Horizon + TokenLife), secret : Secrets] \cup {None}]
  /\ earned \in [Clients -> Earned \cup {None}]
  /\ secret \in Secrets
  /\ admitted \in Clients \cup {None}
  /\ now \in 0..Horizon /\ restarts \in 0..MaxRestarts

(* A registration answered 201 is in the table, whichever registrations    *)
(* compete for the email, whatever is lost on the way, and after a restart *)
(* (user_handler.go:88-101, user_repository.go:29-51).                     *)
AcknowledgedStored == acknowledged \subseteq users

(* Credentials whose registration was answered 201 are never answered 401  *)
(* at a login, however often the email is registered again, by others or   *)
(* by the same client after an answer it has not seen                      *)
(* (user_handler.go:142-152, user_repository.go:43).                       *)
RightPasswordAccepted ==
  \A c \in Clients :
    call[c].reply = "found" /\ call[c].account \in acknowledged
      => call[c].row.password = call[c].account.password

(* The middleware never asks the table, yet lets a token pass only if its  *)
(* holder has logged in, less than TokenLife ago and under the same SECRET,*)
(* with the password of an account that is still there                     *)
(* (user_handler.go:142-188, auth_middleware.go:55-103).                   *)
AccessIsEarned ==
  admitted # None =>
    LET login == earned[admitted] IN
    /\ login # None
    /\ now - login.time < TokenLife
    /\ login.secret = secret
    /\ login.account \in users /\ login.account = token[admitted].sub

(* Every call is answered: no outcome of another call keeps its connection *)
(* of the pool, for which a call waits without a timeout of its own        *)
(* (connection.go:21, user_repository.go:29, 62).                          *)
CallsEnd == \A c \in Clients : At(c, "acquiring") ~> At(c, "idle")
=============================================================================
