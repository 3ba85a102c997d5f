---------------------------- MODULE Users_proofs ----------------------------
(***************************************************************************)
(* Proofs about Users, for every finite set of clients, all emails,        *)
(* passwords and secrets, and every size of the pool: what was answered is *)
(* true of the table, and access is earned.                                *)
(*                                                                         *)
(* None of this is inductive alone.  An answer is right because of what    *)
(* the reply on its way says of the table (RepliesTrue), a token because it*)
(* agrees with the login it was given for (TokensEarned), and the counter  *)
(* of the pool because it counts the calls past AcquireConn (ConnsCounted).*)
(***************************************************************************)
EXTENDS Users, FiniteSetTheorems, TLAPS

\* The unique index.
UniqueEmails == \A u, v \in users : u.email = v.email => u = v

\* What a call knows in each phase.
RepliesTrue ==
  \A c \in Clients :
    /\ ~ At(c, "idle") => /\ call[c].kind \in {"register", "login"}
                          /\ call[c].account \in Account
    /\ call[c].reply # None => At(c, "replied")
    /\ call[c].reply \in {"created", "unique_violation"} => call[c].kind = "register"
    /\ call[c].reply \in {"no_rows", "found"} => call[c].kind = "login"
    /\ call[c].reply = "created" => call[c].account \in users
    /\ call[c].reply = "found" => /\ call[c].row \in users
                                  /\ call[c].row.email = call[c].account.email

\* A token agrees with the last login of its holder.
TokensEarned ==
  \A c \in Clients : token[c] # None =>
    /\ earned[c] \in Earned
    /\ earned[c].account \in users
    /\ token[c] = [sub |-> earned[c].account, exp |-> earned[c].time + TokenLife,
                   secret |-> earned[c].secret]

\* The client just admitted holds a token that is still valid.
AdmittedValid ==
  admitted # None => token[admitted] # None /\ Valid(token[admitted])

\* The clients whose call has a connection.
Connected == {c \in Clients : At(c, "executing") \/ At(c, "replied")}

ConnsCounted == conns = Cardinality(Connected)

\* The inductive invariant.
Inv ==
  /\ TypeOK
  /\ UniqueEmails
  /\ RepliesTrue
  /\ AcknowledgedStored
  /\ TokensEarned
  /\ AdmittedValid
  /\ ConnsCounted

----------------------------------------------------------------------------
(* Who is connected after a step of c, whose call becomes new.             *)
LEMMA ConnectedAfter ==
  ASSUME TypeOK, NEW c \in Clients, NEW new, Go(c, new)
  PROVE  Connected' = IF new.phase \in {"executing", "replied"}
                      THEN Connected \cup {c} ELSE Connected \ {c}
BY DEF TypeOK, Go, Connected, At

(* The pool counts a finite set of calls, so a connected call is counted.  *)
LEMMA ConnectedFinite ==
  ASSUME Inv
  PROVE  /\ IsFiniteSet(Connected)
         /\ conns = Cardinality(Connected) /\ conns \in Nat
         /\ \A c \in Connected : conns > 0
<1>1. Connected \subseteq Clients /\ IsFiniteSet(Clients)
  BY UsersAssumption DEF Connected
<1>2. IsFiniteSet(Connected)
  BY <1>1, FS_Subset
<1>3. Cardinality(Connected) \in Nat
  BY <1>2, FS_CardinalityType
<1>4. \A c \in Connected : Cardinality(Connected) # 0
  BY <1>2, FS_EmptySet
<1> QED
  BY <1>2, <1>3, <1>4 DEF Inv, ConnsCounted

(* A call that ends has given its connection back.                         *)
LEMMA ReturnCounted ==
  ASSUME Inv, NEW c \in Clients, ~ At(c, "idle"), Return(c)
  PROVE  /\ conns' \in 0..MaxConns
         /\ ConnsCounted'
         /\ call' = [call EXCEPT ![c] = NoCall] /\ admitted' = None
<1>1. TypeOK /\ Go(c, NoCall)
  BY DEF Inv, Return
<1>2. Connected' = Connected \ {c}
  BY <1>1, ConnectedAfter DEF NoCall
<1>3. IF c \in Connected THEN conns > 0 /\ Cardinality(Connected') = conns - 1
                         ELSE Cardinality(Connected') = conns
  <2>1. CASE c \in Connected
    BY <1>2, <2>1, ConnectedFinite, FS_RemoveElement
  <2>2. CASE c \notin Connected
    <3>1. Connected \ {c} = Connected
      BY <2>2
    <3> QED
      BY <1>2, <2>2, <3>1, ConnectedFinite
  <2> QED
    BY <2>1, <2>2
<1>4. At(c, "acquiring") <=> c \notin Connected
  BY <1>1 DEF TypeOK, Call, At, Connected
<1>5. conns' = Cardinality(Connected') /\ conns' \in 0..MaxConns
  BY <1>1, <1>3, <1>4, ConnectedFinite, UsersAssumption DEF Return, TypeOK
<1> QED
  BY <1>1, <1>5 DEF ConnsCounted, Go

(* The same of the actions that end a call or take a connection.           *)
LEMMA ConnsStep ==
  ASSUME Inv, [Next]_vars
  PROVE  conns' \in 0..MaxConns /\ ConnsCounted'
<1> USE DEF Inv
<1>1. ASSUME NEW c \in Clients, NEW kind, NEW account, Begin(c, kind, account)
      PROVE  conns' \in 0..MaxConns /\ ConnsCounted'
  <2>1. Connected' = Connected \ {c} /\ c \notin Connected
    BY <1>1, ConnectedAfter DEF Begin, Connected, At
  <2> QED
    BY <1>1, <2>1, ConnectedFinite DEF Begin, ConnsCounted, TypeOK
<1>2. ASSUME NEW c \in Clients, AcquireConn(c)
      PROVE  conns' \in 0..MaxConns /\ ConnsCounted'
  <2>1. Connected' = Connected \cup {c} /\ c \notin Connected
    BY <1>2, ConnectedAfter DEF AcquireConn, AcquireBelow, Connected, At, TypeOK, Call
  <2>2. Cardinality(Connected') = conns + 1
    BY <2>1, ConnectedFinite, FS_AddElement
  <2> QED
    BY <1>2, <2>2, UsersAssumption
       DEF AcquireConn, AcquireBelow, ConnsCounted, TypeOK
<1>3. ASSUME NEW c \in Clients, CreateUser(c) \/ GetUserByEmail(c)
      PROVE  conns' \in 0..MaxConns /\ ConnsCounted'
  <2>1. \E reply, row : Reply(c, reply, row)
    BY <1>3 DEF CreateUser, GetUserByEmail
  <2>2. Connected' = Connected \cup {c} /\ c \in Connected
    BY <1>3, <2>1, ConnectedAfter
       DEF CreateUser, GetUserByEmail, Executing, Reply, Connected, At, TypeOK
  <2>3. conns' = conns /\ Connected' = Connected
    BY <1>3, <2>2 DEF CreateUser, GetUserByEmail
  <2> QED
    BY <2>3 DEF ConnsCounted, TypeOK
<1>4. ASSUME NEW c \in Clients,
             QueryFails(c) \/ Registered(c) \/ FailReplied(c) \/ LoggedIn(c)
      PROVE  conns' \in 0..MaxConns /\ ConnsCounted'
  <2>1. ~ At(c, "idle") /\ Return(c)
    BY <1>4 DEF QueryFails, Registered, FailReplied, LoggedIn, LoginFound,
                Replied, At
  <2> QED
    BY <2>1, ReturnCounted
<1>5. ASSUME UNCHANGED <<conns, call>>
      PROVE  conns' \in 0..MaxConns /\ ConnsCounted'
  BY <1>5 DEF ConnsCounted, Connected, At, TypeOK
<1>6. ASSUME Restart
      PROVE  conns' \in 0..MaxConns /\ ConnsCounted'
  <2>1. Connected' = {}
    BY <1>6 DEF Restart, Connected, At, NoCall
  <2> QED
    BY <1>6, <2>1, FS_EmptySet, UsersAssumption DEF Restart, ConnsCounted
<1> QED
  BY <1>1, <1>2, <1>3, <1>4, <1>5, <1>6
     DEF Next, Serve, RegisterUser, Login, Authenticate, SettleStray, Tick, vars

----------------------------------------------------------------------------
(* The table and what may still reach it: rows are only added, and only    *)
(* where the email is new.                                                 *)
LEMMA TableStep ==
  ASSUME Inv, [Next]_vars
  PROVE  /\ users \subseteq users' /\ users' \subseteq Account
         /\ stray' \subseteq Account
         /\ UniqueEmails'
<1> USE DEF Inv
<1>1. ASSUME UNCHANGED <<users, stray>>
      PROVE  /\ users \subseteq users' /\ users' \subseteq Account
             /\ stray' \subseteq Account /\ UniqueEmails'
  BY <1>1 DEF TypeOK, UniqueEmails
<1>2. ASSUME NEW u \in Account, Rows(u) = {}, users' = users \cup {u}
      PROVE  /\ users \subseteq users' /\ users' \subseteq Account
             /\ UniqueEmails'
  BY <1>2 DEF TypeOK, UniqueEmails, Rows
<1>3. ASSUME NEW clients \in SUBSET Clients, MayStray(clients)
      PROVE  stray' \subseteq Account
  <2>1. \A c \in clients : Executing(c, "register") => call[c].account \in Account
    BY DEF RepliesTrue, Executing, At
  <2> QED
    BY <1>3, <2>1 DEF MayStray, TypeOK
<1>4. ASSUME NEW c \in Clients, CreateUser(c)
      PROVE  /\ users \subseteq users' /\ users' \subseteq Account
             /\ stray' \subseteq Account /\ UniqueEmails'
  <2>1. call[c].account \in Account /\ stray' = stray
    BY <1>4 DEF CreateUser, Executing, At, RepliesTrue
  <2>2. CASE Rows(call[c].account) = {}
    BY <1>2, <1>4, <2>1, <2>2 DEF CreateUser, TypeOK
  <2>3. CASE Rows(call[c].account) # {}
    BY <1>1, <1>4, <2>1, <2>3 DEF CreateUser
  <2> QED
    BY <2>2, <2>3
<1>5. ASSUME NEW u \in stray, SettleStray(u)
      PROVE  /\ users \subseteq users' /\ users' \subseteq Account
             /\ stray' \subseteq Account /\ UniqueEmails'
  <2>1. u \in Account /\ stray' \subseteq Account
    BY <1>5 DEF SettleStray, TypeOK
  <2>2. users' = users \/ (Rows(u) = {} /\ users' = users \cup {u})
    BY <1>5 DEF SettleStray
  <2> QED
    BY <1>2, <2>1, <2>2 DEF TypeOK, UniqueEmails
<1>6. ASSUME NEW c \in Clients, QueryFails(c)
      PROVE  /\ users \subseteq users' /\ users' \subseteq Account
             /\ stray' \subseteq Account /\ UniqueEmails'
  BY <1>3, <1>6 DEF QueryFails, TypeOK, UniqueEmails
<1>7. ASSUME Restart
      PROVE  /\ users \subseteq users' /\ users' \subseteq Account
             /\ stray' \subseteq Account /\ UniqueEmails'
  BY <1>3, <1>7 DEF Restart, TypeOK, UniqueEmails
<1>8. CASE \E c \in Clients : QueryFails(c) \/ CreateUser(c)
  BY <1>4, <1>6, <1>8
<1>9. CASE \E u \in stray : SettleStray(u)
  BY <1>5, <1>9
<1>10. CASE \E c \in Clients :
         \/ \E account \in Account : RegisterUser(c, account) \/ Login(c, account)
         \/ AcquireConn(c) \/ GetUserByEmail(c) \/ Registered(c)
         \/ FailReplied(c) \/ LoggedIn(c) \/ Authenticate(c)
  <2>1. UNCHANGED <<users, stray>>
    BY <1>10 DEF RegisterUser, Login, Begin, AcquireConn, AcquireBelow,
                 GetUserByEmail, Registered, FailReplied, LoggedIn, LoginFound,
                 Authenticate
  <2> QED
    BY <1>1, <2>1
<1>11. CASE Tick \/ UNCHANGED vars
  BY <1>1, <1>11 DEF Tick, vars
<1> QED
  BY <1>7, <1>8, <1>9, <1>10, <1>11 DEF Next, Serve

(* A call without a reply knows only what it asks for.                     *)
LEMMA GoTrue ==
  ASSUME Inv, NEW c \in Clients, NEW new, Go(c, new),
         users \subseteq users',
         new \in Call,
         new.phase # "idle" =>
           new.kind \in {"register", "login"} /\ new.account \in Account,
         new.reply # None => new.phase = "replied",
         new.reply \in {"created", "unique_violation"} => new.kind = "register",
         new.reply \in {"no_rows", "found"} => new.kind = "login",
         new.reply = "created" => new.account \in users',
         new.reply = "found" => new.row \in users' /\ new.row.email = new.account.email
  PROVE  /\ RepliesTrue'
         /\ call' \in [Clients -> Call]
<1>1. TypeOK /\ RepliesTrue /\ call' = [call EXCEPT ![c] = new]
  BY DEF Inv, Go
<1>2. call'[c] = new /\ \A d \in Clients \ {c} : call'[d] = call[d]
  BY <1>1 DEF TypeOK
<1>3. RepliesTrue'
  BY <1>1, <1>2 DEF RepliesTrue, At
<1> QED
  BY <1>1, <1>3 DEF TypeOK

(* What calls know stays true.                                             *)
LEMMA RepliesStep ==
  ASSUME Inv, [Next]_vars
  PROVE  RepliesTrue' /\ call' \in [Clients -> Call]
<1>0. /\ users \subseteq users' /\ users \subseteq Account
      /\ TypeOK /\ RepliesTrue /\ None \notin Replies
  BY TableStep, UsersAssumption DEF Inv, TypeOK
<1>1. ASSUME NEW c \in Clients, Go(c, NoCall)
      PROVE  RepliesTrue' /\ call' \in [Clients -> Call]
  BY <1>0, <1>1, GoTrue DEF NoCall, Call, Replies
<1>2. ASSUME NEW c \in Clients, NEW kind \in {"register", "login"},
             NEW account \in Account, Begin(c, kind, account)
      PROVE  RepliesTrue' /\ call' \in [Clients -> Call]
  BY <1>0, <1>2, GoTrue DEF Begin, Call, Replies
<1>3. ASSUME NEW c \in Clients, AcquireConn(c)
      PROVE  RepliesTrue' /\ call' \in [Clients -> Call]
  <2> DEFINE new == [call[c] EXCEPT !.phase = "executing"]
  <2>1. /\ call[c] \in Call /\ At(c, "acquiring")
        /\ call[c].reply = None
        /\ call[c].kind \in {"register", "login"} /\ call[c].account \in Account
    BY <1>0, <1>3 DEF AcquireConn, AcquireBelow, TypeOK, RepliesTrue, At
  <2>2. /\ new \in Call /\ new.reply = None /\ new.phase = "executing"
        /\ new.kind \in {"register", "login"} /\ new.account \in Account
    BY <2>1 DEF Call
  <2>3. Go(c, new)
    BY <1>3 DEF AcquireConn, AcquireBelow
  <2> HIDE DEF new
  <2> QED
    BY <1>0, <2>2, <2>3, GoTrue DEF Replies
<1>4. ASSUME NEW c \in Clients, NEW reply \in Replies, NEW row \in Account \cup {None},
             Executing(c, IF reply \in {"created", "unique_violation"}
                          THEN "register" ELSE "login"),
             reply = "created" => call[c].account \in users',
             reply = "found" => row \in users' /\ row.email = call[c].account.email,
             Reply(c, reply, row)
      PROVE  RepliesTrue' /\ call' \in [Clients -> Call]
  <2>1. call[c].kind \in {"register", "login"} /\ call[c].account \in Account
    BY <1>0, <1>4 DEF Executing, RepliesTrue, At
  <2> QED
    BY <1>0, <1>4, <2>1, GoTrue DEF Reply, Executing, Call, Replies
<1>5. ASSUME NEW c \in Clients, CreateUser(c)
      PROVE  RepliesTrue' /\ call' \in [Clients -> Call]
  <2>1. CASE Rows(call[c].account) = {}
    BY <1>4, <1>5, <2>1 DEF CreateUser, Replies
  <2>2. CASE Rows(call[c].account) # {}
    BY <1>4, <1>5, <2>2 DEF CreateUser, Replies
  <2> QED
    BY <2>1, <2>2
<1>6. ASSUME NEW c \in Clients, GetUserByEmail(c)
      PROVE  RepliesTrue' /\ call' \in [Clients -> Call]
  <2>1. CASE Rows(call[c].account) = {}
    BY <1>4, <1>6, <2>1 DEF GetUserByEmail, Replies
  <2>2. CASE Rows(call[c].account) # {}
    <3>1. PICK u \in Rows(call[c].account) : Reply(c, "found", u)
      BY <1>6, <2>2 DEF GetUserByEmail
    <3>2. u \in users /\ u.email = call[c].account.email
      BY DEF Rows
    <3> QED
      BY <1>0, <1>4, <1>6, <3>1, <3>2 DEF GetUserByEmail, Replies
  <2> QED
    BY <2>1, <2>2
<1>7. ASSUME UNCHANGED call
      PROVE  RepliesTrue' /\ call' \in [Clients -> Call]
  BY <1>0, <1>7 DEF RepliesTrue, TypeOK, At
<1>8. ASSUME Restart
      PROVE  RepliesTrue' /\ call' \in [Clients -> Call]
  BY <1>0, <1>8 DEF Restart, RepliesTrue, At, NoCall, Call, Replies
<1>9. CASE \E c \in Clients :
        \E account \in Account : RegisterUser(c, account) \/ Login(c, account)
  BY <1>2, <1>9 DEF RegisterUser, Login
<1>10. CASE \E c \in Clients :
         QueryFails(c) \/ Registered(c) \/ FailReplied(c) \/ LoggedIn(c)
  BY <1>1, <1>10 DEF QueryFails, Registered, FailReplied, LoggedIn, LoginFound, Return
<1>11. CASE (\E c \in Clients : Authenticate(c)) \/ (\E u \in stray : SettleStray(u))
            \/ Tick \/ UNCHANGED vars
  BY <1>7, <1>11 DEF Authenticate, SettleStray, Tick, vars
<1> QED
  BY <1>3, <1>5, <1>6, <1>8, <1>9, <1>10, <1>11 DEF Next, Serve

(* An answer of 201 follows the reply that says it.                        *)
LEMMA AcknowledgedStep ==
  ASSUME Inv, [Next]_vars
  PROVE  AcknowledgedStored'
<1>1. users \subseteq users' /\ acknowledged \subseteq users /\ RepliesTrue
  BY TableStep DEF Inv, AcknowledgedStored
<1>2. ASSUME NEW c \in Clients, Registered(c)
      PROVE  acknowledged' \subseteq users'
  BY <1>1, <1>2 DEF Registered, Acknowledge, Replied, RepliesTrue
<1>3. CASE UNCHANGED acknowledged
  BY <1>1, <1>3 DEF AcknowledgedStored
<1>4. CASE \E c \in Clients : Registered(c)
  BY <1>2, <1>4 DEF AcknowledgedStored
<1>5. (\E c \in Clients : Registered(c)) \/ UNCHANGED acknowledged
  BY DEF Next, Serve, vars, RegisterUser, Login, Begin, AcquireConn, AcquireBelow,
         CreateUser, GetUserByEmail, QueryFails, FailReplied, LoggedIn, LoginFound,
         Authenticate, SettleStray, Restart, Tick
<1> QED
  BY <1>3, <1>4, <1>5

----------------------------------------------------------------------------
(* The token and the history that a login leaves.                          *)
LEMMA GrantTrue ==
  ASSUME Inv, users \subseteq users', NEW c \in Clients, LoggedIn(c),
         call[c].row.password = call[c].account.password
  PROVE  /\ TokensEarned'
         /\ earned' \in [Clients -> Earned \cup {None}]
         /\ token' \in [Clients ->
              [sub : Account, exp : 0..(Horizon + TokenLife), secret : Secrets]
                \cup {None}]
<1>1. /\ TypeOK /\ RepliesTrue /\ TokensEarned /\ Grant(c)
      /\ call[c].row \in users /\ call[c].account \in Account
      /\ call[c].row.email = call[c].account.email
  BY UsersAssumption
     DEF Inv, LoggedIn, LoginFound, Replied, RepliesTrue, At, Replies
<1>2. call[c].row = call[c].account
  BY <1>1 DEF TypeOK, Account
<1> DEFINE login == [account |-> call[c].account, time |-> now, secret |-> secret]
           given == [sub |-> call[c].row, exp |-> now + TokenLife, secret |-> secret]
<1>3. earned' = [earned EXCEPT ![c] = login] /\ token' = [token EXCEPT ![c] = given]
  BY <1>1 DEF Grant
<1>4. /\ login \in Earned /\ login.account \in users'
      /\ given = [sub |-> login.account, exp |-> login.time + TokenLife,
                  secret |-> login.secret]
      /\ given \in [sub : Account, exp : 0..(Horizon + TokenLife), secret : Secrets]
  BY <1>1, <1>2, UsersAssumption DEF TypeOK, Earned
<1> HIDE DEF login, given
<1> QED
  BY <1>1, <1>3, <1>4 DEF TypeOK, TokensEarned

(* Logins are recorded as they are; restarts and the clock change neither  *)
(* tokens nor histories.                                                   *)
LEMMA TokensStep ==
  ASSUME Inv, [Next]_vars
  PROVE  /\ TokensEarned'
         /\ earned' \in [Clients -> Earned \cup {None}]
         /\ token' \in [Clients ->
              [sub : Account, exp : 0..(Horizon + TokenLife), secret : Secrets]
                \cup {None}]
<1>1. users \subseteq users' /\ TokensEarned /\ TypeOK
  BY TableStep DEF Inv
<1>2. CASE UNCHANGED <<token, earned>>
  BY <1>1, <1>2 DEF TokensEarned, TypeOK
<1>3. ASSUME NEW c \in Clients, LoggedIn(c), ~ UNCHANGED <<token, earned>>
      PROVE  call[c].row.password = call[c].account.password
  BY <1>3 DEF LoggedIn, LoginFound, sessionVars
<1>4. (\E c \in Clients : LoggedIn(c)) \/ UNCHANGED <<token, earned>>
  BY DEF Next, Serve, vars, sessionVars, RegisterUser, Login, Begin, AcquireConn,
         AcquireBelow, CreateUser, GetUserByEmail, QueryFails, Registered,
         FailReplied, Authenticate, SettleStray, Restart, Tick
<1> QED
  BY <1>1, <1>2, <1>3, <1>4, GrantTrue

(* Who has just been admitted holds a valid token: any other step forgets  *)
(* whom the middleware let pass.                                           *)
LEMMA AdmittedStep ==
  ASSUME Inv, [Next]_vars
  PROVE  /\ AdmittedValid'
         /\ secret' \in Secrets /\ admitted' \in Clients \cup {None}
         /\ now' \in 0..Horizon /\ restarts' \in 0..MaxRestarts
<1>1. TypeOK /\ AdmittedValid
  BY DEF Inv
<1>2. ASSUME NEW c \in Clients, Authenticate(c)
      PROVE  /\ AdmittedValid'
             /\ secret' = secret /\ admitted' \in Clients
             /\ now' = now /\ restarts' = restarts
  BY <1>1, <1>2, UsersAssumption
     DEF Authenticate, AdmittedValid, Valid, sessionVars
<1>3. ASSUME UNCHANGED <<token, secret, now, restarts, admitted>>
      PROVE  /\ AdmittedValid' /\ secret' = secret /\ admitted' = admitted
             /\ now' = now /\ restarts' = restarts
  BY <1>1, <1>3 DEF AdmittedValid, Valid
<1>4. ASSUME NEW c \in Clients,
             \/ \E account \in Account : RegisterUser(c, account) \/ Login(c, account)
             \/ AcquireConn(c) \/ QueryFails(c) \/ Serve(c)
      PROVE  admitted' = None /\ UNCHANGED <<secret, now, restarts>>
  BY <1>4 DEF RegisterUser, Login, Begin, AcquireConn, AcquireBelow, CreateUser,
              GetUserByEmail, QueryFails, Registered, FailReplied, LoggedIn,
              LoginFound, Serve, Go, Reply, Return, Grant, sessionVars
<1>5. ASSUME NEW u \in stray, SettleStray(u)
      PROVE  admitted' = None /\ UNCHANGED <<secret, now, restarts>>
  BY <1>5 DEF SettleStray, sessionVars
<1>6. ASSUME Restart \/ Tick
      PROVE  /\ admitted' = None /\ secret' \in Secrets
             /\ now' \in 0..Horizon /\ restarts' \in 0..MaxRestarts
  BY <1>1, <1>6, UsersAssumption DEF Restart, Tick, TypeOK
<1> QED
  BY <1>1, <1>2, <1>3, <1>4, <1>5, <1>6
     DEF Next, vars, sessionVars, TypeOK, AdmittedValid

----------------------------------------------------------------------------
LEMMA InitInv == Init => Inv
<1> SUFFICES ASSUME Init PROVE Inv
  OBVIOUS
<1>1. Connected = {}
  BY DEF Init, Connected, At, NoCall
<1>2. ConnsCounted
  BY <1>1, FS_EmptySet DEF Init, ConnsCounted
<1>3. NoCall \in Call
  BY DEF NoCall, Call
<1>4. TypeOK
  BY <1>3, UsersAssumption DEF Init, TypeOK
<1>5. RepliesTrue
  BY UsersAssumption DEF Init, RepliesTrue, At, NoCall, Replies
<1>6. UniqueEmails /\ AcknowledgedStored /\ TokensEarned /\ AdmittedValid
  BY DEF Init, UniqueEmails, AcknowledgedStored, TokensEarned, AdmittedValid
<1> QED
  BY <1>2, <1>4, <1>5, <1>6 DEF Inv

LEMMA StepInv == Inv /\ [Next]_vars => Inv'
<1> SUFFICES ASSUME Inv, [Next]_vars PROVE Inv'
  OBVIOUS
<1>1. acknowledged' \subseteq Account
  BY TableStep, AcknowledgedStep DEF AcknowledgedStored
<1>2. TypeOK'
  BY <1>1, TableStep, RepliesStep, ConnsStep, TokensStep, AdmittedStep DEF TypeOK
<1> QED
  BY <1>2, TableStep, RepliesStep, ConnsStep, TokensStep, AdmittedStep,
     AcknowledgedStep DEF Inv

LEMMA Invariance == Spec => []Inv
BY InitInv, StepInv, PTL DEF Spec

(* The types, and with them the limit of the pool: no outcome of a call    *)
(* gives back a connection twice or takes more than MaxConns               *)
(* (connection.go:21).                                                     *)
THEOREM TypeCorrect == Spec => []TypeOK
<1>1. Inv => TypeOK
  BY DEF Inv
<1> QED
  BY <1>1, Invariance, PTL

(* A registration answered 201 is in the table and stays there             *)
(* (user_handler.go:88-101).                                               *)
THEOREM AcknowledgedIsStored == Spec => []AcknowledgedStored
<1>1. Inv => AcknowledgedStored
  BY DEF Inv
<1> QED
  BY <1>1, Invariance, PTL

(* Credentials whose registration was answered 201 are never answered 401  *)
(* (user_handler.go:142-152): the row a login finds is the one that was    *)
(* acknowledged, since there is one row for an email.                      *)
THEOREM RightPasswordIsAccepted == Spec => []RightPasswordAccepted
<1>1. Inv => RightPasswordAccepted
  <2> SUFFICES ASSUME Inv, NEW c \in Clients, call[c].reply = "found",
                      call[c].account \in acknowledged
               PROVE  call[c].row.password = call[c].account.password
    BY DEF RightPasswordAccepted
  <2> QED
    BY DEF Inv, RepliesTrue, AcknowledgedStored, UniqueEmails
<1> QED
  BY <1>1, Invariance, PTL

(* A token that passes was earned by a login less than TokenLife ago, under*)
(* the same SECRET, of an account that is still there                      *)
(* (auth_middleware.go:55-103).                                            *)
THEOREM AccessWasEarned == Spec => []AccessIsEarned
<1>1. Inv => AccessIsEarned
  <2> SUFFICES ASSUME Inv, admitted # None
               PROVE  LET login == earned[admitted] IN
                      /\ login # None
                      /\ now - login.time < TokenLife
                      /\ login.secret = secret
                      /\ login.account \in users
                      /\ login.account = token[admitted].sub
    BY DEF AccessIsEarned
  <2>1. /\ admitted \in Clients /\ token[admitted] # None /\ Valid(token[admitted])
        /\ now \in Int
    BY DEF Inv, AdmittedValid, TypeOK
  <2>2. /\ earned[admitted] \in Earned /\ earned[admitted].account \in users
        /\ token[admitted] = [sub |-> earned[admitted].account,
                              exp |-> earned[admitted].time + TokenLife,
                              secret |-> earned[admitted].secret]
    BY <2>1 DEF Inv, TokensEarned
  <2> QED
    BY <2>1, <2>2, UsersAssumption DEF Valid, Earned
<1> QED
  BY <1>1, Invariance, PTL
=============================================================================
