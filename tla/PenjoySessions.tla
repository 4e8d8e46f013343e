--------------------------- MODULE PenjoySessions ---------------------------
(***************************************************************************)
(* Accounts and HTTP sessions of the PowerEnjoy web application: the       *)
(* registration, login and logout servlets with the beans they call.       *)
(*                                                                         *)
(* A servlet container serves every request in a thread of its own.  One   *)
(* step of a request is what it does between two accesses to what requests *)
(* share: the user table (one database transaction is one step) and the    *)
(* attributes of the HTTP session its cookie names.                        *)
(*                                                                         *)
(* Passwords are not modelled: a registration draws a random one and mails *)
(* it, so who logs in knows the row whose password he was sent.            *)
(***************************************************************************)
EXTENDS Naturals, Sequences, FiniteSets

CONSTANTS
  Names,      \* user names people ask for
  Requests,   \* requests that can be in progress at one time
  Sessions,   \* session ids the container gives out, each once
  Ids,        \* bound: ids of rows of the user table
  NoName, NoSession,
  NoId        \* the -1 of getUserId, and an attribute that is not there

ASSUME SessionsAssumption ==
  /\ NoName \notin Names /\ NoSession \notin Sessions /\ NoId \notin Ids
  /\ IsFiniteSet(Ids)
  /\ IsFiniteSet(Requests)   \* the container has so many threads

VARIABLES
  users,      \* the user table: users[i] is the committed row with id i
  mailed,     \* ids whose password has reached its owner
  open,       \* sessions that exist
  closed,     \* sessions that have been invalidated, timed out or lost
  session,    \* session[s]: the attributes of s
  visitors,   \* history: visitors[s] is the set of names that have logged in to s
  req         \* req[r]: where request r is, and its local variables

accounts == <<users, mailed>>
sessions == <<open, closed, session, visitors>>
sessionVars == <<accounts, sessions, req>>

NoAttributes == [authentication |-> FALSE, username |-> NoName, id |-> NoId]
NoRequest == [at |-> "idle", session |-> NoSession, username |-> NoName, id |-> NoId]

LoginSteps == {"login", "authenticate", "username", "id"}

SessionsInit ==
  /\ users = <<>> /\ mailed = {}
  /\ open = {} /\ closed = {}
  /\ session = [s \in Sessions |-> NoAttributes]
  /\ visitors = [s \in Sessions |-> {}]
  /\ req = [r \in Requests |-> NoRequest]

Idle(r) == req[r].at = "idle"
Go(r, step) == req' = [req EXCEPT ![r].at = step]
Done(r) == req' = [req EXCEPT ![r] = NoRequest]

\* request.getSession(true) with cookie c: s is the session c names, or a new
\* one if it names none that still exists.
GetSession(c, s) ==
  /\ IF c \in open THEN s = c ELSE s \in Sessions \ (open \cup closed)
  /\ open' = open \cup {s}

\* User.findByUsername
Rows(n) == {i \in DOMAIN users : users[i].username = n}

GetUserId_FindAll(n) ==   \* mutant: the query is User.findAll
  IF DOMAIN users = {} THEN {NoId} ELSE DOMAIN users
\* The ids LogInBean.getUserId may return: that of the first row of the result,
\* which the query does not order, or -1 without one.
GetUserId(n) == IF Rows(n) = {} THEN {NoId} ELSE Rows(n)

-----------------------------------------------------------------------------
\* Registration.

\* Rows there are or may yet be: the bound keeps a registration from waiting.
Registering ==
  Cardinality(DOMAIN users) + Cardinality({r \in Requests : req[r].at = "persist"})

Register_NoCheck(r, c, s, n) ==   \* mutant: validateFields does not ask isUserNameFree
  /\ Idle(r)
  /\ Registering < Cardinality(Ids)
  /\ GetSession(c, s)
  /\ req' = [req EXCEPT ![r] = [NoRequest EXCEPT !.at = "persist", !.username = n]]
  /\ UNCHANGED <<accounts, closed, session, visitors>>

\* doPost and validateFields: a name that is in use, or a form that is not
\* valid otherwise, brings the form back.
Register(r, c, s, n) ==
  /\ Idle(r)
  /\ Registering < Cardinality(Ids)
  /\ GetSession(c, s)
  /\ \/ /\ Rows(n) = {}
        /\ req' = [req EXCEPT ![r] = [NoRequest EXCEPT !.at = "persist", !.username = n]]
     \/ UNCHANGED req
  /\ UNCHANGED <<accounts, closed, session, visitors>>

\* RegistrationBean.registerUser; validateUser asks for lengths validateFields
\* has asked for.  persist draws the id i and commit shows the row: others may
\* commit in between, so any id that is not in the table may be the next in it.
RegisterUser(r, i) ==
  /\ req[r].at = "persist"
  /\ \/ /\ users' = [j \in DOMAIN users \cup {i} |->
                      IF j = i THEN [username |-> req[r].username, loggedin |-> FALSE] ELSE users[j]]
        /\ req' = [req EXCEPT ![r].at = "mail", ![r].id = i]
     \/ Done(r) /\ UNCHANGED users   \* the commit fails
  /\ UNCHANGED <<mailed, sessions>>

\* sendRegistrationEmail: a failure is printed, and the user told of success.
SendEmail(r) ==
  /\ req[r].at = "mail"
  /\ mailed' = mailed \cup {req[r].id} \/ UNCHANGED mailed
  /\ Done(r)
  /\ UNCHANGED <<users, sessions>>

-----------------------------------------------------------------------------
\* Login.

\* sessionCheck and checkLogin, for who has been mailed the password of row i.
\* Another login with the same cookie may be on its way.
CheckLogin(r, c, i) ==
  /\ Idle(r)
  /\ c \in open => ~ session[c].authentication
  /\ req' = [req EXCEPT ![r] = [NoRequest EXCEPT !.at = "login", !.session = c,
                                                !.username = users[i].username]]
  /\ UNCHANGED <<accounts, sessions>>

\* getUserId and LogIn.  Rows stay, so what getUserId has returned it could as
\* well return now.
LogIn(r, i) ==
  /\ req[r].at = "login"
  /\ i \in GetUserId(req[r].username)
  /\ \/ /\ i \in DOMAIN users
        /\ users' = [users EXCEPT ![i].loggedin = TRUE]
        /\ \/ req' = [req EXCEPT ![r].at = "authenticate", ![r].id = i]
           \/ Done(r)                    \* request.login throws
     \/ Done(r) /\ UNCHANGED users   \* the commit fails
  /\ UNCHANGED <<mailed, sessions>>

\* createSession sets three attributes, one after the other; when the session
\* is gone in between, setAttribute throws.
Authenticate(r, s) ==
  /\ req[r].at = "authenticate"
  /\ GetSession(req[r].session, s)
  /\ session' = [session EXCEPT ![s].authentication = TRUE]
  /\ visitors' = [visitors EXCEPT ![s] = @ \cup {req[r].username}]
  /\ req' = [req EXCEPT ![r].at = "username", ![r].session = s]
  /\ UNCHANGED <<accounts, closed>>

SetUsername(r) ==
  /\ req[r].at = "username"
  /\ IF req[r].session \in open
     THEN /\ session' = [session EXCEPT ![req[r].session].username = req[r].username]
          /\ Go(r, "id")
     ELSE Done(r) /\ UNCHANGED session
  /\ UNCHANGED <<accounts, open, closed, visitors>>

SetId(r) ==
  /\ req[r].at = "id"
  /\ IF req[r].session \in open
     THEN session' = [session EXCEPT ![req[r].session].id = req[r].id]
     ELSE UNCHANGED session
  /\ Done(r)
  /\ UNCHANGED <<accounts, open, closed, visitors>>

-----------------------------------------------------------------------------
\* Logout, and the end of sessions.

Close(ss) ==
  /\ open' = open \ ss
  /\ closed' = closed \cup ss
  /\ session' = [s \in Sessions |-> IF s \in ss THEN NoAttributes ELSE session[s]]
  /\ visitors' = [s \in Sessions |-> IF s \in ss THEN {} ELSE visitors[s]]

\* processLogout up to getUserId, which returns i.  Without a username attribute
\* it throws, and leaves a session behind that getSession has created.
Logout(r, c, s, i) ==
  /\ Idle(r)
  /\ GetSession(c, s)
  /\ IF session[s].username # NoName
     THEN /\ i \in GetUserId(session[s].username)
          /\ req' = [req EXCEPT ![r] = [at |-> "logout", session |-> s,
                                        username |-> session[s].username, id |-> i]]
     ELSE i = NoId /\ UNCHANGED req
  /\ UNCHANGED <<accounts, closed, session, visitors>>

\* LogInBean.LogOut
LogOut(r) ==
  /\ req[r].at = "logout"
  /\ \/ /\ req[r].id \in DOMAIN users
        /\ users' = [users EXCEPT ![req[r].id].loggedin = FALSE]
        /\ Go(r, "invalidate")
     \/ Done(r) /\ UNCHANGED users   \* no such row, or the commit fails
  /\ UNCHANGED <<mailed, sessions>>

\* session.invalidate, which throws if another request or a timeout was first
Invalidate(r) ==
  /\ req[r].at = "invalidate"
  /\ IF req[r].session \in open THEN Close({req[r].session}) ELSE UNCHANGED sessions
  /\ Done(r)
  /\ UNCHANGED accounts

\* The container's session timeout, which tells no servlet.
Expire(s) ==
  /\ s \in open
  /\ Close({s})
  /\ UNCHANGED <<accounts, req>>

-----------------------------------------------------------------------------
Cookies == open \cup {NoSession}

SessionStep(r) ==
  \/ \E c \in Cookies, s \in Sessions, n \in Names : Register(r, c, s, n)
  \/ \E i \in Ids \ DOMAIN users : RegisterUser(r, i)
  \/ SendEmail(r)
  \/ \E c \in Cookies, i \in mailed : CheckLogin(r, c, i)
  \/ \E i \in Ids \cup {NoId} : LogIn(r, i)
  \/ \E s \in Sessions : Authenticate(r, s)
  \/ SetUsername(r)
  \/ SetId(r)
  \/ \E c \in Cookies, s \in Sessions, i \in Ids \cup {NoId} : Logout(r, c, s, i)
  \/ LogOut(r)
  \/ Invalidate(r)

SessionsNext == (\E r \in Requests : SessionStep(r)) \/ (\E s \in Sessions : Expire(s))

-----------------------------------------------------------------------------
LoggingIn(s) == \E r \in Requests : req[r].at \in LoginSteps /\ req[r].session = s

\* When no login is on its way in it, a session somebody has logged in to has a
\* name and an id, and both are of accounts that have logged in to it: if all
\* logins were of one name, of that name, although three attributes are set in
\* three steps, others register the name meanwhile and sessions end.  (If two
\* logins of different names ran at once, the name may be of one and the id of
\* the other.)
SessionNamesItsUser ==
  \A s \in open : session[s].authentication /\ ~ LoggingIn(s) =>
    /\ session[s].username \in visitors[s]
    /\ \E n \in visitors[s] : session[s].id \in Rows(n)

-----------------------------------------------------------------------------
\* What holds in between, and makes SessionNamesItsUser inductive.

\* A request in progress knows the account it is about.
KnowsAccount(r) ==
  /\ req[r].at = "persist" => req[r].username # NoName
  /\ req[r].at = "mail" => req[r].id \in DOMAIN users
  /\ req[r].at = "login" => req[r].username # NoName
  /\ req[r].at \in {"authenticate", "username", "id"} => req[r].id \in Rows(req[r].username)
  /\ req[r].session \in open \cup closed \cup {NoSession}

\* How far a login is shows in the session it has.
LoginProgress(r) ==
  req[r].session \in open =>
    /\ req[r].at \in {"username", "id"} =>
         session[req[r].session].authentication /\ req[r].username \in visitors[req[r].session]
    /\ req[r].at = "id" => session[req[r].session].username # NoName

RequestsInOrder == \A r \in Requests : KnowsAccount(r) /\ LoginProgress(r)

Setting(s, steps) == \E r \in Requests : req[r].session = s /\ req[r].at \in steps

\* Attributes are of accounts that have logged in, and one that is missing is
\* still to be set.
AttributesInOrder ==
  \A s \in Sessions :
    /\ s \notin open => session[s] = NoAttributes /\ visitors[s] = {}
    /\ ~ session[s].authentication => session[s] = NoAttributes
    /\ session[s].authentication =>
         /\ IF session[s].username = NoName THEN Setting(s, {"username"})
            ELSE session[s].username \in visitors[s]
         /\ IF session[s].id = NoId THEN Setting(s, {"username", "id"})
            ELSE \E n \in visitors[s] : session[s].id \in Rows(n)

\* Registrations that have found name n free and will add a row with it.
Asking(n) == {r \in Requests : req[r].at = "persist" /\ req[r].username = n}

NameClaims(n) == Cardinality(Rows(n)) + Cardinality(Asking(n))

\* Once a name is in the table nobody new gets past isUserNameFree: only
\* registrations that asked before can still add a row with that name.
NoNewNameClaims ==
  [][\A n \in Names : Rows(n) # {} => NameClaims(n)' <= NameClaims(n)]_sessionVars

\* No two rows have the same name.
UserNamesUnique == \A i, j \in DOMAIN users : users[i].username = users[j].username => i = j
=============================================================================
