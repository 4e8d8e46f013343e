--------------------- MODULE PenjoyReservations_proofs ---------------------
(***************************************************************************)
(* For any number of requests, sessions, names and cars: a session carries *)
(* the names and ids of who has logged in to it, a booked car is marked,   *)
(* and a marked car gets booked unless the server crashes or a commit      *)
(* fails.                                                                  *)
(***************************************************************************)
EXTENDS PenjoyReservations, FiniteSetTheorems, TLAPS

Account == [username : Names, loggedin : BOOLEAN]

\* Elements of a sequence.
LEMMA SeqElement ==
  ASSUME NEW S, NEW s \in Seq(S)
  PROVE  /\ Len(s) \in Nat /\ DOMAIN s = 1 .. Len(s)
         /\ \A i \in DOMAIN s : s[i] \in S
OBVIOUS

\* The user table is one.
IsTable == DOMAIN users \subseteq Ids /\ users \in [DOMAIN users -> Account]

\* What every step does to the user table: rows stay, and keep their names.
AccountsStay ==
  /\ IsTable'
  /\ DOMAIN users \subseteq DOMAIN users'
  /\ \A n : Rows(n) \subseteq Rows(n)'

\* getUserId returns rows of the name.
LEMMA IdOfName ==
  ASSUME NEW n, NEW i \in GetUserId(n)
  PROVE  i \in Rows(n) \/ i = NoId
BY DEF GetUserId

LEMMA SameRows ==
  ASSUME IsTable', DOMAIN users \subseteq DOMAIN users',
         \A i \in DOMAIN users : users'[i].username = users[i].username
  PROVE  AccountsStay
BY DEF AccountsStay, Rows

LEMMA UnchangedStay ==
  ASSUME IsTable, UNCHANGED users
  PROVE  AccountsStay
BY SameRows DEF IsTable

LEMMA FlagStay ==
  ASSUME IsTable, NEW i, NEW b \in BOOLEAN,
         users' = [users EXCEPT ![i].loggedin = b]
  PROVE  AccountsStay /\ DOMAIN users' = DOMAIN users
<1>1. DOMAIN users' = DOMAIN users
  BY DEF IsTable
<1>2. ASSUME NEW j \in DOMAIN users
      PROVE  users'[j] \in Account /\ users'[j].username = users[j].username
  <2>1. users[j] \in Account
    BY DEF IsTable
  <2>2. users'[j] = users[j] \/ users'[j] = [users[j] EXCEPT !.loggedin = b]
    BY DEF IsTable
  <2> QED
    BY <2>1, <2>2 DEF Account
<1>3. users' \in [DOMAIN users' -> Account]
  <2>1. users' = [j \in DOMAIN users' |-> users'[j]]
    BY <1>1 DEF IsTable
  <2> QED
    BY <1>1, <1>2, <2>1
<1>4. IsTable'
  BY <1>1, <1>3 DEF IsTable
<1> QED
  BY <1>1, <1>2, <1>4, SameRows

LEMMA CommitStay ==
  ASSUME IsTable, NEW m \in Names, NEW i \in Ids \ DOMAIN users,
         users' = [j \in DOMAIN users \cup {i} |->
                     IF j = i THEN [username |-> m, loggedin |-> FALSE] ELSE users[j]]
  PROVE  AccountsStay /\ i \in DOMAIN users'
<1>1. DOMAIN users' = DOMAIN users \cup {i}
  OBVIOUS
<1>2. \A j \in DOMAIN users : users'[j] = users[j] /\ users'[j] \in Account
  BY DEF IsTable
<1>3. users'[i] \in Account
  BY DEF Account
<1>4. IsTable'
  <2>1. users' \in [DOMAIN users' -> Account]
    BY <1>1, <1>2, <1>3
  <2> QED
    BY <1>1, <2>1 DEF IsTable
<1> QED
  BY <1>1, <1>2, <1>4, SameRows

-----------------------------------------------------------------------------
RequestType == [at : Steps, session : Sessions \cup {NoSession},
                username : Names \cup {NoName}, id : Ids \cup {NoId}]

AttributesType == [authentication : BOOLEAN, username : Names \cup {NoName}, id : Ids \cup {NoId}]

\* What the invariant says of the attributes of session s.
Attributes(s) ==
  /\ s \notin open => session[s] = NoAttributes /\ visitors[s] = {}
  /\ ~ session[s].authentication => session[s] = NoAttributes
  /\ session[s].authentication =>
       /\ IF session[s].username = NoName THEN Setting(s, {"username"})
          ELSE session[s].username \in visitors[s]
       /\ IF session[s].id = NoId THEN Setting(s, {"username", "id"})
          ELSE \E n \in visitors[s] : session[s].id \in Rows(n)

LEMMA AttributesOf ==
  /\ AttributesInOrder <=> \A s \in Sessions : Attributes(s)
  /\ AttributesInOrder' <=> \A s \in Sessions : Attributes(s)'
BY DEF AttributesInOrder, Attributes

\* A session no step touches stays in order, if who is to set its attributes
\* goes on.
LEMMA AttributesStay ==
  ASSUME NEW s, Attributes(s), AccountsStay, session'[s] = session[s],
         visitors[s] \subseteq visitors'[s], s \notin open => visitors'[s] = {},
         s \in open => s \in open',
         \A q \in Requests : req[q].session = s /\ req[q].at \in {"username", "id"} /\ s \in open
                              => req'[q] = req[q]
  PROVE  Attributes(s)'
<1>1. CASE session[s].authentication
  <2>1. s \in open
    BY <1>1 DEF Attributes, NoAttributes
  <2>2. \A steps \in SUBSET {"username", "id"} : Setting(s, steps) => Setting(s, steps)'
    BY <2>1 DEF Setting
  <2>3. {"username"} \in SUBSET {"username", "id"} /\ {"username", "id"} \in SUBSET {"username", "id"}
    OBVIOUS
  <2>4. IF session[s].username = NoName THEN Setting(s, {"username"})'
        ELSE session[s].username \in visitors'[s]
    BY <1>1, <2>2, <2>3 DEF Attributes
  <2>5. IF session[s].id = NoId THEN Setting(s, {"username", "id"})'
        ELSE \E n \in visitors'[s] : session[s].id \in Rows(n)'
    BY <1>1, <2>2, <2>3 DEF Attributes, AccountsStay
  <2> QED
    BY <1>1, <2>1, <2>4, <2>5 DEF Attributes
<1>2. CASE ~ session[s].authentication
  BY <1>2 DEF Attributes
<1> QED
  BY <1>1, <1>2

\* A step of request r that leaves attributes alone, and may open sessions.
LEMMA StepKeepsSessions ==
  ASSUME PenjoyInv, AccountsStay, UNCHANGED <<session, closed, visitors>>,
         NEW ss \in SUBSET (Sessions \ closed), open' = open \cup ss,
         NEW r \in Requests, req[r].at \in {"username", "id"} => req[r].session \notin open,
         req' \in [Requests -> RequestType],
         \A q \in Requests \ {r} : req'[q] = req[q],
         KnowsAccount(r)', LoginProgress(r)'
  PROVE  RequestsInOrder' /\ AttributesInOrder'
<1> USE DEF PenjoyInv
<1>1. \A q \in Requests \ {r} : KnowsAccount(q)'
  BY DEF RequestsInOrder, KnowsAccount, AccountsStay
<1>2. ASSUME NEW q \in Requests \ {r}
      PROVE  LoginProgress(q)'
  <2>1. req[q].session \in open \cup closed \cup {NoSession}
    BY DEF RequestsInOrder, KnowsAccount
  <2>2. req[q].session \in open' => req[q].session \in open
    BY <2>1, SessionsAssumption DEF PenjoyTypeOK
  <2> QED
    BY <2>2 DEF RequestsInOrder, LoginProgress
<1>3. ASSUME NEW s \in Sessions
      PROVE  Attributes(s)'
  <2>1. Attributes(s)
    BY AttributesOf
  <2>2. s \notin open => visitors[s] = {}
    BY <2>1 DEF Attributes
  <2>3. \A q \in Requests : req[q].session = s /\ req[q].at \in {"username", "id"} /\ s \in open
                             => req'[q] = req[q]
    OBVIOUS
  <2> QED
    BY <2>1, <2>2, <2>3, AttributesStay
<1> QED
  BY <1>1, <1>2, <1>3, AttributesOf DEF RequestsInOrder

\* A step of an account request leaves the fleet and what is said of it alone.
LEMMA StepKeepsFleet ==
  ASSUME PenjoyInv, AccountsStay, UNCHANGED fleet,
         \A q \in Requests : \/ req'[q] = req[q]
                             \/ req[q].at \notin ReserveSteps /\ req'[q].at \notin ReserveSteps
  PROVE  /\ ReservationsInProgress' /\ BookedCarsAreReserved'
         /\ MarkedCarsGetBooked' /\ ReservationsHaveUsers'
<1> USE DEF PenjoyInv, fleet
<1>1. ReservationsInProgress'
  BY DEF ReservationsInProgress, AccountsStay, ReserveSteps
<1>2. BookedCarsAreReserved' /\ ReservationsHaveUsers'
  BY DEF BookedCarsAreReserved, Booked, ReservationsHaveUsers, AccountsStay
<1>3. MarkedCarsGetBooked'
  BY DEF MarkedCarsGetBooked, Booked, Booking, ReserveSteps
<1> QED
  BY <1>1, <1>2, <1>3
-----------------------------------------------------------------------------
\* The steps of account requests.

LEMMA AccountStep ==
  ASSUME PenjoyInv, AccountsStay, mailed' \subseteq DOMAIN users',
         UNCHANGED <<session, closed, visitors, fleet>>,
         NEW ss \in SUBSET (Sessions \ closed), open' = open \cup ss,
         NEW r \in Requests, req[r].at \in {"username", "id"} => req[r].session \notin open,
         req[r].at \notin ReserveSteps, req'[r].at \notin ReserveSteps,
         req' \in [Requests -> RequestType],
         \A q \in Requests \ {r} : req'[q] = req[q],
         KnowsAccount(r)', LoginProgress(r)'
  PROVE  PenjoyInv'
<1>1. RequestsInOrder' /\ AttributesInOrder'
  BY StepKeepsSessions
<1>2. /\ ReservationsInProgress' /\ BookedCarsAreReserved'
      /\ MarkedCarsGetBooked' /\ ReservationsHaveUsers'
  <2>1. \A q \in Requests : \/ req'[q] = req[q]
                            \/ req[q].at \notin ReserveSteps /\ req'[q].at \notin ReserveSteps
    OBVIOUS
  <2> QED
    BY <2>1, StepKeepsFleet
<1>3. PenjoyTypeOK'
  <2>1. PenjoyTypeOK
    BY DEF PenjoyInv
  <2> QED
    BY <2>1 DEF PenjoyTypeOK, AccountsStay, IsTable, Account, RequestType, fleet
<1> QED
  BY <1>1, <1>2, <1>3 DEF PenjoyInv

\* What the step lemmas use of the invariant.
LEMMA Typed ==
  ASSUME PenjoyInv
  PROVE  /\ IsTable /\ mailed \subseteq DOMAIN users
         /\ DOMAIN users \subseteq Ids /\ \A i \in DOMAIN users : users[i] \in Account
         /\ req \in [Requests -> RequestType]
         /\ open \subseteq Sessions /\ open \cap closed = {}
         /\ session \in [Sessions -> AttributesType] /\ visitors \in [Sessions -> SUBSET Names]
         /\ \A s \in Sessions : /\ session[s].username \in Names \cup {NoName}
                                /\ session[s].id \in Ids \cup {NoId}
<1>1. IsTable
  BY DEF PenjoyInv, PenjoyTypeOK, IsTable, Account
<1>2. DOMAIN users \subseteq Ids /\ \A i \in DOMAIN users : users[i] \in Account
  BY <1>1 DEF IsTable
<1>3. session \in [Sessions -> AttributesType]
  BY DEF PenjoyInv, PenjoyTypeOK, AttributesType
<1>4. \A s \in Sessions : session[s].username \in Names \cup {NoName} /\ session[s].id \in Ids \cup {NoId}
  BY <1>3 DEF AttributesType
<1> QED
  BY <1>1, <1>2, <1>3, <1>4 DEF PenjoyInv, PenjoyTypeOK, RequestType

LEMMA Opens ==
  ASSUME PenjoyInv, NEW c \in Sessions \cup {NoSession}, NEW s, GetSession(c, s)
  PROVE  /\ s \in Sessions /\ s \notin closed
         /\ {s} \in SUBSET (Sessions \ closed) /\ open' = open \cup {s}
BY DEF PenjoyInv, PenjoyTypeOK, GetSession

LEMMA NoRequestTyped == NoRequest \in RequestType
BY DEF NoRequest, RequestType, Steps

LEMMA RegisterStep ==
  ASSUME PenjoyInv, NEW r \in Requests, NEW c \in Cookies, NEW s \in Sessions, NEW n \in Names,
         Register(r, c, s, n), UNCHANGED fleet
  PROVE  PenjoyInv'
<1>1. AccountsStay
  BY Typed, UnchangedStay DEF Register, accounts
<1>2. {s} \in SUBSET (Sessions \ closed) /\ open' = open \cup {s}
  BY Typed, Opens DEF Register, Cookies
<1>3. req[r].at = "idle"
  BY DEF Register, Idle
<1>4. CASE req' = [req EXCEPT ![r] = [NoRequest EXCEPT !.at = "persist", !.username = n]]
  <2>1. req' = [req EXCEPT ![r] = [NoRequest EXCEPT !.at = "persist", !.username = n]]
    BY <1>4
  <2>2. [NoRequest EXCEPT !.at = "persist", !.username = n] \in RequestType
    BY DEF NoRequest, RequestType, Steps
  <2>3. /\ req' \in [Requests -> RequestType]
        /\ \A q \in Requests \ {r} : req'[q] = req[q]
        /\ req'[r].at = "persist" /\ req'[r].username = n /\ req'[r].session = NoSession
    BY <2>1, <2>2, Typed DEF NoRequest
  <2>4. KnowsAccount(r)' /\ LoginProgress(r)'
    BY <2>3, <1>2, SessionsAssumption DEF KnowsAccount, LoginProgress, LoginSteps, PenjoyInv, PenjoyTypeOK
  <2> QED
    BY <1>1, <1>2, <1>3, <2>3, <2>4, Typed, AccountStep DEF Register, accounts, ReserveSteps, LoginSteps
<1>5. CASE UNCHANGED req
  <2>1. req' = req
    BY <1>5
  <2>2. KnowsAccount(r)' /\ LoginProgress(r)'
    BY <2>1, <1>2, <1>3 DEF KnowsAccount, LoginProgress, LoginSteps, PenjoyInv, RequestsInOrder, Register
  <2> QED
    BY <1>1, <1>2, <1>3, <2>1, <2>2, Typed, AccountStep DEF Register, accounts, ReserveSteps, LoginSteps
<1> QED
  BY <1>4, <1>5 DEF Register

\* A request that is done has nothing more to be in order.
LEMMA DoneStep ==
  ASSUME PenjoyInv, NEW r \in Requests, Done(r)
  PROVE  /\ req' \in [Requests -> RequestType]
         /\ \A q \in Requests \ {r} : req'[q] = req[q]
         /\ req'[r].at = "idle" /\ req'[r].session = NoSession
         /\ KnowsAccount(r)' /\ LoginProgress(r)'
<1>1. /\ req' \in [Requests -> RequestType]
      /\ \A q \in Requests \ {r} : req'[q] = req[q]
      /\ req'[r] = NoRequest
  BY Typed, NoRequestTyped DEF Done
<1> QED
  BY <1>1 DEF NoRequest, KnowsAccount, LoginProgress

\* A request that ends while it sets no attributes.
LEMMA EndsStep ==
  ASSUME PenjoyInv, NEW r \in Requests, Done(r), AccountsStay, UNCHANGED <<mailed, sessions, fleet>>,
         req[r].at \notin ReserveSteps,
         req[r].at \in {"username", "id"} => req[r].session \notin open
  PROVE  PenjoyInv'
<1>1. {} \in SUBSET (Sessions \ closed) /\ open' = open \cup {}
  BY DEF sessions
<1>2. mailed' \subseteq DOMAIN users'
  BY Typed DEF AccountsStay
<1> QED
  BY <1>1, <1>2, DoneStep, AccountStep DEF sessions, ReserveSteps

LEMMA RegisterUserStep ==
  ASSUME PenjoyInv, NEW r \in Requests, NEW i \in Ids \ DOMAIN users, RegisterUser(r, i), UNCHANGED fleet
  PROVE  PenjoyInv'
<1>1. req[r].at = "persist" /\ req[r].username \in Names
  BY Typed DEF RegisterUser, PenjoyInv, RequestsInOrder, KnowsAccount, RequestType
<1>2. {} \in SUBSET (Sessions \ closed) /\ open' = open \cup {}
  BY DEF RegisterUser, sessions
<1>3. CASE /\ users' = [j \in DOMAIN users \cup {i} |->
                         IF j = i THEN [username |-> req[r].username, loggedin |-> FALSE] ELSE users[j]]
           /\ req' = [req EXCEPT ![r].at = "mail", ![r].id = i]
  <2>1. AccountsStay /\ i \in DOMAIN users'
    BY <1>1, <1>3, Typed, CommitStay
  <2>2. [req[r] EXCEPT !.at = "mail", !.id = i] \in RequestType
    <3>1. req[r] \in RequestType /\ i \in Ids \cup {NoId} /\ "mail" \in Steps
      BY Typed DEF Steps
    <3> QED
      BY <3>1 DEF RequestType
  <2>3. /\ req' \in [Requests -> RequestType]
        /\ \A q \in Requests \ {r} : req'[q] = req[q]
        /\ req'[r].at = "mail" /\ req'[r].id = i /\ req'[r].session = req[r].session
    BY <1>3, <2>2, Typed DEF RequestType
  <2>4. KnowsAccount(r)' /\ LoginProgress(r)'
    BY <2>1, <2>3 DEF KnowsAccount, LoginProgress, PenjoyInv, RequestsInOrder, RegisterUser, sessions
  <2>5. mailed' \subseteq DOMAIN users'
    BY <2>1, Typed DEF AccountsStay, RegisterUser
  <2> QED
    BY <1>1, <1>2, <2>1, <2>3, <2>4, <2>5, AccountStep DEF RegisterUser, sessions, ReserveSteps
<1>4. CASE Done(r) /\ UNCHANGED users
  BY <1>1, <1>4, Typed, UnchangedStay, EndsStep DEF RegisterUser, ReserveSteps
<1> QED
  BY <1>3, <1>4 DEF RegisterUser

LEMMA SendEmailStep ==
  ASSUME PenjoyInv, NEW r \in Requests, SendEmail(r), UNCHANGED fleet
  PROVE  PenjoyInv'
<1>1. AccountsStay
  BY Typed, UnchangedStay DEF SendEmail
<1>2. {} \in SUBSET (Sessions \ closed) /\ open' = open \cup {}
  BY DEF SendEmail, sessions
<1>3. mailed' \subseteq DOMAIN users'
  BY Typed DEF SendEmail, PenjoyInv, RequestsInOrder, KnowsAccount
<1> QED
  BY <1>1, <1>2, <1>3, DoneStep, AccountStep DEF SendEmail, sessions, ReserveSteps

LEMMA CheckLoginStep ==
  ASSUME PenjoyInv, NEW r \in Requests, NEW c \in Cookies, NEW i \in mailed,
         CheckLogin(r, c, i), UNCHANGED fleet
  PROVE  PenjoyInv'
<1> DEFINE n == users[i].username
           login == [NoRequest EXCEPT !.at = "login", !.session = c, !.username = n]
<1>1. AccountsStay
  BY Typed, UnchangedStay DEF CheckLogin, accounts
<1>2. {} \in SUBSET (Sessions \ closed) /\ open' = open \cup {}
  BY DEF CheckLogin, sessions
<1>3. n \in Names
  BY Typed DEF Account
<1>4. req' = [req EXCEPT ![r] = login]
  BY DEF CheckLogin
<1>5. /\ login \in RequestType
      /\ login.at = "login" /\ login.session = c /\ login.username = n
  BY <1>3, Typed DEF NoRequest, RequestType, Steps, LoginSteps, Cookies
<1> HIDE DEF n, login
<1>6. /\ req' \in [Requests -> RequestType]
      /\ \A q \in Requests \ {r} : req'[q] = req[q]
      /\ req'[r].at = "login" /\ req'[r].session = c /\ req'[r].username = n
  BY <1>4, <1>5, Typed
<1>7. KnowsAccount(r)' /\ LoginProgress(r)'
  BY <1>3, <1>6, SessionsAssumption DEF KnowsAccount, LoginProgress, CheckLogin, sessions, Cookies
<1> QED
  BY <1>1, <1>2, <1>6, <1>7, Typed, AccountStep
     DEF CheckLogin, Idle, accounts, sessions, ReserveSteps

\* Go moves r on and changes nothing else about it.
LEMMA GoStep ==
  ASSUME PenjoyInv, NEW r \in Requests, NEW step \in Steps, Go(r, step)
  PROVE  /\ req' \in [Requests -> RequestType]
         /\ \A q \in Requests \ {r} : req'[q] = req[q]
         /\ req'[r].at = step /\ req'[r].session = req[r].session
         /\ req'[r].username = req[r].username /\ req'[r].id = req[r].id
<1>1. req[r] \in RequestType
  BY Typed
<1>2. [req[r] EXCEPT !.at = step] \in RequestType
  BY <1>1 DEF RequestType
<1> QED
  BY <1>1, <1>2, Typed DEF Go, RequestType

LEMMA LogInStep ==
  ASSUME PenjoyInv, NEW r \in Requests, NEW i \in Ids \cup {NoId}, LogIn(r, i), UNCHANGED fleet
  PROVE  PenjoyInv'
<1>1. req[r].at = "login" /\ i \in GetUserId(req[r].username) /\ UNCHANGED <<mailed, sessions>>
  BY DEF LogIn
<1>2. CASE Done(r) /\ UNCHANGED users
  BY <1>1, <1>2, Typed, UnchangedStay, EndsStep DEF ReserveSteps
<1>3. CASE i \in DOMAIN users /\ users' = [users EXCEPT ![i].loggedin = TRUE]
  <2>1. AccountsStay
    BY <1>3, Typed, FlagStay
  <2>2. CASE Done(r)
    BY <1>1, <2>1, <2>2, EndsStep DEF ReserveSteps
  <2>3. CASE req' = [req EXCEPT ![r].at = "authenticate", ![r].id = i]
    <3>1. [req[r] EXCEPT !.at = "authenticate", !.id = i] \in RequestType
      <4>1. req[r] \in RequestType /\ "authenticate" \in Steps
        BY Typed DEF Steps, LoginSteps
      <4> QED
        BY <4>1 DEF RequestType
    <3>2. /\ req' \in [Requests -> RequestType]
          /\ \A q \in Requests \ {r} : req'[q] = req[q]
          /\ req'[r].at = "authenticate" /\ req'[r].session = req[r].session
          /\ req'[r].username = req[r].username /\ req'[r].id = i
      BY <2>3, <3>1, Typed DEF RequestType
    <3>3. i \in Rows(req[r].username)
      <4>1. i # NoId
        BY <1>3, Typed, SessionsAssumption
      <4> QED
        BY <1>1, <4>1, IdOfName
    <3>4. KnowsAccount(r)' /\ LoginProgress(r)'
      BY <1>1, <2>1, <3>2, <3>3 DEF KnowsAccount, LoginProgress, AccountsStay, sessions,
                                    PenjoyInv, RequestsInOrder
    <3>5. {} \in SUBSET (Sessions \ closed) /\ open' = open \cup {}
      BY <1>1 DEF sessions
    <3>6. mailed' \subseteq DOMAIN users'
      BY <1>1, <2>1, Typed DEF AccountsStay
    <3> QED
      BY <1>1, <2>1, <3>2, <3>4, <3>5, <3>6, AccountStep DEF sessions, ReserveSteps
  <2> QED
    BY <1>1, <1>3, <2>2, <2>3, SessionsAssumption DEF LogIn
<1> QED
  BY <1>2, <1>3 DEF LogIn

LEMMA LogoutStep ==
  ASSUME PenjoyInv, NEW r \in Requests, NEW c \in Cookies, NEW s \in Sessions,
         NEW i \in Ids \cup {NoId}, Logout(r, c, s, i), UNCHANGED fleet
  PROVE  PenjoyInv'
<1> DEFINE n == session[s].username
           out == [at |-> "logout", session |-> s, username |-> n, id |-> i]
<1>1. AccountsStay
  BY Typed, UnchangedStay DEF Logout, accounts
<1>2. {s} \in SUBSET (Sessions \ closed) /\ open' = open \cup {s}
  BY Typed, Opens DEF Logout, Cookies
<1>3. req[r].at = "idle"
  BY DEF Logout, Idle
<1>4. CASE n # NoName
  <2>1. req' = [req EXCEPT ![r] = out]
    BY <1>4 DEF Logout
  <2>2. out \in RequestType
    BY Typed DEF RequestType, Steps
  <2>3. /\ req' \in [Requests -> RequestType]
        /\ \A q \in Requests \ {r} : req'[q] = req[q]
        /\ req'[r].at = "logout" /\ req'[r].session = s
    BY <2>1, <2>2, Typed
  <2>4. KnowsAccount(r)' /\ LoginProgress(r)'
    BY <1>2, <2>3 DEF KnowsAccount, LoginProgress
  <2> QED
    BY <1>1, <1>2, <1>3, <2>3, <2>4, Typed, AccountStep DEF Logout, accounts, ReserveSteps
<1>5. CASE n = NoName
  <2>1. req' = req
    BY <1>5 DEF Logout
  <2>2. KnowsAccount(r)' /\ LoginProgress(r)'
    BY <2>1, <1>2, <1>3 DEF KnowsAccount, LoginProgress, PenjoyInv, RequestsInOrder, Logout
  <2> QED
    BY <1>1, <1>2, <1>3, <2>1, <2>2, Typed, AccountStep DEF Logout, accounts, ReserveSteps
<1> QED
  BY <1>4, <1>5

LEMMA LogOutStep ==
  ASSUME PenjoyInv, NEW r \in Requests, LogOut(r), UNCHANGED fleet
  PROVE  PenjoyInv'
<1>1. {} \in SUBSET (Sessions \ closed) /\ open' = open \cup {}
  BY DEF LogOut, sessions
<1>2. CASE users' = [users EXCEPT ![req[r].id].loggedin = FALSE] /\ Go(r, "invalidate")
  <2>1. AccountsStay
    BY <1>2, Typed, FlagStay
  <2>2. /\ req' \in [Requests -> RequestType]
        /\ \A q \in Requests \ {r} : req'[q] = req[q]
        /\ req[r].at = "logout" /\ req'[r].at = "invalidate" /\ req'[r].session = req[r].session
    BY <1>2, GoStep DEF LogOut, Steps
  <2>3. KnowsAccount(r)' /\ LoginProgress(r)'
    BY <2>2 DEF KnowsAccount, LoginProgress, LogOut, sessions, PenjoyInv, RequestsInOrder
  <2>4. mailed' \subseteq DOMAIN users'
    BY <2>1, Typed DEF AccountsStay, LogOut
  <2> QED
    BY <1>1, <2>1, <2>2, <2>3, <2>4, AccountStep DEF LogOut, sessions, ReserveSteps
<1>3. CASE Done(r) /\ UNCHANGED users
  BY <1>3, Typed, UnchangedStay, EndsStep DEF LogOut, ReserveSteps
<1> QED
  BY <1>2, <1>3 DEF LogOut

-----------------------------------------------------------------------------
\* The steps that set attributes of the session.

\* What one step of the login r makes of its session s and of r itself.
LEMMA AttributeStep ==
  ASSUME PenjoyInv, UNCHANGED <<accounts, closed, fleet>>,
         NEW r \in Requests, NEW s \in Sessions \ closed, open' = open \cup {s},
         req[r].at \in {"authenticate", "username", "id"},
         req[r].session = s \/ (req[r].at = "authenticate" /\ s \notin open),
         NEW a \in AttributesType, a.authentication, session' = [session EXCEPT ![s] = a],
         NEW v \in SUBSET Names, visitors[s] \subseteq v, visitors' = [visitors EXCEPT ![s] = v],
         req' \in [Requests -> RequestType],
         \A q \in Requests \ {r} : req'[q] = req[q],
         KnowsAccount(r)', LoginProgress(r)',
         req'[r].at \in {"idle"} \cup LoginSteps,
         session[s].username # NoName => a.username # NoName,
         IF a.username = NoName THEN Setting(s, {"username"})' ELSE a.username \in v,
         IF a.id = NoId THEN Setting(s, {"username", "id"})' ELSE \E n \in v : a.id \in Rows(n)
  PROVE  PenjoyInv'
<1>1. AccountsStay
  BY Typed, UnchangedStay DEF accounts
<1>2. PenjoyTypeOK'
  <2>1. session' \in [Sessions -> AttributesType] /\ visitors' \in [Sessions -> SUBSET Names]
    BY Typed
  <2>2. open' \subseteq Sessions /\ open' \cap closed' = {}
    BY Typed
  <2> QED
    BY <1>1, <2>1, <2>2 DEF PenjoyInv, PenjoyTypeOK, RequestType, AttributesType, accounts, fleet,
       AccountsStay, IsTable, Account
<1>3. session'[s] = a /\ visitors'[s] = v /\ s \in open'
  BY Typed
<1>4. ASSUME NEW q \in Requests \ {r}
      PROVE  KnowsAccount(q)' /\ LoginProgress(q)'
  <2>1. KnowsAccount(q) /\ LoginProgress(q)
    BY DEF PenjoyInv, RequestsInOrder
  <2>2. KnowsAccount(q)'
    BY <1>1, <2>1 DEF KnowsAccount, AccountsStay
  <2>3. CASE req[q].session = s
    <3>1. s \in open
      BY <2>1, <2>3, SessionsAssumption DEF KnowsAccount
    <3> QED
      BY <1>3, <2>1, <2>2, <2>3, <3>1 DEF LoginProgress
  <2>4. CASE req[q].session # s
    <3>1. req[q].session \in open' => /\ req[q].session \in open
                                     /\ session'[req[q].session] = session[req[q].session]
                                     /\ visitors'[req[q].session] = visitors[req[q].session]
      BY <2>4, Typed
    <3> QED
      BY <2>1, <2>2, <3>1 DEF LoginProgress
  <2> QED
    BY <2>3, <2>4
<1>5. RequestsInOrder'
  BY <1>4 DEF RequestsInOrder
<1>6. ASSUME NEW t \in Sessions, t # s
      PROVE  Attributes(t)'
  <2>1. session'[t] = session[t] /\ visitors'[t] = visitors[t] /\ (t \in open' <=> t \in open)
    BY <1>6, Typed
  <2>2. Attributes(t)
    BY AttributesOf DEF PenjoyInv
  <2>3. t \notin open => visitors'[t] = {}
    BY <2>1, <2>2 DEF Attributes
  <2>4. \A q \in Requests : req[q].session = t /\ req[q].at \in {"username", "id"} /\ t \in open
                             => req'[q] = req[q]
    BY <1>6
  <2> QED
    BY <1>1, <2>1, <2>2, <2>3, <2>4, AttributesStay
<1>7. Attributes(s)'
  <2>1. IF a.id = NoId THEN Setting(s, {"username", "id"})' ELSE \E n \in v : a.id \in Rows(n)'
    BY <1>1 DEF AccountsStay
  <2> QED
    BY <1>3, <2>1 DEF Attributes
<1>8. AttributesInOrder'
  BY <1>6, <1>7, AttributesOf
<1>9. /\ ReservationsInProgress' /\ BookedCarsAreReserved'
      /\ MarkedCarsGetBooked' /\ ReservationsHaveUsers'
  <2>1. \A q \in Requests : \/ req'[q] = req[q]
                            \/ req[q].at \notin ReserveSteps /\ req'[q].at \notin ReserveSteps
    BY DEF ReserveSteps, LoginSteps
  <2> QED
    BY <1>1, <2>1, StepKeepsFleet
<1> QED
  BY <1>2, <1>5, <1>8, <1>9 DEF PenjoyInv

\* What a login that has found its account, and its session, have come to.
LEMMA LoginKnows ==
  ASSUME PenjoyInv, NEW r \in Requests, req[r].at \in {"authenticate", "username", "id"}
  PROVE  /\ req[r].id \in Rows(req[r].username) /\ req[r].id \in Ids /\ req[r].username \in Names
         /\ req[r].at \in {"username", "id"} /\ req[r].session \in open =>
              /\ req[r].session \in Sessions \ closed
              /\ session[req[r].session].authentication
              /\ req[r].username \in visitors[req[r].session]
              /\ req[r].at = "id" => session[req[r].session].username # NoName
<1>1. req[r].id \in Rows(req[r].username)
  BY DEF PenjoyInv, RequestsInOrder, KnowsAccount
<1>2. req[r].id \in Ids /\ req[r].username \in Names
  BY <1>1, Typed DEF Rows, Account
<1> QED
  BY <1>1, <1>2, Typed DEF PenjoyInv, RequestsInOrder, LoginProgress

\* What is known of the attributes of a session.
LEMMA AttributesKnown ==
  ASSUME PenjoyInv, NEW s \in Sessions
  PROVE  /\ session[s] \in AttributesType /\ visitors[s] \in SUBSET Names
         /\ session[s].username # NoName => session[s].username \in visitors[s]
         /\ session[s].id # NoId => \E n \in visitors[s] : session[s].id \in Rows(n)
         /\ session[s].username # NoName \/ session[s].id # NoId => session[s].authentication
<1>1. session[s] \in AttributesType /\ visitors[s] \in SUBSET Names
  BY Typed
<1>2. Attributes(s)
  BY AttributesOf DEF PenjoyInv
<1>3. session[s].username # NoName \/ session[s].id # NoId => session[s].authentication
  BY <1>2 DEF Attributes, NoAttributes
<1> QED
  BY <1>1, <1>2, <1>3 DEF Attributes

LEMMA AuthenticateStep ==
  ASSUME PenjoyInv, NEW r \in Requests, NEW s \in Sessions, Authenticate(r, s), UNCHANGED fleet
  PROVE  PenjoyInv'
<1> DEFINE b == session[s]
           a == [b EXCEPT !.authentication = TRUE]
           v == visitors[s] \cup {req[r].username}
<1>1. /\ req[r].at = "authenticate" /\ GetSession(req[r].session, s)
      /\ session' = [session EXCEPT ![s] = a] /\ visitors' = [visitors EXCEPT ![s] = v]
      /\ UNCHANGED <<accounts, closed, fleet>>
  BY DEF Authenticate
<1>2. req[r].session \in Sessions \cup {NoSession}
  BY Typed DEF RequestType
<1>3. s \in Sessions \ closed /\ open' = open \cup {s}
  BY <1>1, <1>2, Opens
<1>4. req[r].session = s \/ s \notin open
  BY <1>1 DEF GetSession
<1>5. req[r].id \in Rows(req[r].username) /\ req[r].username \in Names
  BY <1>1, LoginKnows
<1>6. /\ req' \in [Requests -> RequestType]
      /\ \A q \in Requests \ {r} : req'[q] = req[q]
      /\ req'[r].at = "username" /\ req'[r].session = s
      /\ req'[r].username = req[r].username /\ req'[r].id = req[r].id
  <2>1. req[r] \in RequestType /\ "username" \in Steps
    BY Typed DEF Steps, LoginSteps
  <2>2. [req[r] EXCEPT !.at = "username", !.session = s] \in RequestType
    BY <2>1 DEF RequestType
  <2> QED
    BY <2>1, <2>2, Typed DEF Authenticate, RequestType
<1>7. b \in AttributesType
  BY Typed
<1>8. /\ a \in AttributesType /\ a.authentication
      /\ a.username = session[s].username /\ a.id = session[s].id
  BY <1>7 DEF AttributesType
<1>9. visitors[s] \subseteq v /\ v \in SUBSET Names /\ req[r].username \in v
  BY <1>5, Typed
<1>10. /\ session[s].username # NoName => session[s].username \in v
       /\ session[s].id # NoId => \E n \in v : session[s].id \in Rows(n)
  BY <1>9, AttributesKnown
<1> HIDE DEF a, b, v
<1>11. session'[s] = a /\ visitors'[s] = v
  BY <1>1, Typed
<1>12. KnowsAccount(r)' /\ LoginProgress(r)'
  <2>1. Rows(req[r].username)' = Rows(req[r].username)
    BY <1>1, <1>6 DEF Rows, accounts
  <2> QED
    BY <1>1, <1>3, <1>5, <1>6, <1>8, <1>9, <1>11, <2>1 DEF KnowsAccount, LoginProgress
<1>13. Setting(s, {"username"})' /\ Setting(s, {"username", "id"})'
  BY <1>6 DEF Setting
<1>14. /\ IF a.username = NoName THEN Setting(s, {"username"})' ELSE a.username \in v
       /\ IF a.id = NoId THEN Setting(s, {"username", "id"})' ELSE \E n \in v : a.id \in Rows(n)
  BY <1>8, <1>10, <1>13
<1>15. session[s].username # NoName => a.username # NoName
  BY <1>8
<1>16. req[r].session = s \/ (req[r].at = "authenticate" /\ s \notin open)
  BY <1>1, <1>4
<1> QED
  BY <1>1, <1>3, <1>6, <1>8, <1>9, <1>12, <1>14, <1>15, <1>16, AttributeStep DEF LoginSteps

LEMMA SetUsernameStep ==
  ASSUME PenjoyInv, NEW r \in Requests, SetUsername(r), UNCHANGED fleet
  PROVE  PenjoyInv'
<1> SUFFICES ASSUME NEW s, s = req[r].session, NEW n, n = req[r].username
             PROVE  PenjoyInv'
  OBVIOUS
<1> DEFINE b == session[s]
           a == [b EXCEPT !.username = n]
<1>1. req[r].at = "username" /\ UNCHANGED <<accounts, open, closed, visitors>>
  BY DEF SetUsername
<1>2. CASE s \in open
  <2>1. /\ s \in Sessions \ closed /\ n \in Names /\ n \in visitors[s] /\ session[s].authentication
        /\ req[r].id \in Rows(n)
    BY <1>1, <1>2, LoginKnows
  <2>2. b \in AttributesType /\ visitors[s] \in SUBSET Names
    BY <2>1, Typed
  <2>3. /\ a \in AttributesType /\ a.authentication
        /\ a.username = n /\ a.id = session[s].id
    BY <2>1, <2>2 DEF AttributesType
  <2>4. session[s].id # NoId => \E m \in visitors[s] : session[s].id \in Rows(m)
    BY <2>1, AttributesKnown
  <2>5. session' = [session EXCEPT ![s] = a] /\ Go(r, "id")
    BY <1>2 DEF SetUsername
  <2>6. /\ req' \in [Requests -> RequestType]
        /\ \A q \in Requests \ {r} : req'[q] = req[q]
        /\ req'[r].at = "id" /\ req'[r].session = s
        /\ req'[r].username = n /\ req'[r].id = req[r].id
    BY <2>5, GoStep DEF Steps, LoginSteps
  <2>7. n # NoName
    BY <2>1, SessionsAssumption
  <2> HIDE DEF a, b
  <2>9. session'[s] = a
    BY <2>1, <2>5, Typed
  <2>10. Rows(n)' = Rows(n)
    BY <1>1, <2>6 DEF Rows, accounts
  <2>11. KnowsAccount(r)' /\ LoginProgress(r)'
    BY <1>1, <1>2, <2>1, <2>3, <2>6, <2>7, <2>9, <2>10 DEF KnowsAccount, LoginProgress
  <2>12. Setting(s, {"username", "id"})'
    BY <2>6 DEF Setting
  <2>13. /\ IF a.username = NoName THEN Setting(s, {"username"})' ELSE a.username \in visitors[s]
         /\ IF a.id = NoId THEN Setting(s, {"username", "id"})'
            ELSE \E m \in visitors[s] : a.id \in Rows(m)
    BY <2>1, <2>3, <2>4, <2>7, <2>12
  <2>14. session[s].username # NoName => a.username # NoName
    BY <2>3, <2>7
  <2>15. open' = open \cup {s} /\ visitors' = [visitors EXCEPT ![s] = visitors[s]]
    BY <1>1, <1>2, Typed
  <2> QED
    BY <1>1, <2>1, <2>2, <2>3, <2>5, <2>6, <2>11, <2>13, <2>14, <2>15, AttributeStep DEF LoginSteps
<1>3. CASE s \notin open
  <2>1. Done(r) /\ UNCHANGED session
    BY <1>3 DEF SetUsername
  <2> QED
    BY <1>1, <1>3, <2>1, Typed, UnchangedStay, EndsStep DEF accounts, sessions, ReserveSteps
<1> QED
  BY <1>2, <1>3

LEMMA SetIdStep ==
  ASSUME PenjoyInv, NEW r \in Requests, SetId(r), UNCHANGED fleet
  PROVE  PenjoyInv'
<1> SUFFICES ASSUME NEW s, s = req[r].session, NEW i, i = req[r].id
             PROVE  PenjoyInv'
  OBVIOUS
<1> DEFINE b == session[s]
           a == [b EXCEPT !.id = i]
<1>1. req[r].at = "id" /\ UNCHANGED <<accounts, open, closed, visitors>> /\ Done(r)
  BY DEF SetId
<1>2. CASE s \in open
  <2>1. /\ s \in Sessions \ closed /\ session[s].authentication /\ session[s].username # NoName
        /\ req[r].username \in visitors[s] /\ i \in Rows(req[r].username) /\ i \in Ids
    BY <1>1, <1>2, LoginKnows
  <2>2. b \in AttributesType /\ visitors[s] \in SUBSET Names
    BY <2>1, Typed
  <2>3. /\ a \in AttributesType /\ a.authentication
        /\ a.username = session[s].username /\ a.id = i
    BY <2>1, <2>2 DEF AttributesType
  <2>4. session[s].username \in visitors[s]
    BY <2>1, AttributesKnown
  <2>5. session' = [session EXCEPT ![s] = a]
    BY <1>2 DEF SetId
  <2>6. i # NoId
    BY <2>1, SessionsAssumption
  <2> HIDE DEF a, b
  <2>7. /\ IF a.username = NoName THEN Setting(s, {"username"})' ELSE a.username \in visitors[s]
        /\ IF a.id = NoId THEN Setting(s, {"username", "id"})'
           ELSE \E m \in visitors[s] : a.id \in Rows(m)
    BY <2>1, <2>3, <2>4, <2>6
  <2>8. open' = open \cup {s} /\ visitors' = [visitors EXCEPT ![s] = visitors[s]]
    BY <1>1, <1>2, Typed
  <2>9. session[s].username # NoName => a.username # NoName
    BY <2>3
  <2> QED
    BY <1>1, <2>1, <2>2, <2>3, <2>5, <2>6, <2>7, <2>8, <2>9, DoneStep, AttributeStep
<1>3. CASE s \notin open
  <2>1. UNCHANGED session
    BY <1>3 DEF SetId
  <2> QED
    BY <1>1, <1>3, <2>1, Typed, UnchangedStay, EndsStep DEF accounts, sessions, ReserveSteps
<1> QED
  BY <1>2, <1>3

-----------------------------------------------------------------------------
\* The end of sessions.

\* Sessions end, and requests may end: those in the middle of a login only
\* with their session.
LEMMA CloseKeepsSessions ==
  ASSUME PenjoyInv, NEW ss \in SUBSET open, Close(ss), UNCHANGED accounts,
         req' \in [Requests -> RequestType],
         \A q \in Requests :
           \/ req'[q] = req[q]
           \/ req'[q] = NoRequest /\ (req[q].session \in open => req[q].session \in ss
                                                                 \/ req[q].at \notin {"username", "id"})
  PROVE  AccountsStay /\ RequestsInOrder' /\ AttributesInOrder'
<1>1. AccountsStay
  BY Typed, UnchangedStay DEF accounts
<1>2. /\ open' \subseteq open /\ open' \cup closed' = open \cup closed
      /\ \A s \in open' : /\ s \in Sessions /\ s \notin ss
                           /\ session'[s] = session[s] /\ visitors'[s] = visitors[s]
  BY Typed DEF Close
<1>3. ASSUME NEW q \in Requests
      PROVE  KnowsAccount(q)' /\ LoginProgress(q)'
  <2>1. CASE req'[q] = req[q]
    BY <1>1, <1>2, <2>1 DEF PenjoyInv, RequestsInOrder, KnowsAccount, LoginProgress, AccountsStay
  <2>2. CASE req'[q] = NoRequest
    BY <2>2 DEF NoRequest, KnowsAccount, LoginProgress
  <2> QED
    BY <2>1, <2>2
<1>4. ASSUME NEW s \in Sessions
      PROVE  Attributes(s)'
  <2>1. CASE s \in ss
    <3>1. session'[s] = NoAttributes /\ visitors'[s] = {} /\ s \notin open'
      BY <2>1 DEF Close
    <3> QED
      BY <3>1 DEF NoAttributes, Attributes
  <2>2. CASE s \notin ss
    <3>1. session'[s] = session[s] /\ visitors'[s] = visitors[s] /\ (s \in open' <=> s \in open)
      BY <2>2 DEF Close
    <3>2. Attributes(s)
      BY AttributesOf DEF PenjoyInv
    <3>3. s \notin open => visitors'[s] = {}
      BY <3>1, <3>2 DEF Attributes
    <3>4. \A q \in Requests : req[q].session = s /\ req[q].at \in {"username", "id"} /\ s \in open
                               => req'[q] = req[q]
      BY <2>2
    <3> QED
      BY <1>1, <3>1, <3>2, <3>3, <3>4, AttributesStay
  <2> QED
    BY <2>1, <2>2
<1> QED
  BY <1>1, <1>3, <1>4, AttributesOf DEF RequestsInOrder

LEMMA CloseTyped ==
  ASSUME PenjoyInv, NEW ss \in SUBSET open, Close(ss)
  PROVE  /\ open' \subseteq Sessions /\ closed' \subseteq Sessions /\ open' \cap closed' = {}
         /\ session' \in [Sessions -> AttributesType] /\ visitors' \in [Sessions -> SUBSET Names]
<1>1. NoAttributes \in AttributesType
  BY DEF NoAttributes, AttributesType
<1> QED
  BY <1>1, Typed DEF Close, PenjoyInv, PenjoyTypeOK

LEMMA CloseStep ==
  ASSUME PenjoyInv, NEW ss \in SUBSET open, Close(ss), UNCHANGED <<accounts, fleet>>,
         req' \in [Requests -> RequestType],
         \A q \in Requests :
           \/ req'[q] = req[q]
           \/ req'[q] = NoRequest /\ req[q].at = "invalidate"
  PROVE  PenjoyInv'
<1>1. AccountsStay /\ RequestsInOrder' /\ AttributesInOrder'
  BY CloseKeepsSessions
<1>2. PenjoyTypeOK'
  BY <1>1, CloseTyped DEF PenjoyInv, PenjoyTypeOK, RequestType, AttributesType, accounts, fleet
<1>3. /\ ReservationsInProgress' /\ BookedCarsAreReserved'
      /\ MarkedCarsGetBooked' /\ ReservationsHaveUsers'
  <2>1. \A q \in Requests : \/ req'[q] = req[q]
                            \/ req[q].at \notin ReserveSteps /\ req'[q].at \notin ReserveSteps
    BY DEF ReserveSteps, NoRequest
  <2> QED
    BY <1>1, <2>1, StepKeepsFleet
<1> QED
  BY <1>1, <1>2, <1>3 DEF PenjoyInv, AccountsStay

LEMMA InvalidateStep ==
  ASSUME PenjoyInv, NEW r \in Requests, Invalidate(r), UNCHANGED fleet
  PROVE  PenjoyInv'
<1>1. /\ req[r].at = "invalidate" /\ Done(r) /\ UNCHANGED accounts
  BY DEF Invalidate
<1>2. CASE req[r].session \in open
  <2>1. Close({req[r].session})
    BY <1>2 DEF Invalidate
  <2>2. {req[r].session} \in SUBSET open
    BY <1>2
  <2>3. req' \in [Requests -> RequestType]
        /\ \A q \in Requests : req'[q] = req[q] \/ (req'[q] = NoRequest /\ req[q].at = "invalidate")
    BY <1>1, Typed, NoRequestTyped DEF Done
  <2> QED
    BY <1>1, <2>1, <2>2, <2>3, CloseStep
<1>3. CASE req[r].session \notin open
  <2>1. UNCHANGED sessions
    BY <1>3 DEF Invalidate
  <2> QED
    BY <1>1, <2>1, Typed, UnchangedStay, EndsStep DEF accounts, ReserveSteps
<1> QED
  BY <1>2, <1>3

LEMMA ExpireStep ==
  ASSUME PenjoyInv, NEW s \in Sessions, Expire(s), UNCHANGED fleet
  PROVE  PenjoyInv'
BY Typed, CloseStep DEF Expire

LEMMA SessionsNextStep ==
  ASSUME PenjoyInv, SessionsNext, UNCHANGED fleet
  PROVE  PenjoyInv'
<1>1. ASSUME NEW r \in Requests, SessionStep(r)
      PROVE  PenjoyInv'
  <2> USE <1>1
  <2>1. CASE \E c \in Cookies, s \in Sessions, n \in Names : Register(r, c, s, n)
    BY <2>1, RegisterStep
  <2>2. CASE \E i \in Ids \ DOMAIN users : RegisterUser(r, i)
    BY <2>2, RegisterUserStep
  <2>3. CASE SendEmail(r)
    BY <2>3, SendEmailStep
  <2>4. CASE \E c \in Cookies, i \in mailed : CheckLogin(r, c, i)
    BY <2>4, CheckLoginStep
  <2>5. CASE \E i \in Ids \cup {NoId} : LogIn(r, i)
    BY <2>5, LogInStep
  <2>6. CASE \E s \in Sessions : Authenticate(r, s)
    BY <2>6, AuthenticateStep
  <2>7. CASE SetUsername(r)
    BY <2>7, SetUsernameStep
  <2>8. CASE SetId(r)
    BY <2>8, SetIdStep
  <2>9. CASE \E c \in Cookies, s \in Sessions, i \in Ids \cup {NoId} : Logout(r, c, s, i)
    BY <2>9, LogoutStep
  <2>10. CASE LogOut(r)
    BY <2>10, LogOutStep
  <2>11. CASE Invalidate(r)
    BY <2>11, InvalidateStep
  <2> QED
    BY <2>1, <2>2, <2>3, <2>4, <2>5, <2>6, <2>7, <2>8, <2>9, <2>10, <2>11 DEF SessionStep
<1> QED
  BY <1>1, ExpireStep DEF SessionsNext
-----------------------------------------------------------------------------
\* The steps of a reservation.

\* They leave accounts and attributes alone.
LEMMA ReserveKeepsSessions ==
  ASSUME PenjoyInv, UNCHANGED <<accounts, session, closed, visitors>>,
         NEW ss \in SUBSET (Sessions \ closed), open' = open \cup ss,
         NEW r \in Requests, req[r].at \in {"idle"} \cup ReserveSteps,
         req' \in [Requests -> RequestType],
         \A q \in Requests \ {r} : req'[q] = req[q],
         req'[r].at \in {"idle"} \cup ReserveSteps,
         req'[r].session \in open' \cup closed \cup {NoSession}
  PROVE  /\ AccountsStay /\ RequestsInOrder' /\ AttributesInOrder'
         /\ IsTable' /\ mailed' \subseteq DOMAIN users'
         /\ open' \subseteq Sessions /\ closed' \subseteq Sessions /\ open' \cap closed' = {}
         /\ session' \in [Sessions -> AttributesType] /\ visitors' \in [Sessions -> SUBSET Names]
         /\ req' \in [Requests -> RequestType]
<1>1. AccountsStay
  BY Typed, UnchangedStay DEF accounts
<1>2. KnowsAccount(r)' /\ LoginProgress(r)'
  BY DEF KnowsAccount, LoginProgress, ReserveSteps
<1>3. RequestsInOrder' /\ AttributesInOrder'
  BY <1>1, <1>2, StepKeepsSessions DEF ReserveSteps
<1> QED
  BY <1>1, <1>3, Typed DEF PenjoyInv, PenjoyTypeOK, AccountsStay, accounts

\* The session a request has is one there is or was.
LEMMA SessionKnown ==
  ASSUME PenjoyInv, NEW r \in Requests
  PROVE  req[r].session \in open \cup closed \cup {NoSession}
BY DEF PenjoyInv, RequestsInOrder, KnowsAccount

\* A reservation that ends before it has marked the car, or has booked it.
LEMMA EndStep ==
  ASSUME PenjoyInv, NEW r \in Requests, EndReserve(r)
  PROVE  /\ req' \in [Requests -> RequestType]
         /\ \A q \in Requests \ {r} : req'[q] = req[q] /\ car'[q] = car[q]
         /\ req'[r].at = "idle" /\ req'[r].session = NoSession /\ car'[r] = NoCar
         /\ car' \in [Requests -> Cars \cup {NoCar}]
<1>1. car \in [Requests -> Cars \cup {NoCar}]
  BY DEF PenjoyInv, PenjoyTypeOK
<1> QED
  BY <1>1, DoneStep DEF EndReserve

\* A step that neither marks a car nor books one.
LEMMA QuietStep ==
  ASSUME PenjoyInv, UNCHANGED <<accounts, session, closed, visitors, status, reservations, orphans>>,
         NEW ss \in SUBSET (Sessions \ closed), open' = open \cup ss,
         NEW r \in Requests, req[r].at \in {"idle"} \cup ReserveSteps, req[r].at # "book",
         req' \in [Requests -> RequestType], car' \in [Requests -> Cars \cup {NoCar}],
         \A q \in Requests \ {r} : req'[q] = req[q] /\ car'[q] = car[q],
         req'[r].at \in {"idle", "who", "look", "mark"},
         req'[r].session \in open' \cup closed \cup {NoSession},
         car'[r] \in Cars <=> req'[r].at # "idle",
         req'[r].at \in {"look", "mark"} => req'[r].id \in DOMAIN users
  PROVE  PenjoyInv'
<1>1. /\ AccountsStay /\ RequestsInOrder' /\ AttributesInOrder'
      /\ IsTable' /\ mailed' \subseteq DOMAIN users'
      /\ open' \subseteq Sessions /\ closed' \subseteq Sessions /\ open' \cap closed' = {}
      /\ session' \in [Sessions -> AttributesType] /\ visitors' \in [Sessions -> SUBSET Names]
      /\ req' \in [Requests -> RequestType]
  BY ReserveKeepsSessions DEF ReserveSteps
<1>2. PenjoyTypeOK'
  BY <1>1 DEF PenjoyInv, PenjoyTypeOK, IsTable, Account, RequestType, AttributesType
<1>3. ReservationsInProgress'
  BY DEF PenjoyInv, ReservationsInProgress, ReserveSteps, accounts
<1>4. BookedCarsAreReserved' /\ ReservationsHaveUsers'
  BY DEF PenjoyInv, BookedCarsAreReserved, Booked, ReservationsHaveUsers, accounts
<1>5. MarkedCarsGetBooked'
  BY DEF PenjoyInv, MarkedCarsGetBooked, Booked, Booking
<1> QED
  BY <1>1, <1>2, <1>3, <1>4, <1>5 DEF PenjoyInv, AccountsStay

LEMMA ReserveAsks ==
  ASSUME PenjoyInv, NEW r \in Requests, NEW c \in open, NEW k \in Cars, Reserve(r, c, k)
  PROVE  PenjoyInv'
<1> DEFINE new == [NoRequest EXCEPT !.at = "who", !.session = c]
<1>1. c \in Sessions /\ req[r].at = "idle"
  BY Typed DEF Reserve, Idle
<1>2. new \in RequestType /\ new.at = "who" /\ new.session = c
  BY <1>1 DEF NoRequest, RequestType, Steps, ReserveSteps
<1>3. req' = [req EXCEPT ![r] = new]
  BY DEF Reserve
<1> HIDE DEF new
<1>4. /\ req' \in [Requests -> RequestType]
      /\ \A q \in Requests \ {r} : req'[q] = req[q]
      /\ req'[r].at = "who" /\ req'[r].session = c
  BY <1>2, <1>3, Typed
<1>5. /\ car' \in [Requests -> Cars \cup {NoCar}]
      /\ \A q \in Requests \ {r} : car'[q] = car[q]
      /\ car'[r] = k
  BY DEF Reserve, PenjoyInv, PenjoyTypeOK
<1>6. {} \in SUBSET (Sessions \ closed) /\ open' = open \cup {}
  BY DEF Reserve, sessions
<1>7. UNCHANGED <<accounts, session, closed, visitors, status, reservations, orphans>>
  BY DEF Reserve, sessions
<1>8. /\ req[r].at \in {"idle"} \cup ReserveSteps /\ req[r].at # "book"
      /\ req'[r].at \in {"idle", "who", "look", "mark"}
      /\ req'[r].session \in open' \cup closed' \cup {NoSession}
      /\ car'[r] \in Cars <=> req'[r].at # "idle"
      /\ req'[r].at \in {"look", "mark"} => req'[r].id \in DOMAIN users
  BY <1>1, <1>4, <1>5, <1>6
<1> QED
  BY <1>4, <1>5, <1>6, <1>7, <1>8, QuietStep

LEMMA GetUserStep ==
  ASSUME PenjoyInv, NEW r \in Requests, NEW s \in Sessions, GetUser(r, s)
  PROVE  PenjoyInv'
<1>1. req[r].at = "who" /\ req[r].session \in Sessions \cup {NoSession} /\ GetSession(req[r].session, s)
  BY Typed DEF GetUser, RequestType
<1>2. {s} \in SUBSET (Sessions \ closed) /\ open' = open \cup {s}
  BY <1>1, Opens
<1>3. CASE session[s].id # NoId
  <2>1. session[s].id \in DOMAIN users /\ session[s].id \in Ids
    BY <1>3, Typed, AttributesKnown DEF Rows
  <2>2. req' = [req EXCEPT ![r].at = "look", ![r].id = session[s].id] /\ car' = car
    BY <1>3 DEF GetUser
  <2>3. req[r] \in RequestType /\ "look" \in Steps
    BY Typed DEF Steps, ReserveSteps
  <2>4. [req[r] EXCEPT !.at = "look", !.id = session[s].id] \in RequestType
    BY <2>1, <2>3 DEF RequestType
  <2>5. /\ req' \in [Requests -> RequestType]
        /\ \A q \in Requests \ {r} : req'[q] = req[q]
        /\ req'[r].at = "look" /\ req'[r].session = req[r].session /\ req'[r].id = session[s].id
    BY <2>2, <2>3, <2>4, Typed DEF RequestType
  <2>6. car[r] \in Cars /\ car' \in [Requests -> Cars \cup {NoCar}]
    BY <1>1, <2>2 DEF PenjoyInv, PenjoyTypeOK, ReservationsInProgress, ReserveSteps
  <2>7. req'[r].session \in open' \cup closed \cup {NoSession}
    BY <1>2, <2>5, SessionKnown
  <2> QED
    BY <1>1, <1>2, <2>1, <2>2, <2>5, <2>6, <2>7, QuietStep DEF GetUser, ReserveSteps
<1>4. CASE session[s].id = NoId
  <2>1. EndReserve(r)
    BY <1>4 DEF GetUser
  <2> QED
    BY <1>1, <1>2, <2>1, EndStep, CarsAssumption, QuietStep DEF GetUser, ReserveSteps
<1> QED
  BY <1>3, <1>4

LEMMA LookStep ==
  ASSUME PenjoyInv, NEW r \in Requests, LookAtCar(r)
  PROVE  PenjoyInv'
<1>1. {} \in SUBSET (Sessions \ closed) /\ open' = open \cup {}
  BY DEF LookAtCar, sessions
<1>2. req[r].at = "look"
  BY DEF LookAtCar
<1>3. CASE Go(r, "mark") /\ UNCHANGED car
  <2>1. /\ req' \in [Requests -> RequestType]
        /\ \A q \in Requests \ {r} : req'[q] = req[q]
        /\ req'[r].at = "mark" /\ req'[r].session = req[r].session /\ req'[r].id = req[r].id
    BY <1>3, GoStep DEF Steps, ReserveSteps
  <2>2. car[r] \in Cars /\ req[r].id \in DOMAIN users /\ car' \in [Requests -> Cars \cup {NoCar}]
    BY <1>2, <1>3 DEF PenjoyInv, PenjoyTypeOK, ReservationsInProgress, ReserveSteps
  <2>3. req'[r].session \in open' \cup closed \cup {NoSession}
    BY <1>1, <2>1, SessionKnown
  <2> QED
    BY <1>1, <1>2, <1>3, <2>1, <2>2, <2>3, QuietStep DEF LookAtCar, sessions, ReserveSteps
<1>4. CASE EndReserve(r)
  BY <1>1, <1>2, <1>4, EndStep, CarsAssumption, QuietStep DEF LookAtCar, sessions, ReserveSteps
<1> QED
  BY <1>3, <1>4 DEF LookAtCar
LEMMA FailStep ==
  ASSUME PenjoyInv, NEW r \in Requests, req[r].at \in {"who", "look", "mark"}, EndReserve(r),
         UNCHANGED <<accounts, sessions, status, reservations, orphans>>
  PROVE  PenjoyInv'
<1>1. {} \in SUBSET (Sessions \ closed) /\ open' = open \cup {}
  BY DEF sessions
<1> QED
  BY <1>1, EndStep, CarsAssumption, QuietStep DEF sessions, ReserveSteps

LEMMA MarkStep ==
  ASSUME PenjoyInv, NEW r \in Requests, MarkCar(r), req'[r].at # "idle"
  PROVE  PenjoyInv'
<1>0. /\ req[r].at = "mark" /\ UNCHANGED <<accounts, sessions, reservations, orphans, car>>
      /\ status' = [status EXCEPT ![car[r]] = "Reserved"] /\ Go(r, "book")
  BY EndStep DEF MarkCar
<1>1. {} \in SUBSET (Sessions \ closed) /\ open' = open \cup {}
  BY DEF MarkCar, sessions
<1>2. /\ req' \in [Requests -> RequestType]
      /\ \A q \in Requests \ {r} : req'[q] = req[q]
      /\ req[r].at = "mark" /\ req'[r].at = "book"
      /\ req'[r].session = req[r].session /\ req'[r].id = req[r].id
  BY <1>0, GoStep DEF Steps, ReserveSteps
<1>3. car[r] \in Cars /\ req[r].id \in DOMAIN users /\ UNCHANGED <<users, car, reservations, orphans>>
  BY <1>0, <1>2 DEF PenjoyInv, ReservationsInProgress, ReserveSteps, accounts
<1>4. req'[r].session \in open' \cup closed \cup {NoSession}
  BY <1>1, <1>2, SessionKnown
<1>5. /\ AccountsStay /\ RequestsInOrder' /\ AttributesInOrder'
      /\ IsTable' /\ mailed' \subseteq DOMAIN users'
      /\ open' \subseteq Sessions /\ closed' \subseteq Sessions /\ open' \cap closed' = {}
      /\ session' \in [Sessions -> AttributesType] /\ visitors' \in [Sessions -> SUBSET Names]
      /\ req' \in [Requests -> RequestType]
  BY <1>0, <1>1, <1>2, <1>4, ReserveKeepsSessions DEF sessions, ReserveSteps
<1>6. /\ status' \in [Cars -> {"Available", "Unavailable", "Reserved"}]
      /\ status'[car[r]] = "Reserved"
      /\ \A k \in Cars : k # car[r] => status'[k] = status[k]
  BY <1>0, <1>3 DEF PenjoyInv, PenjoyTypeOK
<1>7. PenjoyTypeOK'
  BY <1>3, <1>5, <1>6 DEF PenjoyInv, PenjoyTypeOK, IsTable, Account, RequestType, AttributesType
<1>8. ReservationsInProgress'
  <2>1. ASSUME NEW q \in Requests, q # r
        PROVE  /\ req'[q].at \in ReserveSteps <=> car'[q] \in Cars
               /\ req'[q].at \in {"look", "mark", "book"} => req'[q].id \in DOMAIN users'
               /\ req'[q].at = "book" => status'[car'[q]] = "Reserved"
    <3>1. /\ req[q].at \in ReserveSteps <=> car[q] \in Cars
          /\ req[q].at \in {"look", "mark", "book"} => req[q].id \in DOMAIN users
          /\ req[q].at = "book" => status[car[q]] = "Reserved"
      BY DEF PenjoyInv, ReservationsInProgress
    <3>2. req'[q] = req[q] /\ car'[q] = car[q]
      BY <1>2, <1>3, <2>1
    <3>3. req[q].at = "book" => car[q] \in Cars
      BY <3>1 DEF ReserveSteps
    <3> QED
      BY <1>3, <1>6, <3>1, <3>2, <3>3
  <2>2. /\ req'[r].at \in ReserveSteps /\ car'[r] \in Cars /\ req'[r].id \in DOMAIN users'
        /\ status'[car'[r]] = "Reserved"
    BY <1>2, <1>3, <1>6 DEF ReserveSteps
  <2> QED
    BY <2>1, <2>2 DEF ReservationsInProgress
<1>9. BookedCarsAreReserved' /\ ReservationsHaveUsers'
  <2>1. Booked' = Booked /\ Booked \subseteq Cars
    <3>1. \A i \in DOMAIN reservations : reservations[i] \in [user : Ids, car : Cars]
      BY SeqElement DEF PenjoyInv, PenjoyTypeOK
    <3> QED
      BY <1>3, <3>1 DEF Booked
  <2> QED
    BY <1>3, <1>6, <2>1 DEF PenjoyInv, BookedCarsAreReserved, ReservationsHaveUsers
<1>10. MarkedCarsGetBooked'
  <2> SUFFICES ASSUME NEW k \in Cars, status'[k] = "Reserved"
               PROVE  k \in Booked' \/ Booking(k)' \/ k \in orphans'
    BY DEF MarkedCarsGetBooked
  <2>1. CASE k = car[r]
    BY <1>2, <1>3, <2>1 DEF Booking
  <2>2. CASE k # car[r]
    <3>1. k \in Booked \/ Booking(k) \/ k \in orphans
      BY <1>6, <2>2 DEF PenjoyInv, MarkedCarsGetBooked
    <3>2. Booking(k) => Booking(k)'
      BY <1>2, <1>3 DEF Booking
    <3> QED
      BY <1>3, <3>1, <3>2 DEF Booked
  <2> QED
    BY <2>1, <2>2
<1> QED
  BY <1>5, <1>7, <1>8, <1>9, <1>10 DEF PenjoyInv, AccountsStay

LEMMA CreateStep ==
  ASSUME PenjoyInv, NEW r \in Requests, CreateReservation(r),
         reservations' = Append(reservations, [user |-> req[r].id, car |-> car[r]]), UNCHANGED orphans
  PROVE  PenjoyInv'
<1> DEFINE row == [user |-> req[r].id, car |-> car[r]]
<1>1. {} \in SUBSET (Sessions \ closed) /\ open' = open \cup {}
  BY DEF CreateReservation, sessions
<1>2. /\ req' \in [Requests -> RequestType]
      /\ \A q \in Requests \ {r} : req'[q] = req[q] /\ car'[q] = car[q]
      /\ req[r].at = "book" /\ req'[r].at = "idle" /\ req'[r].session = NoSession
      /\ car'[r] = NoCar /\ car' \in [Requests -> Cars \cup {NoCar}]
  BY EndStep DEF CreateReservation
<1>3. /\ car[r] \in Cars /\ req[r].id \in DOMAIN users /\ req[r].id \in Ids
      /\ status[car[r]] = "Reserved" /\ UNCHANGED <<users, status, orphans>>
  BY <1>2, Typed DEF PenjoyInv, ReservationsInProgress, ReserveSteps, CreateReservation, accounts, RequestType
<1>4. row \in [user : Ids, car : Cars]
  BY <1>3
<1>5. /\ reservations \in Seq([user : Ids, car : Cars]) /\ reservations' = Append(reservations, row)
  BY DEF CreateReservation, PenjoyInv, PenjoyTypeOK
<1> HIDE DEF row
<1>6. /\ reservations' \in Seq([user : Ids, car : Cars]) /\ Len(reservations) \in Nat
      /\ DOMAIN reservations = 1 .. Len(reservations)
      /\ DOMAIN reservations' = 1 .. Len(reservations) + 1
      /\ \A i \in DOMAIN reservations : reservations'[i] = reservations[i]
      /\ reservations'[Len(reservations) + 1] = row
  BY <1>4, <1>5
<1>7. row.user = req[r].id /\ row.car = car[r]
  BY DEF row
<1>8. /\ AccountsStay /\ RequestsInOrder' /\ AttributesInOrder'
      /\ IsTable' /\ mailed' \subseteq DOMAIN users'
      /\ open' \subseteq Sessions /\ closed' \subseteq Sessions /\ open' \cap closed' = {}
      /\ session' \in [Sessions -> AttributesType] /\ visitors' \in [Sessions -> SUBSET Names]
      /\ req' \in [Requests -> RequestType]
  BY <1>1, <1>2, ReserveKeepsSessions DEF CreateReservation, sessions, ReserveSteps
<1>9. PenjoyTypeOK'
  BY <1>2, <1>3, <1>6, <1>8 DEF PenjoyInv, PenjoyTypeOK, IsTable, Account, RequestType, AttributesType
<1>10. ReservationsInProgress'
  BY <1>2, <1>3, CarsAssumption DEF PenjoyInv, ReservationsInProgress, ReserveSteps
<1>11. Booked' = Booked \cup {car[r]}
  <2>1. Booked' \subseteq Booked \cup {car[r]}
    BY <1>6, <1>7 DEF Booked
  <2>2. Booked \subseteq Booked'
    BY <1>6 DEF Booked
  <2>3. car[r] \in Booked'
    <3>1. Len(reservations) + 1 \in DOMAIN reservations'
      BY <1>6
    <3> QED
      BY <1>6, <1>7, <3>1 DEF Booked
  <2> QED
    BY <2>1, <2>2, <2>3
<1>12. BookedCarsAreReserved'
  BY <1>3, <1>11 DEF PenjoyInv, BookedCarsAreReserved
<1>13. ReservationsHaveUsers'
  BY <1>3, <1>6, <1>7 DEF PenjoyInv, ReservationsHaveUsers
<1>14. MarkedCarsGetBooked'
  <2>1. ASSUME NEW k \in Cars, Booking(k), k # car[r]
        PROVE  Booking(k)'
    BY <1>2, <2>1 DEF Booking
  <2> QED
    BY <1>3, <1>11, <2>1 DEF PenjoyInv, MarkedCarsGetBooked
<1> QED
  BY <1>8, <1>9, <1>10, <1>12, <1>13, <1>14 DEF PenjoyInv, AccountsStay

\* When the commit fails, the car is one nobody has a reservation for.
LEMMA OrphanStep ==
  ASSUME PenjoyInv, NEW r \in Requests, CreateReservation(r),
         orphans' = orphans \cup {car[r]}, UNCHANGED reservations
  PROVE  PenjoyInv'
<1>1. {} \in SUBSET (Sessions \ closed) /\ open' = open \cup {}
  BY DEF CreateReservation, sessions
<1>2. /\ req' \in [Requests -> RequestType]
      /\ \A q \in Requests \ {r} : req'[q] = req[q] /\ car'[q] = car[q]
      /\ req[r].at = "book" /\ req'[r].at = "idle" /\ req'[r].session = NoSession
      /\ car'[r] = NoCar /\ car' \in [Requests -> Cars \cup {NoCar}]
  BY EndStep DEF CreateReservation
<1>3. car[r] \in Cars /\ UNCHANGED <<users, status>>
  BY <1>2 DEF PenjoyInv, ReservationsInProgress, ReserveSteps, CreateReservation, accounts
<1>4. /\ AccountsStay /\ RequestsInOrder' /\ AttributesInOrder'
      /\ IsTable' /\ mailed' \subseteq DOMAIN users'
      /\ open' \subseteq Sessions /\ closed' \subseteq Sessions /\ open' \cap closed' = {}
      /\ session' \in [Sessions -> AttributesType] /\ visitors' \in [Sessions -> SUBSET Names]
      /\ req' \in [Requests -> RequestType]
  BY <1>1, <1>2, ReserveKeepsSessions DEF CreateReservation, sessions, ReserveSteps
<1>5. PenjoyTypeOK'
  BY <1>2, <1>3, <1>4 DEF PenjoyInv, PenjoyTypeOK, IsTable, Account, RequestType, AttributesType
<1>6. ReservationsInProgress'
  BY <1>2, <1>3, CarsAssumption DEF PenjoyInv, ReservationsInProgress, ReserveSteps
<1>7. BookedCarsAreReserved' /\ ReservationsHaveUsers'
  BY <1>3 DEF PenjoyInv, BookedCarsAreReserved, Booked, ReservationsHaveUsers
<1>8. MarkedCarsGetBooked'
  <2>1. ASSUME NEW k \in Cars, Booking(k), k # car[r]
        PROVE  Booking(k)'
    BY <1>2, <2>1 DEF Booking
  <2> QED
    BY <1>3, <2>1 DEF PenjoyInv, MarkedCarsGetBooked, Booked
<1> QED
  BY <1>4, <1>5, <1>6, <1>7, <1>8 DEF PenjoyInv, AccountsStay

LEMMA CrashStep ==
  ASSUME PenjoyInv, Crash
  PROVE  PenjoyInv'
<1>1. /\ \A q \in Requests : req'[q] = NoRequest /\ car'[q] = NoCar
      /\ car' \in [Requests -> Cars \cup {NoCar}] /\ req' \in [Requests -> RequestType]
      /\ UNCHANGED <<accounts, status, reservations>> /\ Close(open)
  BY NoRequestTyped DEF Crash
<1>2. AccountsStay /\ RequestsInOrder' /\ AttributesInOrder'
  BY <1>1, CloseKeepsSessions
<1>3. \A r \in Requests : req[r].at = "book" => car[r] \in orphans' /\ car[r] \in Cars
  BY DEF Crash, PenjoyInv, ReservationsInProgress, ReserveSteps
<1>4. orphans \subseteq orphans' /\ orphans' \subseteq Cars
  BY <1>3 DEF Crash, PenjoyInv, PenjoyTypeOK
<1>5. PenjoyTypeOK'
  BY <1>1, <1>2, <1>4, CloseTyped DEF PenjoyInv, PenjoyTypeOK, RequestType, AttributesType, accounts
<1>6. ReservationsInProgress'
  BY <1>1, CarsAssumption DEF ReservationsInProgress, ReserveSteps, NoRequest
<1>7. BookedCarsAreReserved' /\ ReservationsHaveUsers'
  BY <1>1 DEF PenjoyInv, BookedCarsAreReserved, Booked, ReservationsHaveUsers, accounts
<1>8. MarkedCarsGetBooked'
  BY <1>1, <1>3, <1>4 DEF PenjoyInv, MarkedCarsGetBooked, Booked, Booking
<1> QED
  BY <1>2, <1>5, <1>6, <1>7, <1>8 DEF PenjoyInv, AccountsStay

-----------------------------------------------------------------------------
LEMMA PenjoyInit ==
  ASSUME ReservationsInit
  PROVE  PenjoyInv
<1> USE DEF ReservationsInit, SessionsInit
<1>1. PenjoyTypeOK
  <2>1. NoRequest \in RequestType
    BY NoRequestTyped
  <2>2. NoAttributes \in AttributesType
    BY DEF NoAttributes, AttributesType
  <2> QED
    BY <2>1, <2>2 DEF PenjoyTypeOK, RequestType, AttributesType
<1>2. \A r \in Requests : req[r].at = "idle" /\ req[r].session = NoSession
  BY DEF NoRequest
<1>3. RequestsInOrder
  BY <1>2 DEF RequestsInOrder, KnowsAccount, LoginProgress
<1>4. AttributesInOrder
  BY DEF AttributesInOrder, NoAttributes
<1>5. ReservationsInProgress
  BY <1>2, CarsAssumption DEF ReservationsInProgress, ReserveSteps
<1>6. BookedCarsAreReserved /\ MarkedCarsGetBooked /\ ReservationsHaveUsers
  BY DEF BookedCarsAreReserved, MarkedCarsGetBooked, ReservationsHaveUsers, Booked
<1> QED
  BY <1>1, <1>3, <1>4, <1>5, <1>6 DEF PenjoyInv

LEMMA PenjoyStutters ==
  ASSUME PenjoyInv, UNCHANGED penjoyVars
  PROVE  PenjoyInv'
<1> USE DEF PenjoyInv, penjoyVars, sessionVars, accounts, sessions, fleet
<1>1. PenjoyTypeOK'
  BY DEF PenjoyTypeOK
<1>2. \A n : Rows(n)' = Rows(n)
  BY DEF Rows
<1>3. RequestsInOrder'
  BY <1>2 DEF RequestsInOrder, KnowsAccount, LoginProgress
<1>4. AttributesInOrder'
  BY <1>2 DEF AttributesInOrder, Setting
<1>5. ReservationsInProgress' /\ BookedCarsAreReserved' /\ MarkedCarsGetBooked' /\ ReservationsHaveUsers'
  BY DEF ReservationsInProgress, BookedCarsAreReserved, Booked, MarkedCarsGetBooked, Booking,
         ReservationsHaveUsers
<1> QED
  BY <1>1, <1>3, <1>4, <1>5

LEMMA PenjoyStep ==
  ASSUME PenjoyInv, [PenjoyNext]_penjoyVars
  PROVE  PenjoyInv'
<1>1. ASSUME NEW r \in Requests, ReserveStep(r)
      PROVE  PenjoyInv'
  <2>1. CASE MarkCar(r)
    <3>1. CASE req'[r].at = "idle"
      <4>1. ~ Go(r, "book") /\ req[r].at = "mark"
        BY <1>1, <2>1, <3>1, GoStep DEF MarkCar, Steps, ReserveSteps
      <4> QED
        BY <1>1, <2>1, <4>1, FailStep DEF MarkCar
    <3> QED
      BY <1>1, <2>1, <3>1, MarkStep
  <2>2. CASE CreateReservation(r)
    BY <1>1, <2>2, CreateStep, OrphanStep DEF CreateReservation
  <2> QED
    BY <1>1, <2>1, <2>2, ReserveAsks, GetUserStep, LookStep DEF ReserveStep
<1> QED
  BY <1>1, SessionsNextStep, CrashStep, PenjoyStutters DEF PenjoyNext

\* The inductive invariant holds in every state: a request knows its account, an
\* attribute that is not set has a login on its way to set it, and who is about
\* to write a reservation has marked the car.
THEOREM PenjoyInvariance == PenjoySpec => []PenjoyInv
<1>1. ReservationsInit => PenjoyInv
  BY PenjoyInit
<1>2. PenjoyInv /\ [PenjoyNext]_penjoyVars => PenjoyInv'
  BY PenjoyStep
<1> QED
  BY <1>1, <1>2, PTL DEF PenjoySpec

\* createSession's three attributes, once set, are of accounts that have logged
\* in to the session, however many logins have set them.
THEOREM SessionsNameUsers == PenjoySpec => []SessionNamesItsUser
<1>1. PenjoyInv => SessionNamesItsUser
  <2> SUFFICES ASSUME PenjoyInv, NEW s \in open, session[s].authentication, ~ LoggingIn(s)
               PROVE  /\ session[s].username \in visitors[s]
                      /\ \E n \in visitors[s] : session[s].id \in Rows(n)
    BY DEF SessionNamesItsUser
  <2>1. s \in Sessions /\ ~ Setting(s, {"username"}) /\ ~ Setting(s, {"username", "id"})
    BY Typed DEF LoggingIn, LoginSteps, Setting
  <2> QED
    BY <2>1 DEF PenjoyInv, AttributesInOrder
<1> QED
  BY <1>1, PenjoyInvariance, PTL

\* setCarStatus commits before createReservation starts, so a car somebody has
\* a reservation for is never on offer.
THEOREM BookedCarsMarked == PenjoySpec => []BookedCarsAreReserved
<1>1. PenjoyInv => BookedCarsAreReserved
  BY DEF PenjoyInv
<1> QED
  BY <1>1, PenjoyInvariance, PTL

\* Every car setCarStatus has marked has a reservation, a request that is about
\* to write it, or has been left by a crash or a failed commit.
THEOREM MarksLeadToBookings == PenjoySpec => []MarkedCarsGetBooked
<1>1. PenjoyInv => MarkedCarsGetBooked
  BY DEF PenjoyInv
<1> QED
  BY <1>1, PenjoyInvariance, PTL
-----------------------------------------------------------------------------
(***************************************************************************)
(* Claims.  A claim to a name is a row of it or a registration that has    *)
(* found it free; a claim to a car is a reservation or a request that has  *)
(* found it free.  Writing the row turns one kind of claim into the other. *)
(***************************************************************************)

\* S: what has been written; T: who is about to write.
LEMMA ClaimMoves ==
  ASSUME NEW S, NEW T, IsFiniteSet(S), IsFiniteSet(T), NEW SS, NEW TT,
         \/ SS = S /\ TT \subseteq T
         \/ \E x, y : SS = S \cup {x} /\ y \in T /\ TT \subseteq T \ {y}
  PROVE  Cardinality(SS) + Cardinality(TT) <= Cardinality(S) + Cardinality(T)
<1>1. Cardinality(S) \in Nat /\ Cardinality(T) \in Nat
  BY FS_CardinalityType
<1>2. CASE SS = S /\ TT \subseteq T
  <2>1. IsFiniteSet(TT) /\ Cardinality(TT) <= Cardinality(T)
    BY <1>2, FS_Subset
  <2> QED
    BY <1>1, <1>2, <2>1, FS_CardinalityType
<1>3. ASSUME NEW x, NEW y \in T, SS = S \cup {x}, TT \subseteq T \ {y}
      PROVE  Cardinality(SS) + Cardinality(TT) <= Cardinality(S) + Cardinality(T)
  <2>1. IsFiniteSet(T \ {y}) /\ Cardinality(T \ {y}) = Cardinality(T) - 1
    BY FS_RemoveElement
  <2>2. IsFiniteSet(TT) /\ Cardinality(TT) <= Cardinality(T) - 1
    BY <1>3, <2>1, FS_Subset
  <2>3. IsFiniteSet(SS) /\ Cardinality(SS) <= Cardinality(S) + 1
    <3>1. /\ IsFiniteSet(S \cup {x})
          /\ Cardinality(S \cup {x}) = IF x \in S THEN Cardinality(S) ELSE Cardinality(S) + 1
      BY FS_AddElement
    <3> QED
      BY <1>1, <1>3, <3>1
  <2>4. Cardinality(SS) \in Nat /\ Cardinality(TT) \in Nat
    BY <2>2, <2>3, FS_CardinalityType
  <2> QED
    BY <1>1, <2>2, <2>3, <2>4
<1> QED
  BY <1>2, <1>3

LEMMA ClaimsFinite ==
  ASSUME PenjoyInv
  PROVE  /\ \A n : IsFiniteSet(Rows(n)) /\ IsFiniteSet(Asking(n))
         /\ \A k : IsFiniteSet(Bookings(k)) /\ IsFiniteSet(Taking(k))
<1>1. \A n : Asking(n) \in SUBSET Requests /\ Taking(n) \in SUBSET Requests
  BY DEF Asking, Taking
<1>2. IsFiniteSet(DOMAIN users) /\ IsFiniteSet(DOMAIN reservations)
  <2>1. IsFiniteSet(DOMAIN users)
    BY Typed, SessionsAssumption, FS_Subset
  <2>2. DOMAIN reservations = 1 .. Len(reservations) /\ Len(reservations) \in Int
    BY DEF PenjoyInv, PenjoyTypeOK
  <2> QED
    BY <2>1, <2>2, FS_Interval
<1>3. \A n : Rows(n) \in SUBSET DOMAIN users /\ Bookings(n) \in SUBSET DOMAIN reservations
  BY DEF Rows, Bookings
<1> QED
  BY <1>1, <1>2, <1>3, SessionsAssumption, FS_Subset

\* A step that leaves the user names alone and lets no registration pass.
LEMMA NoNameClaimed ==
  ASSUME PenjoyInv, DOMAIN users' = DOMAIN users,
         \A i \in DOMAIN users : users'[i].username = users[i].username,
         \A q \in Requests : req'[q] = req[q] \/ req'[q].at # "persist",
         NEW n
  PROVE  NameClaims(n)' <= NameClaims(n)
<1>1. Rows(n)' = Rows(n)
  BY DEF Rows
<1>2. Asking(n)' \subseteq Asking(n)
  BY DEF Asking
<1> QED
  BY <1>1, <1>2, ClaimsFinite, ClaimMoves DEF NameClaims

\* What the steps other than Register and RegisterUser do to requests.
LEMMA OtherStepFrame ==
  ASSUME PenjoyInv, NEW r \in Requests,
         \/ SendEmail(r) \/ (\E c \in Cookies, i \in mailed : CheckLogin(r, c, i))
         \/ (\E i \in Ids \cup {NoId} : LogIn(r, i))
         \/ (\E s \in Sessions : Authenticate(r, s)) \/ SetUsername(r) \/ SetId(r)
         \/ (\E c \in Cookies, s \in Sessions, i \in Ids \cup {NoId} : Logout(r, c, s, i))
         \/ LogOut(r) \/ Invalidate(r)
  PROVE  /\ \A q \in Requests \ {r} : req'[q] = req[q]
         /\ req'[r] = req[r] \/ req'[r].at \notin {"persist", "mark", "book"}
<1>1. req \in [Requests -> RequestType]
  BY Typed
<1>2. ASSUME Done(r)
      PROVE  (\A q \in Requests \ {r} : req'[q] = req[q]) /\ req'[r].at = "idle"
  BY <1>2, DoneStep
<1>3. ASSUME NEW step \in Steps, Go(r, step)
      PROVE  (\A q \in Requests \ {r} : req'[q] = req[q]) /\ req'[r].at = step
  BY <1>3, GoStep
<1>4. CASE SendEmail(r) \/ SetId(r) \/ Invalidate(r)
  BY <1>2, <1>4 DEF SendEmail, SetId, Invalidate
<1>5. CASE SetUsername(r) \/ LogOut(r)
  BY <1>2, <1>3, <1>5 DEF SetUsername, LogOut, Steps, LoginSteps
<1>6. ASSUME NEW c \in Cookies, NEW i \in mailed, CheckLogin(r, c, i)
      PROVE  (\A q \in Requests \ {r} : req'[q] = req[q]) /\ req'[r].at = "login"
  BY <1>1, <1>6 DEF CheckLogin, NoRequest
<1>7. ASSUME NEW i \in Ids \cup {NoId}, LogIn(r, i)
      PROVE  (\A q \in Requests \ {r} : req'[q] = req[q]) /\ req'[r].at \in {"idle", "authenticate"}
  BY <1>1, <1>2, <1>7 DEF LogIn, RequestType
<1>8. ASSUME NEW s \in Sessions, Authenticate(r, s)
      PROVE  (\A q \in Requests \ {r} : req'[q] = req[q]) /\ req'[r].at = "username"
  BY <1>1, <1>8 DEF Authenticate, RequestType
<1>9. ASSUME NEW c \in Cookies, NEW s \in Sessions, NEW i \in Ids \cup {NoId}, Logout(r, c, s, i)
      PROVE  (\A q \in Requests \ {r} : req'[q] = req[q]) /\ (req'[r] = req[r] \/ req'[r].at = "logout")
  BY <1>1, <1>9 DEF Logout
<1> QED
  BY <1>4, <1>5, <1>6, <1>7, <1>8, <1>9

\* Of the steps of account requests, RegisterUser adds the row its request has
\* claimed, and Register claims only a name that has no row.
LEMMA SessionStepClaims ==
  ASSUME PenjoyInv, NEW r \in Requests, SessionStep(r), NEW n, Rows(n) # {}
  PROVE  NameClaims(n)' <= NameClaims(n)
<1>1. req \in [Requests -> RequestType] /\ IsTable
  BY Typed
<1>2. ASSUME NEW c \in Cookies, NEW s \in Sessions, NEW m \in Names, Register(r, c, s, m)
      PROVE  NameClaims(n)' <= NameClaims(n)
  <2>1. users' = users
    BY <1>2 DEF Register, accounts
  <2>2. Rows(n)' = Rows(n)
    BY <2>1 DEF Rows
  <2>3. Asking(n)' \subseteq Asking(n)
    <3>1. CASE UNCHANGED req
      BY <3>1 DEF Asking
    <3>2. CASE /\ Rows(m) = {}
               /\ req' = [req EXCEPT ![r] = [NoRequest EXCEPT !.at = "persist", !.username = m]]
      <4>1. /\ req'[r].username = m /\ m # n
            /\ \A q \in Requests \ {r} : req'[q] = req[q]
        BY <1>1, <3>2 DEF NoRequest
      <4> QED
        BY <4>1 DEF Asking
    <3> QED
      BY <1>2, <3>1, <3>2 DEF Register
  <2> QED
    BY <2>2, <2>3, ClaimsFinite, ClaimMoves DEF NameClaims
<1>3. ASSUME NEW i \in Ids \ DOMAIN users, RegisterUser(r, i)
      PROVE  NameClaims(n)' <= NameClaims(n)
  <2>1. CASE Done(r) /\ UNCHANGED users
    <3>1. \A q \in Requests : req'[q] = req[q] \/ req'[q].at # "persist"
      BY <2>1, DoneStep
    <3> QED
      BY <2>1, <3>1, NoNameClaimed
  <2>2. CASE /\ users' = [j \in DOMAIN users \cup {i} |->
                           IF j = i THEN [username |-> req[r].username, loggedin |-> FALSE] ELSE users[j]]
             /\ req' = [req EXCEPT ![r].at = "mail", ![r].id = i]
    <3>1. /\ req[r].at = "persist" /\ req'[r].at = "mail"
          /\ \A q \in Requests \ {r} : req'[q] = req[q]
      BY <1>1, <1>3, <2>2 DEF RegisterUser, RequestType
    <3>2. /\ DOMAIN users' = DOMAIN users \cup {i}
          /\ \A j \in DOMAIN users : users'[j] = users[j]
          /\ users'[i].username = req[r].username
      BY <2>2
    <3>3. CASE req[r].username = n
      <4>1. Rows(n)' = Rows(n) \cup {i}
        BY <3>2, <3>3 DEF Rows
      <4>2. r \in Asking(n) /\ Asking(n)' \subseteq Asking(n) \ {r}
        BY <3>1, <3>3 DEF Asking
      <4> QED
        BY <4>1, <4>2, ClaimsFinite, ClaimMoves DEF NameClaims
    <3>4. CASE req[r].username # n
      <4>1. Rows(n)' = Rows(n)
        BY <3>2, <3>4 DEF Rows
      <4>2. Asking(n)' \subseteq Asking(n)
        BY <3>1 DEF Asking
      <4> QED
        BY <4>1, <4>2, ClaimsFinite, ClaimMoves DEF NameClaims
    <3> QED
      BY <3>3, <3>4
  <2> QED
    BY <1>3, <2>1, <2>2 DEF RegisterUser
<1>4. ASSUME SendEmail(r) \/ (\E c \in Cookies, i \in mailed : CheckLogin(r, c, i))
             \/ (\E i \in Ids \cup {NoId} : LogIn(r, i))
             \/ (\E s \in Sessions : Authenticate(r, s)) \/ SetUsername(r) \/ SetId(r)
             \/ (\E c \in Cookies, s \in Sessions, i \in Ids \cup {NoId} : Logout(r, c, s, i)) \/ LogOut(r) \/ Invalidate(r)
      PROVE  NameClaims(n)' <= NameClaims(n)
  <2>1. /\ \A q \in Requests \ {r} : req'[q] = req[q]
        /\ req'[r] = req[r] \/ req'[r].at # "persist"
    BY <1>4, OtherStepFrame
  <2>3. \/ users' = users
        \/ \E i, b : users' = [users EXCEPT ![i].loggedin = b]
    BY <1>4 DEF SendEmail, CheckLogin, LogIn, Authenticate, SetUsername, SetId, Logout,
       LogOut, Invalidate, accounts
  <2>4. /\ DOMAIN users' = DOMAIN users
        /\ \A i \in DOMAIN users : users'[i].username = users[i].username
    <3>1. \A i \in DOMAIN users : users[i] \in [username : Names, loggedin : BOOLEAN]
      BY Typed DEF Account
    <3>2. CASE users' = users
      BY <3>2
    <3>3. ASSUME NEW i, NEW b, users' = [users EXCEPT ![i].loggedin = b]
          PROVE  /\ DOMAIN users' = DOMAIN users
                 /\ \A j \in DOMAIN users : users'[j].username = users[j].username
      <4>1. DOMAIN users' = DOMAIN users
        BY <1>1, <3>3 DEF IsTable
      <4>2. \A j \in DOMAIN users :
              users'[j] = users[j] \/ users'[j] = [users[j] EXCEPT !.loggedin = b]
        BY <1>1, <3>3 DEF IsTable
      <4> QED
        BY <3>1, <4>1, <4>2
    <3> QED
      BY <2>3, <3>2, <3>3
  <2> QED
    BY <2>1, <2>4, NoNameClaimed
<1> QED
  BY <1>2, <1>3, <1>4 DEF SessionStep

LEMMA ReserveStepFrame ==
  ASSUME PenjoyInv, NEW r \in Requests, ReserveStep(r)
  PROVE  /\ users' = users
         /\ \A q \in Requests \ {r} : req'[q] = req[q] /\ car'[q] = car[q]
         /\ req'[r].at \in {"idle", "who", "look", "mark", "book"}
<1>1. req \in [Requests -> RequestType] /\ car \in [Requests -> Cars \cup {NoCar}]
  BY Typed DEF PenjoyInv, PenjoyTypeOK
<1>2. users' = users
  BY DEF ReserveStep, Reserve, GetUser, LookAtCar, MarkCar, CreateReservation, accounts
<1>3. \A q \in Requests \ {r} : req'[q] = req[q] /\ car'[q] = car[q]
  BY <1>1 DEF ReserveStep, Reserve, GetUser, LookAtCar, MarkCar, CreateReservation, EndReserve,
     Go, Done
<1>4. \A a \in Steps : Go(r, a) => req'[r].at = a
  BY <1>1 DEF Go, RequestType
<1>5. Done(r) => req'[r].at = "idle"
  BY <1>1 DEF Done, NoRequest
<1>6. ASSUME NEW c \in open, NEW k \in Cars, Reserve(r, c, k)
      PROVE  req'[r].at = "who"
  BY <1>1, <1>6 DEF Reserve, NoRequest
<1>7. ASSUME NEW s \in Sessions, GetUser(r, s)
      PROVE  req'[r].at \in {"idle", "look"}
  BY <1>1, <1>5, <1>7 DEF GetUser, EndReserve, RequestType
<1>8. ASSUME LookAtCar(r) \/ MarkCar(r) \/ CreateReservation(r)
      PROVE  req'[r].at \in {"idle", "mark", "book"}
  BY <1>4, <1>5, <1>8 DEF LookAtCar, MarkCar, CreateReservation, EndReserve, Steps, ReserveSteps
<1> QED
  BY <1>2, <1>3, <1>6, <1>7, <1>8 DEF ReserveStep

\* Once a name is in the table, no registration that has not yet asked for it
\* will be let through: registerUser adds only rows claimed before.
THEOREM NamesNotClaimedTwice == PenjoySpec => NoNewNameClaims
<1>1. ASSUME PenjoyInv, [PenjoyNext]_penjoyVars, NEW n \in Names, Rows(n) # {}
      PROVE  NameClaims(n)' <= NameClaims(n)
  <2>1. CASE \E r \in Requests : SessionStep(r)
    BY <1>1, <2>1, SessionStepClaims
  <2>2. CASE \E s \in Sessions : Expire(s)
    <3>1. UNCHANGED <<users, req>>
      BY <2>2 DEF Expire, accounts
    <3> QED
      BY <1>1, <3>1, NoNameClaimed
  <2>3. CASE \E r \in Requests : ReserveStep(r)
    BY <1>1, <2>3, ReserveStepFrame, NoNameClaimed
  <2>4. CASE Crash
    <3>1. users' = users /\ \A q \in Requests : req'[q].at = "idle"
      BY <2>4 DEF Crash, accounts, NoRequest
    <3> QED
      BY <1>1, <3>1, NoNameClaimed
  <2>5. CASE UNCHANGED penjoyVars
    <3>1. UNCHANGED <<users, req>>
      BY <2>5 DEF penjoyVars, sessionVars, accounts
    <3> QED
      BY <1>1, <3>1, NoNameClaimed
  <2> QED
    BY <1>1, <2>1, <2>2, <2>3, <2>4, <2>5 DEF PenjoyNext, SessionsNext
<1>2. PenjoyInv /\ [PenjoyNext]_penjoyVars =>
        [\A n \in Names : Rows(n) # {} => NameClaims(n)' <= NameClaims(n)]_sessionVars
  BY <1>1
<1> QED
  BY <1>2, PenjoyInvariance, PTL DEF PenjoySpec, NoNewNameClaims

\* A step that books nothing and lets nobody past the look at the status.
LEMMA NoCarClaimed ==
  ASSUME PenjoyInv, UNCHANGED reservations, NEW k, Taking(k)' \subseteq Taking(k)
  PROVE  CarClaims(k)' <= CarClaims(k)
<1>1. Bookings(k)' = Bookings(k)
  BY DEF Bookings
<1> QED
  BY <1>1, ClaimsFinite, ClaimMoves DEF CarClaims

\* CreateReservation books the car its request has claimed; LookAtCar claims
\* only a car that is not marked.
LEMMA ReserveStepClaims ==
  ASSUME PenjoyInv, NEW r \in Requests, ReserveStep(r), NEW k \in Cars, status[k] = "Reserved"
  PROVE  CarClaims(k)' <= CarClaims(k)
<1>1. req \in [Requests -> RequestType] /\ car \in [Requests -> Cars \cup {NoCar}]
  BY Typed DEF PenjoyInv, PenjoyTypeOK
<1>2. \A q \in Requests \ {r} : req'[q] = req[q] /\ car'[q] = car[q]
  BY ReserveStepFrame
<1>3. ASSUME \/ \E c \in open, j \in Cars : Reserve(r, c, j)
             \/ \E s \in Sessions : GetUser(r, s)
      PROVE  CarClaims(k)' <= CarClaims(k)
  <2>1. req'[r].at \in {"idle", "who", "look"} /\ reservations' = reservations
    <3>1. ASSUME NEW c \in open, NEW j \in Cars, Reserve(r, c, j)
          PROVE  req'[r].at = "who"
      BY <1>1, <3>1 DEF Reserve, NoRequest
    <3>2. ASSUME NEW s \in Sessions, GetUser(r, s)
          PROVE  req'[r].at \in {"idle", "look"}
      BY <1>1, <3>2 DEF GetUser, EndReserve, Done, NoRequest, RequestType
    <3>3. reservations' = reservations
      BY <1>3 DEF Reserve, GetUser
    <3> QED
      BY <1>3, <3>1, <3>2, <3>3
  <2>2. Taking(k)' \subseteq Taking(k)
    BY <1>2, <2>1 DEF Taking
  <2> QED
    BY <2>1, <2>2, NoCarClaimed
<1>4. CASE LookAtCar(r)
  <2>1. Taking(k)' \subseteq Taking(k)
    <3>1. req'[r].at = "idle" \/ (car' = car /\ status[car[r]] # "Reserved")
      BY <1>1, <1>4 DEF LookAtCar, EndReserve, Done, NoRequest
    <3> QED
      BY <1>2, <3>1 DEF Taking
  <2> QED
    BY <1>4, <2>1, NoCarClaimed DEF LookAtCar
<1>5. CASE MarkCar(r)
  <2>1. /\ req[r].at = "mark" /\ UNCHANGED reservations
        /\ UNCHANGED car \/ req'[r].at = "idle"
    BY <1>5, EndStep DEF MarkCar
  <2>2. Taking(k)' \subseteq Taking(k)
    BY <1>2, <2>1 DEF Taking
  <2> QED
    BY <2>1, <2>2, NoCarClaimed
<1>6. CASE CreateReservation(r) /\ UNCHANGED reservations
  <2>1. req'[r].at = "idle"
    BY <1>6, EndStep DEF CreateReservation
  <2>2. Taking(k)' \subseteq Taking(k)
    BY <1>2, <2>1 DEF Taking
  <2> QED
    BY <1>6, <2>2, NoCarClaimed
<1>7. CASE /\ CreateReservation(r)
           /\ reservations' = Append(reservations, [user |-> req[r].id, car |-> car[r]])
  <2> DEFINE row == [user |-> req[r].id, car |-> car[r]]
  <2>1. req[r].at = "book" /\ req'[r].at = "idle" /\ reservations' = Append(reservations, row)
    BY <1>1, <1>7 DEF CreateReservation, EndReserve, Done, NoRequest
  <2>2. row.car = car[r]
    OBVIOUS
  <2> HIDE DEF row
  <2>3. /\ DOMAIN reservations = 1 .. Len(reservations) /\ Len(reservations) \in Nat
        /\ DOMAIN reservations' = 1 .. Len(reservations) + 1
        /\ \A i \in DOMAIN reservations : reservations'[i] = reservations[i]
        /\ reservations'[Len(reservations) + 1] = row
    BY <2>1 DEF PenjoyInv, PenjoyTypeOK
  <2>4. CASE car[r] = k
    <3>1. Bookings(k)' = Bookings(k) \cup {Len(reservations) + 1}
      BY <2>2, <2>3, <2>4 DEF Bookings
    <3>2. r \in Taking(k) /\ Taking(k)' \subseteq Taking(k) \ {r}
      BY <1>2, <2>1, <2>4 DEF Taking
    <3> QED
      BY <3>1, <3>2, ClaimsFinite, ClaimMoves DEF CarClaims
  <2>5. CASE car[r] # k
    <3>1. Bookings(k)' = Bookings(k)
      BY <2>2, <2>3, <2>5 DEF Bookings
    <3>2. Taking(k)' \subseteq Taking(k)
      BY <1>2, <2>1 DEF Taking
    <3> QED
      BY <3>1, <3>2, ClaimsFinite, ClaimMoves DEF CarClaims
  <2> QED
    BY <2>4, <2>5
<1> QED
  BY <1>3, <1>4, <1>5, <1>6, <1>7 DEF ReserveStep, CreateReservation

\* Requests of PenjoySessions reserve nothing.
LEMMA SessionStepFrame ==
  ASSUME PenjoyInv, NEW r \in Requests, SessionStep(r)
  PROVE  /\ \A q \in Requests \ {r} : req'[q] = req[q]
         /\ req'[r] = req[r] \/ req'[r].at \notin {"mark", "book"}
<1>1. req \in [Requests -> RequestType]
  BY Typed
<1>2. ASSUME NEW c \in Cookies, NEW s \in Sessions, NEW n \in Names, Register(r, c, s, n)
      PROVE  /\ \A q \in Requests \ {r} : req'[q] = req[q]
             /\ req'[r] = req[r] \/ req'[r].at \notin {"mark", "book"}
  BY <1>1, <1>2 DEF Register, NoRequest
<1>3. ASSUME NEW i \in Ids \ DOMAIN users, RegisterUser(r, i)
      PROVE  /\ \A q \in Requests \ {r} : req'[q] = req[q]
             /\ req'[r].at \notin {"mark", "book"}
  BY <1>1, <1>3, DoneStep DEF RegisterUser, RequestType
<1> QED
  BY <1>2, <1>3, OtherStepFrame DEF SessionStep

\* Once a car is marked, no request that has not yet looked at it will get a
\* reservation: createReservation adds only rows for cars claimed before.
THEOREM CarsNotClaimedTwice == PenjoySpec => NoNewCarClaims
<1>1. ASSUME PenjoyInv, [PenjoyNext]_penjoyVars, NEW k \in Cars, status[k] = "Reserved"
      PROVE  CarClaims(k)' <= CarClaims(k)
  <2>1. CASE \E r \in Requests : SessionStep(r) /\ UNCHANGED fleet
    <3>1. PICK r \in Requests : SessionStep(r) /\ UNCHANGED fleet
      BY <2>1
    <3>2. UNCHANGED <<car, reservations>>
      BY <3>1 DEF fleet
    <3>3. Taking(k)' \subseteq Taking(k)
      BY <1>1, <3>1, <3>2, SessionStepFrame DEF Taking
    <3> QED
      BY <1>1, <3>2, <3>3, NoCarClaimed
  <2>2. CASE UNCHANGED <<req, car, reservations>>
    <3>1. Taking(k)' \subseteq Taking(k)
      BY <2>2 DEF Taking
    <3> QED
      BY <1>1, <2>2, <3>1, NoCarClaimed
  <2>3. CASE \E r \in Requests : ReserveStep(r)
    BY <1>1, <2>3, ReserveStepClaims
  <2>4. CASE Crash
    <3>1. reservations' = reservations /\ \A q \in Requests : req'[q].at = "idle"
      BY <2>4 DEF Crash, NoRequest
    <3>2. Taking(k)' \subseteq Taking(k)
      BY <3>1 DEF Taking
    <3> QED
      BY <1>1, <3>1, <3>2, NoCarClaimed
  <2>5. CASE (\E s \in Sessions : Expire(s)) /\ UNCHANGED fleet
    BY <2>2, <2>5 DEF Expire, fleet
  <2>6. CASE UNCHANGED penjoyVars
    BY <2>2, <2>6 DEF penjoyVars, sessionVars, fleet
  <2> QED
    BY <1>1, <2>1, <2>3, <2>4, <2>5, <2>6 DEF PenjoyNext, SessionsNext
<1>2. PenjoyInv /\ [PenjoyNext]_penjoyVars =>
        [\A k \in Cars : status[k] = "Reserved" => CarClaims(k)' <= CarClaims(k)]_penjoyVars
  BY <1>1
<1> QED
  BY <1>2, PenjoyInvariance, PTL DEF PenjoySpec, NoNewCarClaims
=============================================================================
