------------------------- MODULE PenjoyReservations -------------------------
(***************************************************************************)
(* Reservation of cars in PowerEnjoy (ReservationServlet, CarSearchBean,   *)
(* ReservationBean), served concurrently with the requests of              *)
(* PenjoySessions.  Cars and reservations are rows of the database: they   *)
(* survive a crash of the server, requests and sessions do not.            *)
(*                                                                         *)
(* A reservation looks at a copy of the car, marks the car, and then       *)
(* writes the reservation, in three transactions.                          *)
(***************************************************************************)
EXTENDS PenjoySessions

CONSTANTS Cars, NoCar

ASSUME CarsAssumption == NoCar \notin Cars

VARIABLES
  status,        \* status[k]: carStatus of k
  car,           \* car[r]: the car request r asks for
  reservations,  \* the reservation table; all its rows are Active
  orphans        \* history: cars a crash or a failed commit has left marked for nobody

fleet == <<status, car, reservations, orphans>>
penjoyVars == <<sessionVars, fleet>>

\* The fleet has cars that are out of service.
ReservationsInit ==
  /\ SessionsInit
  /\ status \in [Cars -> {"Available", "Unavailable"}]
  /\ car = [r \in Requests |-> NoCar]
  /\ reservations = <<>> /\ orphans = {}

-----------------------------------------------------------------------------
\* ReservationServlet.doPost: sessionCheck lets logged-in visitors in; k is the
\* number they have typed.
Reserve(r, c, k) ==
  /\ Idle(r)
  /\ c \in open /\ session[c].authentication
  /\ req' = [req EXCEPT ![r] = [NoRequest EXCEPT !.at = "who", !.session = c]]
  /\ car' = [car EXCEPT ![r] = k]
  /\ UNCHANGED <<accounts, sessions, status, reservations, orphans>>

EndReserve(r) == Done(r) /\ car' = [car EXCEPT ![r] = NoCar]

\* The id attribute of the session.  If that has gone since the check, or has
\* no id yet, toString throws.
GetUser(r, s) ==
  /\ req[r].at = "who"
  /\ GetSession(req[r].session, s)
  /\ IF session[s].id # NoId
     THEN /\ req' = [req EXCEPT ![r].at = "look", ![r].id = session[s].id]
          /\ UNCHANGED car
     ELSE EndReserve(r)
  /\ UNCHANGED <<accounts, closed, session, visitors, status, reservations, orphans>>

LookAtCar_NoCheck(r) ==   \* mutant: setCarStatus does not look at the status
  /\ req[r].at = "look"
  /\ Go(r, "mark") /\ UNCHANGED car
  /\ UNCHANGED <<accounts, sessions, status, reservations, orphans>>

\* getCarByID, and the test of setCarStatus on the car it has returned
LookAtCar(r) ==
  /\ req[r].at = "look"
  /\ IF status[car[r]] # "Reserved" THEN Go(r, "mark") /\ UNCHANGED car ELSE EndReserve(r)
  /\ UNCHANGED <<accounts, sessions, status, reservations, orphans>>

MarkCar_NoCommit(r) ==   \* mutant: the transaction is not committed
  /\ req[r].at = "mark"
  /\ Go(r, "book")
  /\ UNCHANGED <<accounts, sessions, fleet>>

\* The transaction of setCarStatus, on whatever the car is now
MarkCar(r) ==
  /\ req[r].at = "mark"
  /\ \/ /\ status' = [status EXCEPT ![car[r]] = "Reserved"]
        /\ Go(r, "book") /\ UNCHANGED car
     \/ EndReserve(r) /\ UNCHANGED status   \* the commit fails
  /\ UNCHANGED <<accounts, sessions, reservations, orphans>>

CreateReservation_AsksLate(r) ==   \* mutant: the session is asked only now
  /\ req[r].at = "book"
  /\ IF req[r].session \in open
     THEN reservations' = Append(reservations, [user |-> req[r].id, car |-> car[r]])
     ELSE UNCHANGED reservations
  /\ EndReserve(r)
  /\ UNCHANGED <<accounts, sessions, status, orphans>>

\* ReservationBean.createReservation; when the commit fails the car stays marked.
CreateReservation(r) ==
  /\ req[r].at = "book"
  /\ \/ /\ reservations' = Append(reservations, [user |-> req[r].id, car |-> car[r]])
        /\ UNCHANGED orphans
     \/ orphans' = orphans \cup {car[r]} /\ UNCHANGED reservations
  /\ EndReserve(r)
  /\ UNCHANGED <<accounts, sessions, status>>

ReserveStep(r) ==
  \/ \E c \in open, k \in Cars : Reserve(r, c, k)
  \/ \E s \in Sessions : GetUser(r, s)
  \/ LookAtCar(r)
  \/ MarkCar(r)
  \/ CreateReservation(r)

\* The server stops and starts again: what is not in the database is lost.
Crash ==
  /\ Close(open)
  /\ req' = [r \in Requests |-> NoRequest]
  /\ car' = [r \in Requests |-> NoCar]
  /\ orphans' = orphans \cup {car[r] : r \in {q \in Requests : req[q].at = "book"}}
  /\ UNCHANGED <<accounts, status, reservations>>

PenjoyNext ==
  \/ SessionsNext /\ UNCHANGED fleet
  \/ \E r \in Requests : ReserveStep(r)
  \/ Crash

PenjoySpec == ReservationsInit /\ [][PenjoyNext]_penjoyVars
-----------------------------------------------------------------------------
ReserveSteps == {"who", "look", "mark", "book"}
Steps == {"idle", "persist", "mail", "logout", "invalidate"} \cup LoginSteps \cup ReserveSteps

PenjoyTypeOK ==
  /\ DOMAIN users \subseteq Ids
  /\ users \in [DOMAIN users -> [username : Names, loggedin : BOOLEAN]]
  /\ mailed \subseteq DOMAIN users
  /\ open \subseteq Sessions /\ closed \subseteq Sessions /\ open \cap closed = {}
  /\ session \in [Sessions -> [authentication : BOOLEAN, username : Names \cup {NoName}, id : Ids \cup {NoId}]]
  /\ visitors \in [Sessions -> SUBSET Names]
  /\ req \in [Requests -> [at : Steps, session : Sessions \cup {NoSession},
                           username : Names \cup {NoName}, id : Ids \cup {NoId}]]
  /\ status \in [Cars -> {"Available", "Unavailable", "Reserved"}]
  /\ car \in [Requests -> Cars \cup {NoCar}]
  /\ reservations \in Seq([user : Ids, car : Cars])
  /\ orphans \subseteq Cars

Booked == {reservations[i].car : i \in DOMAIN reservations}

\* A car somebody has a reservation for is marked, so the search page does not
\* offer it: also after a crash between the two transactions.
BookedCarsAreReserved == \A k \in Booked : status[k] = "Reserved"

Booking(k) == \E r \in Requests : req[r].at = "book" /\ car[r] = k

\* A car is not marked for nobody: who has marked it goes on to write the
\* reservation, though the session may end, and another request look at the
\* car or book it, in between.  Only a crash or a failing commit can come in the way.
MarkedCarsGetBooked ==
  \A k \in Cars : status[k] = "Reserved" => k \in Booked \/ Booking(k) \/ k \in orphans

\* Reservations of car k, and requests that have found it free and will add one.
Bookings(k) == {i \in DOMAIN reservations : reservations[i].car = k}
Taking(k) == {r \in Requests : req[r].at \in {"mark", "book"} /\ car[r] = k}

CarClaims(k) == Cardinality(Bookings(k)) + Cardinality(Taking(k))

\* Once a car is marked nobody new gets past the test of setCarStatus: only
\* requests that have looked before can still add a reservation for it.
NoNewCarClaims ==
  [][\A k \in Cars : status[k] = "Reserved" => CarClaims(k)' <= CarClaims(k)]_penjoyVars

\* Reservations are made by registered users.
ReservationsHaveUsers == \A i \in DOMAIN reservations : reservations[i].user \in DOMAIN users

-----------------------------------------------------------------------------
\* A reservation in progress has a car, and from "look" on a user; when it has
\* marked the car, the car stays marked.
ReservationsInProgress ==
  \A r \in Requests :
    /\ req[r].at \in ReserveSteps <=> car[r] \in Cars
    /\ req[r].at \in {"look", "mark", "book"} => req[r].id \in DOMAIN users
    /\ req[r].at = "book" => status[car[r]] = "Reserved"

\* The inductive invariant.
PenjoyInv ==
  /\ PenjoyTypeOK
  /\ RequestsInOrder
  /\ AttributesInOrder
  /\ ReservationsInProgress
  /\ BookedCarsAreReserved
  /\ MarkedCarsGetBooked
  /\ ReservationsHaveUsers

-----------------------------------------------------------------------------
\* No car is in two reservations.
CarOnlyInOneReservation ==
  \A i, j \in DOMAIN reservations : reservations[i].car = reservations[j].car => i = j
=============================================================================
