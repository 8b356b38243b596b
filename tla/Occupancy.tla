----------------------------- MODULE Occupancy -----------------------------
(***************************************************************************)
(* Who has each storage unit: the status of the units, the contracts, the  *)
(* reservations, the waitlist and the online bookings, which all write the *)
(* status of a unit from their own transactions.                           *)
(*                                                                         *)
(*   contracts.service.ts     create, sign, requestEnd, end, cancel, renew,*)
(*                            changeUnit, scheduleMove, cancelScheduledMove*)
(*   reservations.service.ts  create, confirm, cancel, convert, expireDue  *)
(*   units.service.ts         changeStatus                                 *)
(*   booking.service.ts, signatures.service.ts   booking online and from   *)
(*                            the portal, expireUnpaidBookings             *)
(*   waitlist.service.ts      notifyNext, expireStaleNotifications,        *)
(*                            updateStatus                                 *)
(*   unit-holds.ts            unitHeldByOther, releaseReservedUnit         *)
(*                                                                         *)
(* One action is one transaction.  A request on a contract reads its row   *)
(* first (Begin) and writes from that reading in a later transaction (Do). *)
(* Waitlist entries are anonymous leads; a customer who books from the     *)
(* portal rents another unit, which is not modelled.  Nor are contracts    *)
(* signed before the facility opens, imports and reservations without      *)
(* customer or with separate dates.                                        *)
(***************************************************************************)
EXTENDS Naturals, FiniteSets

CONSTANTS
    Units, Customers, Contracts, Reservations, Entries,
    Requests,    \* requests on contracts that others may overtake
    Customer,    \* the customer of each contract
    NoUnit, NoContract, NoOne,
    Slow,        \* bound: the operations of Requests
    MaxStops     \* bound: how many times a process stops half-way

ASSUME OccupancyAssumption ==
    /\ Customer \in [Contracts -> Customers]
    /\ Customers \cap Entries = {}
    /\ NoUnit \notin Units
    /\ NoContract \notin Contracts
    /\ Reservations \cap Entries = {}
    /\ NoOne \notin Customers \cup Entries \cup Reservations
    /\ Slow \subseteq {"sign", "requestEnd", "reactivate", "end", "cancel",
                    "changeUnit", "schedule", "cancelMove"}
    /\ MaxStops \in Nat

VARIABLES
    unit,        \* status of each unit; "maintenance" stands for blocked too
    contract,    \* status, unit, scheduled unit, deadline of the first payment (of
                 \* a draft: nothing here looks at it once it is signed)
    res,         \* reservations: status, unit, customer, validUntil passed, contract
    entry,       \* waitlist entries: status, unit held, contract
    req,         \* requests on contracts: operation, contract, row read, other unit
    booking,     \* bookings: step, unit, waitlist entry of the token used
    slip,        \* history: the slips each unit has suffered (see the end)
    stops

vars == <<unit, contract, res, entry, req, booking, slip, stops>>

UnitStatus == {"available", "reserved", "occupied", "maintenance"}
LiveStatus == {"active", "ending"}
OpenRes    == {"pending", "confirmed"}
MaybeUnit  == Units \cup {NoUnit}

Live(c)  == contract[c].status \in LiveStatus
Draft(c) == contract[c].status = "draft"
Open(r)  == res[r].status \in OpenRes
Notified(e) == entry[e].status = "notified"

NoBooking == [pc |-> "none", unit |-> NoUnit, entry |-> NoOne]
NoRow     == [status |-> "none", unit |-> NoUnit, move |-> NoUnit, deadline |-> "none"]
NoReservation == [status |-> "none", unit |-> NoUnit, who |-> NoOne,
                  due |-> FALSE, contract |-> NoContract]
ClosedEntry == [status |-> "closed", held |-> NoUnit, contract |-> NoContract]
NoRequest == [op |-> "none", c |-> NoContract, row |-> NoRow, to |-> NoUnit]

Init ==
    /\ unit = [u \in Units |-> "available"]
    /\ contract = [c \in Contracts |-> NoRow]
    /\ res = [r \in Reservations |-> NoReservation]
    /\ entry = [e \in Entries |-> [ClosedEntry EXCEPT !.status = "waiting"]]
    /\ req = [q \in Requests |-> NoRequest]
    /\ booking = [c \in Contracts |-> NoBooking]
    /\ slip = [u \in Units |-> {}]
    /\ stops = 0

-----------------------------------------------------------------------------
(* Variants of definitions below, each with the slip that one property     *)
(* must notice.  No action of the specification uses them.                 *)
OtherHoldsForgettingMoves(u, who, c, x) ==
    \/ \E d \in Contracts \ {c} :
          /\ Draft(d) /\ contract[d].unit = u /\ Customer[d] # who
          /\ contract[d].deadline = "open"
    \/ \E e \in Entries \ {x} : Notified(e) /\ entry[e].held = u

IndexDropped(c, u) == c \in Contracts /\ u \in Units

CancelHeldButBookings(c, row) ==
    \/ row.status \in LiveStatus
    \/ \E r \in Reservations : res[r].contract = c
    \/ \E e \in Entries : entry[e].contract = c

NotifyForgettingUnit(e, u) ==
    /\ entry[e].status = "waiting"
    /\ unit[u] = "available"
    /\ unit' = [unit EXCEPT ![u] = "reserved"]
    /\ entry' = [entry EXCEPT ![e].status = "notified"]
    /\ UNCHANGED <<contract, res, req, booking, slip, stops>>

-----------------------------------------------------------------------------
(* unit-holds.ts                                                            *)

(* Drafts born of a reservation or of a waitlist notice for the unit.      *)
BornOfHold(c, u) ==
    \/ \E r \in Reservations : /\ res[r].status = "converted"
                               /\ res[r].unit = u /\ res[r].contract = c
    \/ \E e \in Entries : entry[e].held = u /\ entry[e].contract = c

(* unitHeldByOther: does anybody but who, contract c, and reservation or    *)
(* entry x hold the unit?  A scheduled move has no exception by customer,  *)
(* and an entry has no customer.                                           *)
ReservationHolds(u, who, x) ==
    \E r \in Reservations \ {x} :
        Open(r) /\ ~res[r].due /\ res[r].unit = u /\ res[r].who # who

OtherHolds(u, who, c, x) ==
    \/ \E d \in Contracts \ {c} :
          /\ Draft(d) /\ contract[d].unit = u /\ Customer[d] # who
          /\ contract[d].deadline = "open" \/ BornOfHold(d, u)
    \/ \E d \in Contracts \ {c} : Live(d) /\ contract[d].move = u
    \/ \E e \in Entries \ {x} : Notified(e) /\ entry[e].held = u

HeldByOther(u, who, c, x) == ReservationHolds(u, who, x) \/ OtherHolds(u, who, c, x)

(* releaseReservedUnit, on the statuses f.                                 *)
Released(f, u, c, x) ==
    IF u \in Units /\ f[u] = "reserved" /\ ~HeldByOther(u, NoOne, c, x)
    THEN [f EXCEPT ![u] = "available"]
    ELSE f

-----------------------------------------------------------------------------
(* Requests on contracts: findOrThrow and assertTransition first.           *)

Marked(old, kind, us) ==
    [u \in Units |-> IF u \notin us THEN old[u]
                     ELSE IF "outdated" \in {kind} \cup old[u] THEN {"outdated"}
                     ELSE old[u] \cup {kind}]

Mark(kind, us) == Marked(slip, kind, us)

AllowedFrom ==
    [sign |-> {"draft"}, requestEnd |-> {"active"}, reactivate |-> {"ending"},
     end |-> LiveStatus, cancel |-> {"draft"} \cup LiveStatus,
     changeUnit |-> LiveStatus, schedule |-> LiveStatus, cancelMove |-> LiveStatus]

(* The other unit of a move; cancelling one is offered where there is one. *)
Target(op, row, to) ==
    CASE op = "changeUnit" -> to \in Units \ {row.unit}
      [] op = "schedule"   -> to \in Units \ {row.unit} /\ row.move = NoUnit
      [] op = "cancelMove" -> to = NoUnit /\ row.move # NoUnit
      [] OTHER             -> to = NoUnit

Request(op, c, to) == [op |-> op, c |-> c, row |-> contract[c], to |-> to]

(* Another variant: without assertTransition.                              *)
PossibleFromAny(x) ==
    /\ booking[x.c].pc # "drafted"
    /\ x.row.status # "none"
    /\ Target(x.op, x.row, x.to)

(* Nobody has the draft of a booking before the booking answers.           *)
Possible(x) ==
    /\ booking[x.c].pc # "drafted"
    /\ x.row.status \in AllowedFrom[x.op]
    /\ Target(x.op, x.row, x.to)

(* Another request changed the contract since its row was read.            *)
Outdated(x) ==
    LET now == contract[x.c]
        row == x.row
    IN  <<now.status, now.unit, now.move>> # <<row.status, row.unit, row.move>>

Touched(x) == {x.row.unit, x.row.move, x.to,
               contract[x.c].unit, contract[x.c].move}

(* The unique index contracts_one_active_per_unit.                         *)
IndexAllows(c, u) == \A d \in Contracts \ {c} : Live(d) => contract[d].unit # u

(* sign: any open reservation of someone else refuses, and any hold of     *)
(* someone else if the unit is reserved.                                   *)
Signable(c, u) ==
    /\ unit[u] \in {"available", "reserved"}
    /\ \A r \in Reservations : Open(r) /\ res[r].unit = u => res[r].who = Customer[c]
    /\ unit[u] = "reserved" => ~HeldByOther(u, Customer[c], c, NoOne)

Sign(x) ==
    LET c == x.c
        u == x.row.unit
    IN  /\ x.op = "sign"
        /\ Signable(c, u)
        /\ IndexAllows(c, contract[c].unit)
        /\ unit' = [unit EXCEPT ![u] = "occupied"]
        /\ contract' = [contract EXCEPT ![c].status = "active", ![c].deadline = "none"]
        /\ res' = [r \in Reservations |->
                     IF Open(r) /\ res[r].unit = u
                     THEN [res[r] EXCEPT !.status = "converted", !.contract = c] ELSE res[r]]
        /\ UNCHANGED entry

(* requestEnd; renew and cancelMoveOutByCustomer of a contract 'ending'.    *)
SetStatus(x) ==
    LET c == x.c
    IN  /\ x.op \in {"requestEnd", "reactivate"}
        /\ IndexAllows(c, contract[c].unit)
        /\ contract' = [contract EXCEPT ![c].status =
                            IF x.op = "requestEnd" THEN "ending" ELSE "active"]
        /\ UNCHANGED <<unit, res, entry>>

(* A contract 'ended' or 'cancelled': nothing is allowed from either.       *)
Closed(c) ==
    contract' = [contract EXCEPT ![c].status = "closed", ![c].move = NoUnit,
                                 ![c].deadline = "none"]

Vacated(u) == IF unit[u] = "occupied" THEN [unit EXCEPT ![u] = "available"] ELSE unit

(* end, by the staff or by autoEndDue.                                     *)
End(x) ==
    LET c == x.c
        row == x.row
    IN  /\ x.op = "end"
        /\ Closed(c)
        /\ unit' = Released(Vacated(row.unit), row.move, c, NoOne)
        /\ UNCHANGED <<res, entry>>

(* cancel, by the staff or by expireUnpaidBookings.                        *)
CancelHeld(c, row) ==
    \/ row.status \in LiveStatus
    \/ row.deadline # "none"
    \/ \E r \in Reservations : res[r].contract = c
    \/ \E e \in Entries : entry[e].contract = c

Cancel(x) ==
    LET c == x.c
        row == x.row
        freed == IF CancelHeld(c, row) THEN Released(unit, row.unit, c, NoOne) ELSE unit
    IN  /\ x.op = "cancel"
        /\ Closed(c)
        /\ unit' = Released(IF row.status \in LiveStatus /\ unit[row.unit] = "occupied"
                            THEN Vacated(row.unit) ELSE freed,
                            row.move, c, NoOne)
        /\ UNCHANGED <<res, entry>>

(* changeUnit, at once or on the day of a scheduled move.                  *)
ChangeUnit(x) ==
    LET c == x.c
        row == x.row
        to == x.to
    IN  /\ x.op = "changeUnit"
        /\ unit[to] = "available" \/ (row.move = to /\ unit[to] = "reserved")
        /\ ~HeldByOther(to, Customer[c], c, NoOne)
        /\ Live(c) => IndexAllows(c, to)
        /\ unit' = [unit EXCEPT ![to] = "occupied",
                                ![row.unit] = IF @ \in {"occupied", "reserved"}
                                              THEN "available" ELSE @]
        /\ contract' = [contract EXCEPT ![c].unit = to, ![c].move = NoUnit]
        /\ UNCHANGED <<res, entry>>

ScheduleMove(x) ==
    LET c == x.c
        to == x.to
    IN  /\ x.op = "schedule"
        /\ unit[to] = "available"
        /\ ~HeldByOther(to, Customer[c], c, NoOne)
        /\ unit' = [unit EXCEPT ![to] = "reserved"]
        /\ contract' = [contract EXCEPT ![c].move = to]
        /\ UNCHANGED <<res, entry>>

CancelScheduledMove(x) ==
    LET c == x.c
    IN  /\ x.op = "cancelMove"
        /\ unit' = Released(unit, x.row.move, c, NoOne)
        /\ contract' = [contract EXCEPT ![c].move = NoUnit]
        /\ UNCHANGED <<res, entry>>

(* changeUnit forgets a move scheduled elsewhere.                          *)
Forgotten(x) ==
    IF x.op = "changeUnit" THEN {contract[x.c].move} \ {x.to} ELSE {}

(* A unit its tenant leaves goes on sale: nobody asks who holds it, and    *)
(* sign let the tenant in over a booking of their own.                     *)
Shared(x) ==
    IF x.op \in {"end", "cancel", "changeUnit"} /\ Live(x.c)
       /\ \E d \in Contracts : /\ Draft(d) /\ contract[d].deadline = "open"
                               /\ contract[d].unit = x.row.unit
                               /\ Customer[d] = Customer[x.c]
    THEN {x.row.unit} ELSE {}

Perform(x) ==
    /\ \/ Sign(x) \/ SetStatus(x) \/ End(x) \/ Cancel(x)
       \/ ChangeUnit(x) \/ ScheduleMove(x) \/ CancelScheduledMove(x)
    /\ slip' = IF Outdated(x) THEN Mark("outdated", Touched(x))
               ELSE Marked(Mark("left", Forgotten(x)), "shared", Shared(x))
    /\ UNCHANGED <<booking, stops>>

(* A request nobody overtakes; and one that waits between its reading and  *)
(* its transaction, while any others run, and may be refused in the end.   *)
Run(x) == Possible(x) /\ Perform(x) /\ UNCHANGED req

Begin(q, x) ==
    /\ req[q] = NoRequest
    /\ x.op \in Slow /\ Possible(x)
    /\ req' = [req EXCEPT ![q] = x]
    /\ UNCHANGED <<unit, contract, res, entry, booking, slip, stops>>

EndRequest(q) == req' = [req EXCEPT ![q] = NoRequest]

Do(q) == req[q] # NoRequest /\ Perform(req[q]) /\ EndRequest(q)

Fails(q) ==
    /\ req[q] # NoRequest
    /\ EndRequest(q)
    /\ UNCHANGED <<unit, contract, res, entry, booking, slip, stops>>

-----------------------------------------------------------------------------
(* contracts.service.ts create: on a unit in any status.                   *)

NewDraft(c, u) ==
    /\ contract[c].status = "none"
    /\ contract' = [contract EXCEPT ![c] = [NoRow EXCEPT !.status = "draft", !.unit = u]]

CreateDraft(c, u) ==
    /\ booking[c].pc = "none"
    /\ NewDraft(c, u)
    /\ UNCHANGED <<unit, res, entry, req, booking, slip, stops>>

(* convertToContract.                                                      *)
ConvertReservation(c, r) ==
    /\ booking[c].pc = "none"
    /\ Open(r) /\ res[r].who = Customer[c]
    /\ NewDraft(c, res[r].unit)
    /\ res' = [res EXCEPT ![r].status = "converted", ![r].contract = c]
    /\ UNCHANGED <<unit, entry, req, booking, slip, stops>>

(* The entry is converted if it is still open; another unit that was held  *)
(* for it goes back on sale.                                               *)
EntryConverted(c, e, u) ==
    IF e \in Entries /\ entry[e].status \in {"waiting", "notified"}
    THEN /\ entry' = [entry EXCEPT ![e] = [status |-> "converted", contract |-> c,
                                          held |-> IF @.held = u THEN u ELSE NoUnit]]
         /\ unit' = IF entry[e].held # u THEN Released(unit, entry[e].held, c, e) ELSE unit
    ELSE UNCHANGED <<entry, unit>>

DraftFromEntry(c, e, u) ==
    /\ booking[c].pc = "none"
    /\ entry[e].status \in {"waiting", "notified"}
    /\ NewDraft(c, u)
    /\ EntryConverted(c, e, u)
    /\ UNCHANGED <<res, req, booking, slip, stops>>

-----------------------------------------------------------------------------
(* Bookings: createBooking and startFromPortal.  The unit is reserved, the *)
(* draft is created and its deadline is set in three transactions.         *)

(* What a unit is promised to: a rent, a scheduled move, a booking in      *)
(* time, a confirmed reservation, a waitlist notice.                       *)
Claimants(u) ==
    LET living  == {c \in Contracts :
                      Live(c) /\ u \in {contract[c].unit, contract[c].move}}
        booked  == {c \in Contracts :
                      Draft(c) /\ contract[c].unit = u /\ contract[c].deadline = "open"}
        awaited == {r \in Reservations :
                      res[r].status = "confirmed" /\ ~res[r].due /\ res[r].unit = u}
    IN  {Customer[c] : c \in living \cup booked}
        \cup {res[r].who : r \in awaited}
        \cup {e \in Entries : Notified(e) /\ entry[e].held = u}

(* The portal takes any available unit; the web, one without open          *)
(* reservations besides.                                                   *)
Hold(c, u) ==
    /\ contract[c].status = "none" /\ booking[c].pc = "none"
    /\ unit[u] = "available"
    /\ unit' = [unit EXCEPT ![u] = "reserved"]
    /\ booking' = [booking EXCEPT ![c] = [pc |-> "held", unit |-> u, entry |-> NoOne]]
    /\ UNCHANGED <<contract, res, entry, req, slip, stops>>

(* With the token of a waitlist notice: the unit held for it.              *)
HoldByToken(c, e) ==
    /\ contract[c].status = "none" /\ booking[c].pc = "none"
    /\ Notified(e) /\ unit[entry[e].held] = "reserved"
    /\ booking' = [booking EXCEPT ![c] = [pc |-> "held", unit |-> entry[e].held, entry |-> e]]
    /\ UNCHANGED <<unit, contract, res, entry, req, slip, stops>>

BookingDraft(c) ==
    /\ booking[c].pc = "held"
    /\ NewDraft(c, booking[c].unit)
    /\ EntryConverted(c, booking[c].entry, booking[c].unit)
    /\ booking' = [booking EXCEPT ![c].pc = "drafted"]
    /\ UNCHANGED <<res, req, slip, stops>>

(* create throws: the unit reserved without a token is put back on sale,   *)
(* whoever has it by now.                                                  *)
BookingFails(c) ==
    /\ booking[c].pc = "held"
    /\ LET u == booking[c].unit
       IN  IF booking[c].entry = NoOne /\ unit[u] = "reserved"
           THEN /\ unit' = [unit EXCEPT ![u] = "available"]
                /\ slip' = IF Claimants(u) # {} THEN Mark("window", {u}) ELSE slip
           ELSE UNCHANGED <<unit, slip>>
    /\ booking' = [booking EXCEPT ![c] = NoBooking]
    /\ UNCHANGED <<contract, res, entry, req, stops>>

(* From the reservation to the deadline no row says whose the unit is.     *)
BookingDeadline(c) ==
    /\ booking[c].pc = "drafted"
    /\ contract' = [contract EXCEPT ![c].deadline = "open"]
    /\ booking' = [booking EXCEPT ![c] = NoBooking]
    /\ LET u == booking[c].unit
       IN  slip' = IF unit[u] # "reserved" \/ Claimants(u) # {} THEN Mark("window", {u}) ELSE slip
    /\ UNCHANGED <<unit, res, entry, req, stops>>

BookingStops(c) ==
    /\ stops < MaxStops
    /\ booking[c].pc \in {"held", "drafted"}
    /\ stops' = stops + 1
    /\ booking' = [booking EXCEPT ![c] = NoBooking]
    /\ slip' = Mark("left", {booking[c].unit})
    /\ UNCHANGED <<unit, contract, res, entry, req>>

(* expireUnpaidBookings then cancels: one of the requests above.           *)
DeadlinePasses(c) ==
    /\ Draft(c) /\ contract[c].deadline = "open"
    /\ contract' = [contract EXCEPT ![c].deadline = "past"]
    /\ UNCHANGED <<unit, res, entry, req, booking, slip, stops>>

-----------------------------------------------------------------------------
(* reservations.service.ts                                                  *)

Reservable(u, who) ==
    unit[u] \in {"available", "reserved"} /\ ~OtherHolds(u, who, NoContract, NoOne)

(* The constraint reservations_no_overlap_exclude keeps them apart.        *)
NoOverlap(u) == ~ReservationHolds(u, NoOne, NoOne)

Reserved(u) == [unit EXCEPT ![u] = "reserved"]

CreateReservation(r, u, who, confirmed) ==
    /\ res[r].status = "none"
    /\ Reservable(u, who)
    /\ NoOverlap(u)
    /\ res' = [res EXCEPT ![r].status = IF confirmed THEN "confirmed" ELSE "pending",
                          ![r].unit = u, ![r].who = who]
    /\ unit' = IF confirmed THEN Reserved(u) ELSE unit
    /\ UNCHANGED <<contract, entry, req, booking, slip, stops>>

Confirm(r) ==
    /\ res[r].status = "pending" /\ ~res[r].due
    /\ Reservable(res[r].unit, res[r].who)
    /\ res' = [res EXCEPT ![r].status = "confirmed"]
    /\ unit' = Reserved(res[r].unit)
    /\ UNCHANGED <<contract, entry, req, booking, slip, stops>>

DuePasses(r) ==
    /\ Open(r) /\ ~res[r].due
    /\ res' = [res EXCEPT ![r].due = TRUE]
    /\ UNCHANGED <<unit, contract, entry, req, booking, slip, stops>>

(* cancel, and expireDue of one that is past: only a confirmed one gives    *)
(* its unit back.  A pending one may be all that a repaired unit was       *)
(* reserved for.  A closed row is never looked at again.                   *)
CloseReservation(r) ==
    /\ Open(r)
    /\ res' = [res EXCEPT ![r] = [NoReservation EXCEPT !.status = "closed"]]
    /\ IF res[r].status = "confirmed"
       THEN unit' = Released(unit, res[r].unit, NoContract, r) /\ UNCHANGED slip
       ELSE /\ slip' = IF unit[res[r].unit] = "reserved"
                       THEN Mark("left", {res[r].unit}) ELSE slip
            /\ UNCHANGED unit
    /\ UNCHANGED <<contract, entry, req, booking, stops>>

-----------------------------------------------------------------------------
(* waitlist.service.ts                                                      *)

Notify(e, u) ==
    /\ entry[e].status = "waiting"
    /\ unit[u] = "available"
    /\ ~HeldByOther(u, NoOne, NoContract, NoOne)
    /\ unit' = Reserved(u)
    /\ entry' = [entry EXCEPT ![e].status = "notified", ![e].held = u]
    /\ UNCHANGED <<contract, res, req, booking, slip, stops>>

(* expireStaleNotifications: the claim, and the unit afterwards.           *)
ExpireEntry(e) ==
    /\ Notified(e)
    /\ entry' = [entry EXCEPT ![e].status = "expired"]
    /\ UNCHANGED <<unit, contract, res, req, booking, slip, stops>>

FreeUnit(e) ==
    /\ entry[e].status = "expired"
    /\ unit' = Released(unit, entry[e].held, NoContract, NoOne)
    /\ entry' = [entry EXCEPT ![e] = ClosedEntry]
    /\ UNCHANGED <<contract, res, req, booking, slip, stops>>

FreeStops(e) ==
    /\ stops < MaxStops
    /\ entry[e].status = "expired"
    /\ stops' = stops + 1
    /\ entry' = [entry EXCEPT ![e] = ClosedEntry]
    /\ slip' = Mark("left", {entry[e].held})
    /\ UNCHANGED <<unit, contract, res, req, booking>>

(* updateStatus: 'converted' ties the entry to a draft on its unit.        *)
ResolveEntry(e, status) ==
    /\ entry[e].status \in {"waiting", "notified"}
    /\ LET drafts == {c \in Contracts : Draft(c) /\ contract[c].unit = entry[e].held}
       IN  IF status = "converted" /\ drafts # {}
           THEN /\ \E c \in drafts :
                     entry' = [entry EXCEPT ![e].status = status, ![e].contract = c]
                /\ UNCHANGED unit
           ELSE /\ entry' = [entry EXCEPT ![e] = ClosedEntry]
                /\ unit' = Released(unit, entry[e].held, NoContract, e)
    /\ UNCHANGED <<contract, res, req, booking, slip, stops>>

-----------------------------------------------------------------------------
(* units.service.ts changeStatus                                           *)
ByHand ==
    [available |-> {"maintenance"}, reserved |-> {"available", "maintenance"},
     maintenance |-> {"available"}, occupied |-> {"available", "maintenance"}]

ChangeStatus(u) ==
    /\ ~\E c \in Contracts : Live(c) /\ contract[c].unit = u
    /\ \E to \in ByHand[unit[u]] :
          IF to = "available" /\ HeldByOther(u, NoOne, NoContract, NoOne)
          THEN unit[u] # "reserved" /\ unit' = Reserved(u)
          ELSE unit' = [unit EXCEPT ![u] = to]
    /\ UNCHANGED <<contract, res, entry, req, booking, slip, stops>>

-----------------------------------------------------------------------------
RequestStep ==
    \/ \E op \in DOMAIN AllowedFrom, c \in Contracts, to \in MaybeUnit :
          Run(Request(op, c, to)) \/ \E q \in Requests : Begin(q, Request(op, c, to))
    \/ \E q \in Requests : Do(q) \/ Fails(q)

ContractStep(c) ==
    \/ \E u \in Units : CreateDraft(c, u) \/ Hold(c, u)
    \/ \E r \in Reservations : ConvertReservation(c, r)
    \/ \E e \in Entries : HoldByToken(c, e) \/ \E u \in Units : DraftFromEntry(c, e, u)
    \/ BookingDraft(c) \/ BookingFails(c) \/ BookingDeadline(c) \/ BookingStops(c)
    \/ DeadlinePasses(c)

ReservationStep(r) ==
    \/ \E u \in Units, who \in Customers, confirmed \in BOOLEAN :
          CreateReservation(r, u, who, confirmed)
    \/ Confirm(r) \/ DuePasses(r) \/ CloseReservation(r)

EntryStep(e) ==
    \/ \E u \in Units : Notify(e, u)
    \/ ExpireEntry(e) \/ FreeUnit(e) \/ FreeStops(e)
    \/ \E status \in {"converted", "cancelled"} : ResolveEntry(e, status)

Next ==
    \/ RequestStep
    \/ \E c \in Contracts : ContractStep(c)
    \/ \E r \in Reservations : ReservationStep(r)
    \/ \E e \in Entries : EntryStep(e)
    \/ \E u \in Units : ChangeStatus(u)

Spec == Init /\ [][Next]_vars

-----------------------------------------------------------------------------
Row == [status : {"none", "draft", "closed"} \cup LiveStatus,
        unit : MaybeUnit, move : MaybeUnit, deadline : {"none", "open", "past"}]

(* Type invariant of the occupancy, with the history of slips:             *)
(*   outdated  a request wrote from a reading of a contract that another   *)
(*             request had changed since                                   *)
(*   window    somebody took the unit from a booking before its deadline   *)
(*             was set                                                     *)
(*   shared    a tenant left the unit, and it went on sale over a booking  *)
(*             of the same customer, still in time                         *)
(*   left      nobody will give the unit back: a move to another unit than *)
(*             the scheduled one, a pending reservation closed, a process  *)
(*             that stopped                                                *)
OccupancyTypeOK ==
    /\ unit \in [Units -> UnitStatus]
    /\ contract \in [Contracts -> Row]
    /\ \A c \in Contracts : contract[c].status # "none" <=> contract[c].unit \in Units
    /\ res \in [Reservations ->
                   [status : {"none", "converted", "closed"} \cup OpenRes,
                    unit : MaybeUnit, who : Customers \cup {NoOne}, due : BOOLEAN,
                    contract : Contracts \cup {NoContract}]]
    /\ entry \in [Entries ->
                     [status : {"waiting", "notified", "converted", "expired", "closed"},
                      held : MaybeUnit, contract : Contracts \cup {NoContract}]]
    /\ \A r \in Reservations : Open(r) => res[r].unit \in Units /\ res[r].who \in Customers
    /\ \A e \in Entries : entry[e].status \in {"notified", "expired"} => entry[e].held \in Units
    /\ req \in [Requests -> [op : DOMAIN AllowedFrom \cup {"none"}, row : Row,
                             c : Contracts \cup {NoContract}, to : MaybeUnit]]
    /\ booking \in [Contracts -> [pc : {"none", "held", "drafted"},
                                  unit : MaybeUnit, entry : Entries \cup {NoOne}]]
    /\ slip \in [Units -> SUBSET {"outdated", "window", "left", "shared"}]
    /\ stops \in 0..MaxStops

(* Nobody else rents a rented unit, whatever the requests on the contracts *)
(* have read before.                                                       *)
OneLiveContract ==
    \A c, d \in Contracts :
        Live(c) /\ Live(d) /\ contract[c].unit = contract[d].unit => c = d

(* The unit that the web sells and the doors open agrees with the          *)
(* contracts: it is 'occupied' exactly while somebody rents it.            *)
Rented(u) == \E c \in Contracts : Live(c) /\ contract[c].unit = u

UnitTellsTheTruth ==
    \A u \in Units : "outdated" \notin slip[u] => (unit[u] = "occupied" <=> Rented(u))

(* A unit is promised to one person at a time: a tenant, one about to move *)
(* in from another unit, a booking in time, a confirmed reservation, the   *)
(* lead that was told it is free.                                          *)
OneClaimant ==
    \A u \in Units :
        slip[u] \cap {"outdated", "window", "shared"} = {} => Cardinality(Claimants(u)) <= 1

(* A unit out of sale is there for somebody whose row gives it back.       *)
WaitedFor(u) ==
    \/ Claimants(u) # {}
    \/ \E r \in Reservations : Open(r) /\ res[r].unit = u
    \/ \E c \in Contracts :
          /\ Draft(c) /\ contract[c].unit = u
          /\ contract[c].deadline # "none" \/ BornOfHold(c, u)
    \/ \E c \in Contracts : booking[c].pc \in {"held", "drafted"} /\ booking[c].unit = u
    \/ \E e \in Entries : entry[e].status = "expired" /\ entry[e].held = u

ReservedForSomeone ==
    \A u \in Units :
        slip[u] \cap {"outdated", "left"} = {} /\ unit[u] = "reserved" => WaitedFor(u)

=============================================================================
