-------------------------- MODULE OccupancyProofs --------------------------
(***************************************************************************)
(* Proofs about Occupancy, for any units, customers, contracts,            *)
(* reservations, waitlist entries and overtaking requests: no unit is      *)
(* rented twice, a unit says 'occupied' exactly while it is rented, it is  *)
(* promised to one person at a time, and one out of sale is there for      *)
(* somebody.                                                               *)
(***************************************************************************)
EXTENDS Occupancy, FiniteSetTheorems, TLAPS

-----------------------------------------------------------------------------
(* What a request that has read its contract is sure of: it was possible   *)
(* then, and the contract exists.                                          *)
SoundRequest(x) ==
    /\ x.op \in DOMAIN AllowedFrom
    /\ x.c \in Contracts
    /\ x.row \in Row /\ x.row.unit \in Units
    /\ x.row.status \in AllowedFrom[x.op]
    /\ x.to \in MaybeUnit
    /\ x.op \in {"changeUnit", "schedule"} => x.to \in Units \ {x.row.unit}
    /\ contract[x.c].status # "none"

RequestsInv == \A q \in Requests : req[q] = NoRequest \/ SoundRequest(req[q])

(* A booking in course knows its unit, and its draft once it has one.      *)
BookingsInv == \A c \in Contracts : booking[c].pc # "none" => booking[c].unit \in Units
DraftsInv   == \A c \in Contracts : booking[c].pc = "drafted" => contract[c].status # "none"

LEMMA Operations ==
    DOMAIN AllowedFrom = {"sign", "requestEnd", "reactivate", "end", "cancel",
                          "changeUnit", "schedule", "cancelMove"}
BY DEF AllowedFrom

-----------------------------------------------------------------------------
(* What the helpers return.                                                *)

UnitType == [Units -> UnitStatus]
SlipType == [Units -> SUBSET {"outdated", "window", "left", "shared"}]

LEMMA ReleasedType ==
    ASSUME NEW f \in UnitType, NEW u, NEW c, NEW x
    PROVE  Released(f, u, c, x) \in UnitType
BY DEF Released, UnitType, UnitStatus

LEMMA VacatedType ==
    ASSUME unit \in UnitType, NEW u
    PROVE  Vacated(u) \in UnitType
BY DEF Vacated, UnitType, UnitStatus

SlipKinds == {"outdated", "window", "left", "shared"}

LEMMA MarkedType ==
    ASSUME NEW old \in SlipType, NEW kind \in SlipKinds, NEW us
    PROVE  Marked(old, kind, us) \in SlipType
BY DEF Marked, SlipType, SlipKinds

LEMMA MarkType ==
    ASSUME slip \in SlipType, NEW kind \in SlipKinds, NEW us
    PROVE  Mark(kind, us) \in SlipType
BY MarkedType DEF Mark

(* The rows of contracts, apart: what each action has to keep.             *)
ContractsFine ==
    /\ contract \in [Contracts -> Row]
    /\ \A c \in Contracts : contract[c].status # "none" <=> contract[c].unit \in Units

LEMMA WriteContract ==
    ASSUME ContractsFine, NEW c \in Contracts, NEW row \in Row,
           contract' = [contract EXCEPT ![c] = row],
           row.status # "none", row.unit \in Units
    PROVE  /\ ContractsFine'
           /\ \A d \in Contracts : contract[d].status # "none" => contract'[d].status # "none"
BY DEF ContractsFine

-----------------------------------------------------------------------------
(* The requests on contracts.                                              *)

PerformTypes ==
    /\ unit' \in UnitType
    /\ ContractsFine'
    /\ \A d \in Contracts : contract[d].status # "none" => contract'[d].status # "none"

LEMMA PerformRows ==
    ASSUME OccupancyTypeOK, NEW x, SoundRequest(x), Perform(x)
    PROVE  PerformTypes
<1> DEFINE c == x.c
<1>a. unit \in UnitType /\ ContractsFine
  BY DEF OccupancyTypeOK, UnitType, ContractsFine
<1>b. c \in Contracts /\ contract[c] \in Row /\ contract[c].status # "none"
      /\ contract[c].unit \in Units /\ contract \in [Contracts -> Row]
  BY <1>a DEF ContractsFine, SoundRequest
<1> HIDE DEF c
<1>w. ASSUME NEW row \in Row, contract' = [contract EXCEPT ![c] = row],
             row.status # "none", row.unit \in Units, unit' \in UnitType
      PROVE  PerformTypes
  BY <1>a, <1>b, <1>w, WriteContract DEF PerformTypes
<1>1. CASE Sign(x)
  <2> DEFINE row == [contract[c] EXCEPT !.status = "active", !.deadline = "none"]
  <2>1. row \in Row /\ row.status # "none" /\ row.unit \in Units
    BY <1>b DEF Row, LiveStatus
  <2>2. contract' = [contract EXCEPT ![c] = row]
    BY <1>1, <1>b DEF Sign, c
  <2>3. unit' \in UnitType
    BY <1>1, <1>a DEF Sign, UnitType, UnitStatus
  <2> HIDE DEF row
  <2> QED
    BY <1>w, <2>1, <2>2, <2>3
<1>2. CASE SetStatus(x)
  <2> DEFINE st  == IF x.op = "requestEnd" THEN "ending" ELSE "active"
             row == [contract[c] EXCEPT !.status = st]
  <2>1. row \in Row /\ row.status # "none" /\ row.unit \in Units
    BY <1>b DEF Row, LiveStatus
  <2>2. contract' = [contract EXCEPT ![c] = row] /\ unit' = unit
    BY <1>2, <1>b DEF SetStatus, c
  <2> HIDE DEF row
  <2> QED
    BY <1>a, <1>w, <2>1, <2>2
<1>3. CASE End(x) \/ Cancel(x)
  <2> DEFINE row == [contract[c] EXCEPT !.status = "closed", !.move = NoUnit,
                                        !.deadline = "none"]
  <2>1. row \in Row /\ row.status # "none" /\ row.unit \in Units
    BY <1>b DEF Row, MaybeUnit
  <2>2. contract' = [contract EXCEPT ![c] = row]
    BY <1>3, <1>b DEF End, Cancel, Closed, c
  <2>3. unit' \in UnitType
    BY <1>3, <1>a, ReleasedType, VacatedType DEF End, Cancel
  <2> HIDE DEF row
  <2> QED
    BY <1>w, <2>1, <2>2, <2>3
<1>4. CASE ChangeUnit(x)
  <2> DEFINE row == [contract[c] EXCEPT !.unit = x.to, !.move = NoUnit]
  <2>0. x.to \in Units
    BY <1>4 DEF ChangeUnit, SoundRequest
  <2>1. row \in Row /\ row.status # "none" /\ row.unit \in Units
    BY <1>b, <2>0 DEF Row, MaybeUnit
  <2>2. contract' = [contract EXCEPT ![c] = row]
    BY <1>4, <1>b DEF ChangeUnit, c
  <2>3. unit' \in UnitType
    BY <1>4, <1>a DEF ChangeUnit, UnitType, UnitStatus
  <2> HIDE DEF row
  <2> QED
    BY <1>w, <2>1, <2>2, <2>3
<1>5. CASE ScheduleMove(x)
  <2> DEFINE row == [contract[c] EXCEPT !.move = x.to]
  <2>1. row \in Row /\ row.status # "none" /\ row.unit \in Units
    BY <1>b DEF Row, SoundRequest
  <2>2. contract' = [contract EXCEPT ![c] = row]
    BY <1>5, <1>b DEF ScheduleMove, c
  <2>3. unit' \in UnitType
    BY <1>5, <1>a DEF ScheduleMove, UnitType, UnitStatus
  <2> HIDE DEF row
  <2> QED
    BY <1>w, <2>1, <2>2, <2>3
<1>6. CASE CancelScheduledMove(x)
  <2> DEFINE row == [contract[c] EXCEPT !.move = NoUnit]
  <2>1. row \in Row /\ row.status # "none" /\ row.unit \in Units
    BY <1>b DEF Row, MaybeUnit
  <2>2. contract' = [contract EXCEPT ![c] = row]
    BY <1>6, <1>b DEF CancelScheduledMove, c
  <2>3. unit' \in UnitType
    BY <1>6, <1>a, ReleasedType DEF CancelScheduledMove
  <2> HIDE DEF row
  <2> QED
    BY <1>w, <2>1, <2>2, <2>3
<1> QED
  BY <1>1, <1>2, <1>3, <1>4, <1>5, <1>6 DEF Perform

-----------------------------------------------------------------------------
(* The type invariant, part by part.                                       *)
ReservationRow ==
    [status : {"none", "converted", "closed"} \cup OpenRes, unit : MaybeUnit,
     who : Customers \cup {NoOne}, due : BOOLEAN, contract : Contracts \cup {NoContract}]
EntryRow ==
    [status : {"waiting", "notified", "converted", "expired", "closed"},
     held : MaybeUnit, contract : Contracts \cup {NoContract}]
BookingRow ==
    [pc : {"none", "held", "drafted"}, unit : MaybeUnit, entry : Entries \cup {NoOne}]
RequestRow ==
    [op : DOMAIN AllowedFrom \cup {"none"}, row : Row,
     c : Contracts \cup {NoContract}, to : MaybeUnit]

ReservationsFine ==
    /\ res \in [Reservations -> ReservationRow]
    /\ \A r \in Reservations : Open(r) => res[r].unit \in Units /\ res[r].who \in Customers
EntriesFine ==
    /\ entry \in [Entries -> EntryRow]
    /\ \A e \in Entries : entry[e].status \in {"notified", "expired"} => entry[e].held \in Units
BookingsFine == booking \in [Contracts -> BookingRow] /\ BookingsInv
RequestsFine == req \in [Requests -> RequestRow] /\ RequestsInv
HistoryFine  == slip \in SlipType /\ stops \in 0..MaxStops

OccupancyInv ==
    /\ unit \in UnitType /\ ContractsFine /\ ReservationsFine /\ EntriesFine
    /\ BookingsFine /\ DraftsInv /\ RequestsFine /\ HistoryFine

LEMMA InvTypes == OccupancyInv => OccupancyTypeOK
BY DEF OccupancyInv, OccupancyTypeOK, UnitType, ContractsFine, ReservationsFine, EntriesFine,
   BookingsFine, RequestsFine, HistoryFine, SlipType, ReservationRow, EntryRow, BookingRow,
   RequestRow

Persist == \A d \in Contracts : contract[d].status # "none" => contract'[d].status # "none"

(* A step that leaves the requests alone, or forgets one.                  *)
LEMMA RequestsKept ==
    ASSUME RequestsFine, Persist,
           UNCHANGED req \/ \E q \in Requests : EndRequest(q)
    PROVE  RequestsFine'
<1>1. NoRequest \in RequestRow
  BY OccupancyAssumption DEF NoRequest, NoRow, RequestRow, Row, MaybeUnit
<1>2. req' \in [Requests -> RequestRow]
  BY <1>1 DEF RequestsFine, EndRequest
<1>3. ASSUME NEW q \in Requests PROVE (req[q] = NoRequest \/ SoundRequest(req[q]))'
  <2>1. req'[q] \in {NoRequest, req[q]}
    BY DEF RequestsFine, EndRequest
  <2> QED
    BY <2>1 DEF RequestsFine, RequestsInv, SoundRequest, Persist
<1> QED
  BY <1>2, <1>3 DEF RequestsFine, RequestsInv

LEMMA DraftsKept ==
    ASSUME DraftsInv, Persist,
           \A c \in Contracts : booking'[c].pc = "drafted" =>
                                   booking[c].pc = "drafted" \/ contract'[c].status # "none"
    PROVE  DraftsInv'
BY DEF DraftsInv, Persist

LEMMA PossibleIsSound ==
    ASSUME ContractsFine, NEW op \in DOMAIN AllowedFrom, NEW c \in Contracts,
           NEW to \in MaybeUnit, Possible(Request(op, c, to))
    PROVE  SoundRequest(Request(op, c, to)) /\ Request(op, c, to) \in RequestRow
<1> DEFINE x == Request(op, c, to)
<1>1. x = [op |-> op, c |-> c, row |-> contract[c], to |-> to]
  BY DEF Request
<1>2. x.op = op /\ x.c = c /\ x.row = contract[c] /\ x.to = to
  BY <1>1
<1>3. contract[c] \in Row
  BY DEF ContractsFine
<1>4. contract[c].status \in AllowedFrom[op] /\ Target(op, contract[c], to)
  BY <1>2 DEF Possible
<1>5. contract[c].status # "none"
  BY <1>4, Operations DEF AllowedFrom, LiveStatus
<1>6. contract[c].unit \in Units
  BY <1>5 DEF ContractsFine
<1>7. op \in {"changeUnit", "schedule"} => to \in Units \ {contract[c].unit}
  BY <1>4 DEF Target
<1>8. x \in RequestRow
  BY <1>1, <1>3 DEF RequestRow
<1> HIDE DEF x
<1> QED
  BY <1>2, <1>3, <1>4, <1>5, <1>6, <1>7, <1>8 DEF SoundRequest, x

LEMMA PerformRest ==
    ASSUME OccupancyInv, NEW x, SoundRequest(x), Perform(x)
    PROVE  ReservationsFine' /\ EntriesFine' /\ BookingsFine' /\ HistoryFine' /\ UNCHANGED booking
<1>a. ReservationsFine /\ EntriesFine /\ BookingsFine /\ HistoryFine
  BY DEF OccupancyInv
<1>1. ReservationsFine'
  <2>1. CASE UNCHANGED res
    BY <1>a, <2>1 DEF ReservationsFine, Open
  <2>2. CASE Sign(x)
    <3>1. x.c \in Contracts
      BY DEF SoundRequest
    <3>2. ASSUME NEW r \in Reservations
          PROVE  res'[r] \in ReservationRow
                 /\ (res'[r].status \in OpenRes => res'[r] = res[r])
      <4>0. res[r] \in ReservationRow
        BY <1>a DEF ReservationsFine
      <4> DEFINE row == [res[r] EXCEPT !.status = "converted", !.contract = x.c]
      <4>1. row \in ReservationRow /\ row.status \notin OpenRes
        BY <3>1, <4>0 DEF ReservationRow, OpenRes
      <4>2. res'[r] \in {row, res[r]}
        BY <2>2 DEF Sign
      <4> HIDE DEF row
      <4> QED
        BY <4>0, <4>1, <4>2
    <3>3. res' = [r \in Reservations |-> res'[r]]
      BY <2>2 DEF Sign
    <3>4. res' \in [Reservations -> ReservationRow]
      BY <3>2, <3>3
    <3>5. \A r \in Reservations :
             res'[r].status \in OpenRes => res'[r].unit \in Units /\ res'[r].who \in Customers
      BY <1>a, <3>2 DEF ReservationsFine, Open
    <3> QED
      BY <3>4, <3>5 DEF ReservationsFine, Open
  <2> QED
    BY <2>1, <2>2 DEF Perform, SetStatus, End, Cancel, ChangeUnit, ScheduleMove,
       CancelScheduledMove
<1>2. UNCHANGED <<entry, booking, stops>>
  BY DEF Perform, Sign, SetStatus, End, Cancel, ChangeUnit, ScheduleMove, CancelScheduledMove
<1>3. slip' \in SlipType
  BY <1>a, MarkType, MarkedType DEF Perform, HistoryFine, SlipKinds
<1> QED
  BY <1>a, <1>1, <1>2, <1>3 DEF EntriesFine, BookingsFine, BookingsInv, HistoryFine

LEMMA RequestStepInv ==
    ASSUME OccupancyInv, RequestStep
    PROVE  OccupancyInv'
<1>a. OccupancyTypeOK /\ unit \in UnitType /\ ContractsFine /\ RequestsFine
  BY InvTypes DEF OccupancyInv
<1>b. ASSUME NEW x, SoundRequest(x), Perform(x),
             UNCHANGED req \/ \E q \in Requests : EndRequest(q)
      PROVE  OccupancyInv'
  BY <1>a, <1>b, PerformRows, PerformRest, RequestsKept, DraftsKept
  DEF PerformTypes, Persist, OccupancyInv
<1>1. ASSUME NEW op \in DOMAIN AllowedFrom, NEW c \in Contracts, NEW to \in MaybeUnit,
             Run(Request(op, c, to))
      PROVE  OccupancyInv'
  BY <1>1, <1>a, <1>b, PossibleIsSound DEF Run
<1>2. ASSUME NEW op \in DOMAIN AllowedFrom, NEW c \in Contracts, NEW to \in MaybeUnit,
             NEW q \in Requests, Begin(q, Request(op, c, to))
      PROVE  OccupancyInv'
  <2> DEFINE x == Request(op, c, to)
  <2>1. SoundRequest(x) /\ x \in RequestRow
    BY <1>a, <1>2, PossibleIsSound DEF Begin
  <2> HIDE DEF x
  <2>2. req' = [req EXCEPT ![q] = x]
        /\ UNCHANGED <<unit, contract, res, entry, booking, slip, stops>>
    BY <1>2 DEF Begin, x
  <2>3. \A k \in Requests : req'[k] = NoRequest \/ SoundRequest(req'[k])
    BY <1>a, <2>1, <2>2 DEF RequestsFine, RequestsInv
  <2>4. RequestsFine'
    BY <1>a, <2>1, <2>2, <2>3 DEF RequestsFine, RequestsInv, SoundRequest
  <2> QED
    BY <2>2, <2>4 DEF OccupancyInv, ContractsFine, ReservationsFine, Open, EntriesFine, BookingsFine,
       BookingsInv, DraftsInv, HistoryFine
<1>3. ASSUME NEW q \in Requests, Do(q) PROVE OccupancyInv'
  <2>1. SoundRequest(req[q])
    BY <1>a, <1>3 DEF Do, RequestsFine, RequestsInv
  <2> QED
    BY <1>3, <1>b, <2>1 DEF Do
<1>4. ASSUME NEW q \in Requests, Fails(q) PROVE OccupancyInv'
  <2>1. RequestsFine'
    BY <1>a, <1>4, RequestsKept DEF Fails, Persist
  <2> QED
    BY <1>4, <2>1 DEF OccupancyInv, Fails, ContractsFine, ReservationsFine, Open, EntriesFine,
       BookingsFine, BookingsInv, DraftsInv, HistoryFine
<1> QED
  BY <1>1, <1>2, <1>3, <1>4 DEF RequestStep

-----------------------------------------------------------------------------
(* Steps that write one row of each kind.                                  *)

LEMMA KeptContracts ==
    ASSUME ContractsFine, UNCHANGED contract
    PROVE  ContractsFine' /\ Persist
BY DEF ContractsFine, Persist

LEMMA NewDraftFine ==
    ASSUME ContractsFine, NEW c \in Contracts, NEW u \in Units, NewDraft(c, u)
    PROVE  ContractsFine' /\ Persist
<1> DEFINE row == [NoRow EXCEPT !.status = "draft", !.unit = u]
<1>1. row \in Row /\ row.status # "none" /\ row.unit \in Units
  BY DEF NoRow, Row, MaybeUnit
<1>2. contract' = [contract EXCEPT ![c] = row]
  BY DEF NewDraft
<1> HIDE DEF row
<1> QED
  BY <1>1, <1>2, WriteContract DEF Persist

LEMMA DeadlineFine ==
    ASSUME ContractsFine, NEW c \in Contracts, contract[c].status # "none",
           NEW deadline \in {"none", "open", "past"},
           contract' = [contract EXCEPT ![c].deadline = deadline]
    PROVE  ContractsFine' /\ Persist
<1> DEFINE row == [contract[c] EXCEPT !.deadline = deadline]
<1>1. contract[c] \in Row /\ contract[c].unit \in Units
  BY DEF ContractsFine
<1>2. row \in Row /\ row.status # "none" /\ row.unit \in Units
  BY <1>1 DEF Row
<1>3. contract' = [contract EXCEPT ![c] = row]
  BY DEF ContractsFine
<1> HIDE DEF row
<1> QED
  BY <1>2, <1>3, WriteContract DEF Persist

LEMMA WriteReservation ==
    ASSUME ReservationsFine, NEW r \in Reservations, NEW row \in ReservationRow,
           res' = [res EXCEPT ![r] = row],
           row.status \in OpenRes => row.unit \in Units /\ row.who \in Customers
    PROVE  ReservationsFine'
<1>1. res' \in [Reservations -> ReservationRow]
  BY DEF ReservationsFine
<1>2. \A s \in Reservations :
         res'[s].status \in OpenRes => res'[s].unit \in Units /\ res'[s].who \in Customers
  BY DEF ReservationsFine, Open
<1> QED
  BY <1>1, <1>2 DEF ReservationsFine, Open

LEMMA WriteEntry ==
    ASSUME EntriesFine, NEW e \in Entries, NEW row \in EntryRow,
           entry' = [entry EXCEPT ![e] = row],
           row.status \in {"notified", "expired"} => row.held \in Units
    PROVE  EntriesFine'
BY DEF EntriesFine

LEMMA WriteBooking ==
    ASSUME BookingsFine, NEW c \in Contracts, NEW row \in BookingRow,
           booking' = [booking EXCEPT ![c] = row],
           row.pc # "none" => row.unit \in Units
    PROVE  BookingsFine'
BY DEF BookingsFine, BookingsInv

LEMMA ClosedEntryType == ClosedEntry \in EntryRow
BY DEF ClosedEntry, EntryRow, MaybeUnit

LEMMA NoBookingFine ==
    ASSUME BookingsFine, NEW c \in Contracts, booking' = [booking EXCEPT ![c] = NoBooking]
    PROVE  BookingsFine'
<1>1. NoBooking \in BookingRow /\ NoBooking.pc = "none"
  BY DEF NoBooking, BookingRow, MaybeUnit
<1> QED
  BY <1>1, WriteBooking

LEMMA EntryConvertedFine ==
    ASSUME EntriesFine, unit \in UnitType, NEW c \in Contracts, NEW e, NEW u \in Units,
           EntryConverted(c, e, u)
    PROVE  EntriesFine' /\ unit' \in UnitType
<1>1. CASE UNCHANGED <<entry, unit>>
  BY <1>1 DEF EntriesFine
<1>2. CASE ~UNCHANGED <<entry, unit>>
  <2> DEFINE held == IF entry[e].held = u THEN u ELSE NoUnit
             row == [status |-> "converted", contract |-> c, held |-> held]
  <2>1. e \in Entries /\ entry' = [entry EXCEPT ![e] = row]
        /\ unit' \in {unit, Released(unit, entry[e].held, c, e)}
    BY <1>2 DEF EntryConverted, EntriesFine
  <2>2. row \in EntryRow /\ row.status = "converted"
    BY DEF EntryRow, MaybeUnit
  <2> HIDE DEF row
  <2>3. EntriesFine'
    BY <2>1, <2>2, WriteEntry
  <2> QED
    BY <2>1, <2>3, ReleasedType
<1> QED
  BY <1>1, <1>2

(* What a step leaves alone stays fine.                                     *)
LEMMA Kept ==
    /\ ReservationsFine /\ UNCHANGED res => ReservationsFine'
    /\ EntriesFine /\ UNCHANGED entry => EntriesFine'
    /\ BookingsFine /\ UNCHANGED booking => BookingsFine'
    /\ HistoryFine /\ UNCHANGED <<slip, stops>> => HistoryFine'
    /\ unit \in UnitType /\ UNCHANGED unit => unit' \in UnitType
BY DEF ReservationsFine, Open, EntriesFine, BookingsFine, BookingsInv, HistoryFine

LEMMA ReservedType ==
    ASSUME unit \in UnitType, NEW u
    PROVE  Reserved(u) \in UnitType
BY DEF Reserved, UnitType, UnitStatus

LEMMA StopCounted ==
    ASSUME stops \in 0..MaxStops, stops < MaxStops
    PROVE  stops + 1 \in 0..MaxStops
BY OccupancyAssumption

LEMMA ContractStepInv ==
    ASSUME OccupancyInv, NEW c \in Contracts, ContractStep(c)
    PROVE  OccupancyInv'
<1>a. /\ unit \in UnitType /\ ContractsFine /\ ReservationsFine /\ EntriesFine
      /\ BookingsFine /\ DraftsInv /\ RequestsFine /\ HistoryFine
  BY DEF OccupancyInv
<1>b. booking[c] \in BookingRow /\ (booking[c].pc # "none" => booking[c].unit \in Units)
  BY <1>a DEF BookingsFine, BookingsInv
<1>k. ASSUME UNCHANGED booking, Persist PROVE DraftsInv'
  BY <1>a, <1>k, DraftsKept
<1>w. ASSUME NEW row, booking' = [booking EXCEPT ![c] = row], Persist,
             row.pc # "drafted" \/ contract'[c].status # "none"
      PROVE  DraftsInv'
  <2>1. booking'[c] = row /\ \A d \in Contracts \ {c} : booking'[d] = booking[d]
    BY <1>a, <1>w DEF BookingsFine
  <2> QED
    BY <1>a, <1>w, <2>1, DraftsKept
<1>q. ASSUME UNCHANGED req, ContractsFine' /\ Persist, unit' \in UnitType, ReservationsFine',
             EntriesFine', BookingsFine' /\ DraftsInv', HistoryFine'
      PROVE  OccupancyInv'
  BY <1>a, <1>q, RequestsKept DEF OccupancyInv
<1>1. ASSUME NEW u \in Units, CreateDraft(c, u) PROVE OccupancyInv'
  <2>1. NewDraft(c, u) /\ UNCHANGED <<unit, res, entry, req, booking, slip, stops>>
    BY <1>1 DEF CreateDraft
  <2> QED
    BY <1>a, <1>k, <1>q, <2>1, NewDraftFine, Kept
<1>2. ASSUME NEW u \in Units, Hold(c, u) PROVE OccupancyInv'
  <2> DEFINE row == [pc |-> "held", unit |-> u, entry |-> NoOne]
  <2>1. /\ unit' = [unit EXCEPT ![u] = "reserved"] /\ booking' = [booking EXCEPT ![c] = row]
        /\ UNCHANGED <<contract, res, entry, req, slip, stops>>
    BY <1>2 DEF Hold
  <2>2. row \in BookingRow /\ row.unit = u /\ row.pc = "held"
    BY DEF BookingRow, MaybeUnit
  <2> HIDE DEF row
  <2>3. unit' \in UnitType
    BY <1>a, <2>1 DEF UnitType, UnitStatus
  <2> QED
    BY <1>a, <1>w, <1>q, <2>1, <2>2, <2>3, KeptContracts, WriteBooking, Kept
<1>3. ASSUME NEW r \in Reservations, ConvertReservation(c, r) PROVE OccupancyInv'
  <2>0. res[r] \in ReservationRow /\ res[r].unit \in Units
    BY <1>a, <1>3 DEF ConvertReservation, ReservationsFine
  <2> DEFINE row == [res[r] EXCEPT !.status = "converted", !.contract = c]
  <2>1. row \in ReservationRow /\ row.status \notin OpenRes
    BY <2>0 DEF ReservationRow, OpenRes
  <2>2. /\ res' = [res EXCEPT ![r] = row] /\ NewDraft(c, res[r].unit)
        /\ UNCHANGED <<unit, entry, req, booking, slip, stops>>
    BY <1>3 DEF ConvertReservation
  <2> HIDE DEF row
  <2> QED
    BY <1>a, <1>k, <1>q, <2>0, <2>1, <2>2, NewDraftFine, WriteReservation, Kept
<1>4. ASSUME NEW e \in Entries, HoldByToken(c, e) PROVE OccupancyInv'
  <2> DEFINE row == [pc |-> "held", unit |-> entry[e].held, entry |-> e]
  <2>0. entry[e].held \in Units
    BY <1>a, <1>4 DEF HoldByToken, Notified, EntriesFine
  <2>1. /\ booking' = [booking EXCEPT ![c] = row]
        /\ UNCHANGED <<unit, contract, res, entry, req, slip, stops>>
    BY <1>4 DEF HoldByToken
  <2>2. row \in BookingRow /\ row.unit \in Units /\ row.pc = "held"
    BY <2>0 DEF BookingRow, MaybeUnit
  <2> HIDE DEF row
  <2> QED
    BY <1>a, <1>w, <1>q, <2>1, <2>2, KeptContracts, WriteBooking, Kept
<1>5. ASSUME NEW e \in Entries, NEW u \in Units, DraftFromEntry(c, e, u) PROVE OccupancyInv'
  <2>1. /\ NewDraft(c, u) /\ EntryConverted(c, e, u)
        /\ UNCHANGED <<res, req, booking, slip, stops>>
    BY <1>5 DEF DraftFromEntry
  <2> QED
    BY <1>a, <1>k, <1>q, <2>1, NewDraftFine, EntryConvertedFine, Kept
<1>6. CASE BookingDraft(c)
  <2> DEFINE row == [booking[c] EXCEPT !.pc = "drafted"]
             u == booking[c].unit
  <2>1. /\ NewDraft(c, u) /\ EntryConverted(c, booking[c].entry, u)
        /\ booking' = [booking EXCEPT ![c] = row] /\ u \in Units
        /\ UNCHANGED <<res, req, slip, stops>>
    BY <1>b, <1>6 DEF BookingDraft
  <2>2. row \in BookingRow /\ row.unit \in Units
    BY <1>b, <2>1 DEF BookingRow
  <2>3. contract'[c].status # "none"
    BY <1>a, <2>1 DEF NewDraft, NoRow, ContractsFine
  <2> HIDE DEF row, u
  <2> QED
    BY <1>a, <1>w, <1>q, <2>1, <2>2, <2>3, NewDraftFine, EntryConvertedFine, WriteBooking, Kept
<1>7. CASE BookingFails(c)
  <2>1. /\ booking' = [booking EXCEPT ![c] = NoBooking]
        /\ UNCHANGED <<contract, res, entry, req, stops>>
        /\ unit' \in {unit, [unit EXCEPT ![booking[c].unit] = "available"]}
        /\ slip' \in {slip, Mark("window", {booking[c].unit})}
    BY <1>7 DEF BookingFails
  <2>2. unit' \in UnitType
    BY <1>a, <2>1 DEF UnitType, UnitStatus
  <2>3. HistoryFine'
    BY <1>a, <2>1, MarkType DEF HistoryFine, SlipKinds
  <2> QED
    BY <1>a, <1>w, <1>q, <2>1, <2>2, <2>3, KeptContracts, NoBookingFine, Kept DEF NoBooking
<1>8. CASE BookingDeadline(c)
  <2>1. /\ contract' = [contract EXCEPT ![c].deadline = "open"]
        /\ booking' = [booking EXCEPT ![c] = NoBooking]
        /\ slip' \in {slip, Mark("window", {booking[c].unit})}
        /\ UNCHANGED <<unit, res, entry, req, stops>>
        /\ booking[c].pc = "drafted"
    BY <1>8 DEF BookingDeadline
  <2>2. contract[c].status # "none"
    BY <1>a, <2>1 DEF DraftsInv
  <2>3. HistoryFine'
    BY <1>a, <2>1, MarkType DEF HistoryFine, SlipKinds
  <2> QED
    BY <1>a, <1>w, <1>q, <2>1, <2>2, <2>3, DeadlineFine, NoBookingFine, Kept DEF NoBooking
<1>9. CASE BookingStops(c)
  <2>1. /\ booking' = [booking EXCEPT ![c] = NoBooking]
        /\ slip' = Mark("left", {booking[c].unit}) /\ stops < MaxStops /\ stops' = stops + 1
        /\ UNCHANGED <<unit, contract, res, entry, req>>
    BY <1>9 DEF BookingStops
  <2>2. HistoryFine'
    BY <1>a, <2>1, MarkType, StopCounted DEF HistoryFine, SlipKinds
  <2> QED
    BY <1>a, <1>w, <1>q, <2>1, <2>2, KeptContracts, NoBookingFine, Kept DEF NoBooking
<1>10. CASE DeadlinePasses(c)
  <2>1. /\ contract' = [contract EXCEPT ![c].deadline = "past"] /\ contract[c].status # "none"
        /\ UNCHANGED <<unit, res, entry, req, booking, slip, stops>>
    BY <1>10 DEF DeadlinePasses, Draft
  <2> QED
    BY <1>a, <1>k, <1>q, <2>1, DeadlineFine, Kept
<1> QED
  BY <1>1, <1>2, <1>3, <1>4, <1>5, <1>6, <1>7, <1>8, <1>9, <1>10 DEF ContractStep

LEMMA ReservationStepInv ==
    ASSUME OccupancyInv, NEW r \in Reservations, ReservationStep(r)
    PROVE  OccupancyInv'
<1>a. /\ unit \in UnitType /\ ContractsFine /\ ReservationsFine /\ EntriesFine
      /\ BookingsFine /\ DraftsInv /\ RequestsFine /\ HistoryFine /\ res[r] \in ReservationRow
  BY DEF OccupancyInv, ReservationsFine
<1>b. UNCHANGED <<contract, entry, req, booking, stops>>
  BY DEF ReservationStep, CreateReservation, Confirm, DuePasses, CloseReservation
<1>q. ASSUME unit' \in UnitType, slip' \in SlipType, ReservationsFine' PROVE OccupancyInv'
  <2>1. HistoryFine'
    BY <1>a, <1>b, <1>q DEF HistoryFine
  <2>2. ContractsFine' /\ RequestsFine' /\ DraftsInv'
    BY <1>a, <1>b, KeptContracts, RequestsKept, DraftsKept
  <2> QED
    BY <1>a, <1>b, <1>q, <2>1, <2>2, Kept DEF OccupancyInv
<1>c. slip \in SlipType
  BY <1>a DEF HistoryFine
<1>1. ASSUME NEW u \in Units, NEW who \in Customers, NEW confirmed \in BOOLEAN,
             CreateReservation(r, u, who, confirmed)
      PROVE  OccupancyInv'
  <2> DEFINE st  == IF confirmed THEN "confirmed" ELSE "pending"
             row == [res[r] EXCEPT !.status = st, !.unit = u, !.who = who]
  <2>1. row \in ReservationRow /\ row.unit \in Units /\ row.who \in Customers
    BY <1>a DEF ReservationRow, OpenRes, MaybeUnit
  <2>2. res' = [res EXCEPT ![r] = row] /\ unit' \in {unit, Reserved(u)} /\ slip' = slip
    BY <1>1 DEF CreateReservation
  <2> HIDE DEF row
  <2> QED
    BY <1>a, <1>c, <1>q, <2>1, <2>2, WriteReservation, ReservedType
<1>2. CASE Confirm(r)
  <2> DEFINE row == [res[r] EXCEPT !.status = "confirmed"]
  <2>1. row \in ReservationRow /\ row.unit \in Units /\ row.who \in Customers
    BY <1>a, <1>2 DEF ReservationRow, OpenRes, Confirm, ReservationsFine, Open
  <2>2. res' = [res EXCEPT ![r] = row] /\ unit' = Reserved(res[r].unit) /\ slip' = slip
    BY <1>2 DEF Confirm
  <2> HIDE DEF row
  <2> QED
    BY <1>a, <1>c, <1>q, <2>1, <2>2, WriteReservation, ReservedType
<1>3. CASE DuePasses(r)
  <2> DEFINE row == [res[r] EXCEPT !.due = TRUE]
  <2>1. row \in ReservationRow /\ row.unit \in Units /\ row.who \in Customers
    BY <1>a, <1>3 DEF ReservationRow, DuePasses, ReservationsFine
  <2>2. res' = [res EXCEPT ![r] = row] /\ unit' = unit /\ slip' = slip
    BY <1>3 DEF DuePasses
  <2> HIDE DEF row
  <2> QED
    BY <1>a, <1>c, <1>q, <2>1, <2>2, WriteReservation
<1>4. CASE CloseReservation(r)
  <2> DEFINE row == [NoReservation EXCEPT !.status = "closed"]
  <2>1. row \in ReservationRow /\ row.status \notin OpenRes
    BY DEF ReservationRow, NoReservation, OpenRes, MaybeUnit
  <2>2. /\ res' = [res EXCEPT ![r] = row]
        /\ unit' \in {unit, Released(unit, res[r].unit, NoContract, r)}
        /\ slip' \in {slip, Mark("left", {res[r].unit})}
    BY <1>4 DEF CloseReservation
  <2> HIDE DEF row
  <2> QED
    BY <1>a, <1>c, <1>q, <2>1, <2>2, WriteReservation, ReleasedType, MarkType DEF SlipKinds
<1> QED
  BY <1>1, <1>2, <1>3, <1>4 DEF ReservationStep

LEMMA EntryStepInv ==
    ASSUME OccupancyInv, NEW e \in Entries, EntryStep(e)
    PROVE  OccupancyInv'
<1>a. /\ unit \in UnitType /\ ContractsFine /\ ReservationsFine /\ EntriesFine
      /\ BookingsFine /\ DraftsInv /\ RequestsFine /\ HistoryFine /\ entry[e] \in EntryRow
  BY DEF OccupancyInv, EntriesFine
<1>b. UNCHANGED <<contract, res, req, booking>>
  BY DEF EntryStep, Notify, ExpireEntry, FreeUnit, FreeStops, ResolveEntry
<1>q. ASSUME unit' \in UnitType, EntriesFine', HistoryFine' PROVE OccupancyInv'
  <2>1. ContractsFine' /\ RequestsFine' /\ DraftsInv'
    BY <1>a, <1>b, KeptContracts, RequestsKept, DraftsKept
  <2> QED
    BY <1>a, <1>b, <1>q, <2>1, Kept DEF OccupancyInv
<1>1. ASSUME NEW u \in Units, Notify(e, u) PROVE OccupancyInv'
  <2> DEFINE row == [entry[e] EXCEPT !.status = "notified", !.held = u]
  <2>1. row \in EntryRow /\ row.held \in Units
    BY <1>a DEF EntryRow, MaybeUnit
  <2>2. entry' = [entry EXCEPT ![e] = row] /\ unit' = Reserved(u) /\ UNCHANGED <<slip, stops>>
    BY <1>1 DEF Notify
  <2> HIDE DEF row
  <2> QED
    BY <1>a, <1>q, <2>1, <2>2, WriteEntry, ReservedType, Kept
<1>2. CASE ExpireEntry(e)
  <2> DEFINE row == [entry[e] EXCEPT !.status = "expired"]
  <2>1. row \in EntryRow /\ row.held \in Units
    BY <1>a, <1>2 DEF EntryRow, ExpireEntry, Notified, EntriesFine
  <2>2. entry' = [entry EXCEPT ![e] = row] /\ UNCHANGED <<unit, slip, stops>>
    BY <1>2 DEF ExpireEntry
  <2> HIDE DEF row
  <2> QED
    BY <1>a, <1>q, <2>1, <2>2, WriteEntry, Kept
<1>3. CASE FreeUnit(e)
  <2>1. /\ entry' = [entry EXCEPT ![e] = ClosedEntry] /\ UNCHANGED <<slip, stops>>
        /\ unit' = Released(unit, entry[e].held, NoContract, NoOne)
    BY <1>3 DEF FreeUnit
  <2> QED
    BY <1>a, <1>q, <2>1, ClosedEntryType, WriteEntry, ReleasedType, Kept DEF ClosedEntry
<1>4. CASE FreeStops(e)
  <2>1. /\ entry' = [entry EXCEPT ![e] = ClosedEntry] /\ unit' = unit
        /\ slip' = Mark("left", {entry[e].held}) /\ stops < MaxStops /\ stops' = stops + 1
    BY <1>4 DEF FreeStops
  <2>2. HistoryFine'
    BY <1>a, <2>1, MarkType, StopCounted DEF HistoryFine, SlipKinds
  <2> QED
    BY <1>a, <1>q, <2>1, <2>2, ClosedEntryType, WriteEntry DEF ClosedEntry
<1>5. ASSUME NEW status \in {"converted", "cancelled"}, ResolveEntry(e, status)
      PROVE  OccupancyInv'
  <2>0. UNCHANGED <<slip, stops>>
    BY <1>5 DEF ResolveEntry
  <2>1. CASE \E c \in Contracts :
               /\ entry' = [entry EXCEPT ![e].status = "converted", ![e].contract = c]
               /\ unit' = unit
    <3>1. PICK c \in Contracts :
               /\ entry' = [entry EXCEPT ![e].status = "converted", ![e].contract = c]
               /\ unit' = unit
      BY <2>1
    <3> DEFINE row == [entry[e] EXCEPT !.status = "converted", !.contract = c]
    <3>2. row \in EntryRow /\ row.status = "converted"
      BY <1>a DEF EntryRow
    <3>3. entry' = [entry EXCEPT ![e] = row]
      BY <3>1
    <3> HIDE DEF row
    <3> QED
      BY <1>a, <1>q, <2>0, <3>1, <3>2, <3>3, WriteEntry, Kept
  <2>2. CASE /\ entry' = [entry EXCEPT ![e] = ClosedEntry]
             /\ unit' = Released(unit, entry[e].held, NoContract, e)
    BY <1>a, <1>q, <2>0, <2>2, ClosedEntryType, WriteEntry, ReleasedType, Kept DEF ClosedEntry
  <2> QED
    BY <1>5, <2>1, <2>2 DEF ResolveEntry
<1> QED
  BY <1>1, <1>2, <1>3, <1>4, <1>5 DEF EntryStep

LEMMA StatusStepInv ==
    ASSUME OccupancyInv, NEW u \in Units, ChangeStatus(u)
    PROVE  OccupancyInv'
<1>a. /\ unit \in UnitType /\ ContractsFine /\ ReservationsFine /\ EntriesFine
      /\ BookingsFine /\ DraftsInv /\ RequestsFine /\ HistoryFine
  BY DEF OccupancyInv
<1>b. UNCHANGED <<contract, res, entry, req, booking, slip, stops>>
  BY DEF ChangeStatus
<1>1. unit[u] \in UnitStatus
  BY <1>a DEF UnitType
<1>2. \A to \in ByHand[unit[u]] : to \in UnitStatus
  BY <1>1 DEF ByHand, UnitStatus
<1>3. unit' \in UnitType
  BY <1>a, <1>2, ReservedType DEF ChangeStatus, UnitType
<1>4. ContractsFine' /\ RequestsFine' /\ DraftsInv'
  BY <1>a, <1>b, KeptContracts, RequestsKept, DraftsKept
<1> QED
  BY <1>a, <1>b, <1>3, <1>4, Kept DEF OccupancyInv

LEMMA InitInv == Init => OccupancyInv
<1> SUFFICES ASSUME Init PROVE OccupancyInv
  OBVIOUS
<1>1. unit \in UnitType /\ HistoryFine
  BY OccupancyAssumption DEF Init, UnitType, UnitStatus, HistoryFine, SlipType
<1>2. ContractsFine
  BY OccupancyAssumption DEF Init, ContractsFine, NoRow, Row, MaybeUnit
<1>3. ReservationsFine
  BY DEF Init, ReservationsFine, Open, OpenRes, NoReservation, ReservationRow, MaybeUnit
<1>4. EntriesFine
  BY DEF Init, EntriesFine, ClosedEntry, EntryRow, MaybeUnit
<1>5. BookingsFine
  BY DEF Init, BookingsFine, BookingsInv, NoBooking, BookingRow, MaybeUnit
<1>8. DraftsInv
  BY DEF Init, DraftsInv, NoBooking
<1>6. NoRequest \in RequestRow
  BY DEF NoRequest, NoRow, RequestRow, Row, MaybeUnit
<1>7. RequestsFine
  BY <1>6 DEF Init, RequestsFine, RequestsInv
<1> QED
  BY <1>1, <1>2, <1>3, <1>4, <1>5, <1>7, <1>8 DEF OccupancyInv

LEMMA StepInv ==
    ASSUME OccupancyInv, [Next]_vars
    PROVE  OccupancyInv'
<1>1. CASE UNCHANGED vars
  <2>1. ContractsFine' /\ RequestsFine' /\ DraftsInv'
    BY <1>1, KeptContracts, RequestsKept, DraftsKept DEF vars, OccupancyInv
  <2> QED
    BY <1>1, <2>1, Kept DEF vars, OccupancyInv
<1> QED
  BY <1>1, RequestStepInv, ContractStepInv, ReservationStepInv, EntryStepInv, StatusStepInv
  DEF Next

LEMMA OccupancyInvariant == Spec => []OccupancyInv
BY InitInv, StepInv, PTL DEF Spec

(* Statuses stay in their enumerations and rows keep naming units that     *)
(* exist, whatever requests, bookings and notices run and stop.            *)
THEOREM OccupancyTypes == Spec => []OccupancyTypeOK
BY OccupancyInvariant, InvTypes, PTL

-----------------------------------------------------------------------------
(* No unit is rented twice.                                                *)

LEMMA WriteLive ==
    ASSUME OneLiveContract, ContractsFine, NEW c \in Contracts, NEW row,
           contract' = [contract EXCEPT ![c] = row],
           row.status \in LiveStatus =>
               \A d \in Contracts \ {c} : Live(d) => contract[d].unit # row.unit
    PROVE  OneLiveContract'
<1>1. contract'[c] = row /\ \A d \in Contracts \ {c} : contract'[d] = contract[d]
  BY DEF ContractsFine
<1> QED
  BY <1>1 DEF OneLiveContract, Live

(* The row that a request writes: what stays of it, and what the index     *)
(* has checked when it is a live one.                                      *)
LEMMA PerformWrites ==
    ASSUME OccupancyInv, NEW x, SoundRequest(x), Perform(x)
    PROVE  \E row \in Row :
              /\ contract' = [contract EXCEPT ![x.c] = row]
              /\ x.op = "changeUnit" => row.status = contract[x.c].status /\ row.unit = x.to
              /\ x.op # "changeUnit" => row.unit = contract[x.c].unit
              /\ x.op = "sign" => row.status = "active"
              /\ x.op \in {"requestEnd", "reactivate"} => row.status \in LiveStatus
              /\ x.op \in {"end", "cancel"} => row.status = "closed"
              /\ x.op \in {"schedule", "cancelMove"} => row.status = contract[x.c].status
              /\ x.op \in {"sign", "requestEnd", "reactivate", "changeUnit"}
                    /\ row.status \in LiveStatus => IndexAllows(x.c, row.unit)
<1> DEFINE c == x.c
<1>a. c \in Contracts /\ contract[c] \in Row /\ contract \in [Contracts -> Row]
  BY DEF OccupancyInv, ContractsFine, SoundRequest
<1>b. x.to \in MaybeUnit
  BY DEF SoundRequest
<1> HIDE DEF c
<1>1. CASE Sign(x)
  <2> DEFINE row == [contract[c] EXCEPT !.status = "active", !.deadline = "none"]
  <2>1. row \in Row /\ row.status = "active" /\ row.unit = contract[c].unit
    BY <1>a DEF Row, LiveStatus
  <2>2. contract' = [contract EXCEPT ![c] = row] /\ x.op = "sign"
        /\ IndexAllows(c, contract[c].unit)
    BY <1>1, <1>a DEF Sign, c
  <2> HIDE DEF row
  <2> QED
    BY <2>1, <2>2 DEF c
<1>2. CASE SetStatus(x)
  <2> DEFINE st  == IF x.op = "requestEnd" THEN "ending" ELSE "active"
             row == [contract[c] EXCEPT !.status = st]
  <2>1. row \in Row /\ row.status \in LiveStatus /\ row.unit = contract[c].unit
    BY <1>a DEF Row, LiveStatus
  <2>2. contract' = [contract EXCEPT ![c] = row] /\ x.op \in {"requestEnd", "reactivate"}
        /\ IndexAllows(c, contract[c].unit)
    BY <1>2, <1>a DEF SetStatus, c
  <2> HIDE DEF row
  <2> QED
    BY <2>1, <2>2 DEF c
<1>3. CASE End(x) \/ Cancel(x)
  <2> DEFINE row == [contract[c] EXCEPT !.status = "closed", !.move = NoUnit,
                                        !.deadline = "none"]
  <2>1. row \in Row /\ row.status = "closed" /\ row.unit = contract[c].unit
    BY <1>a DEF Row, MaybeUnit
  <2>2. contract' = [contract EXCEPT ![c] = row] /\ x.op \in {"end", "cancel"}
    BY <1>3, <1>a DEF End, Cancel, Closed, c
  <2> HIDE DEF row
  <2> QED
    BY <2>1, <2>2 DEF c
<1>4. CASE ChangeUnit(x)
  <2> DEFINE row == [contract[c] EXCEPT !.unit = x.to, !.move = NoUnit]
  <2>1. row \in Row /\ row.status = contract[c].status /\ row.unit = x.to
    BY <1>a, <1>b DEF Row, MaybeUnit
  <2>2. contract' = [contract EXCEPT ![c] = row] /\ x.op = "changeUnit"
        /\ (Live(c) => IndexAllows(c, x.to))
    BY <1>4, <1>a DEF ChangeUnit, c
  <2> HIDE DEF row
  <2> QED
    BY <2>1, <2>2 DEF c, Live
<1>5. CASE ScheduleMove(x) \/ CancelScheduledMove(x)
  <2> DEFINE move == IF x.op = "schedule" THEN x.to ELSE NoUnit
             row == [contract[c] EXCEPT !.move = move]
  <2>1. row \in Row /\ row.status = contract[c].status /\ row.unit = contract[c].unit
    BY <1>a, <1>b DEF Row, MaybeUnit
  <2>2. contract' = [contract EXCEPT ![c] = row] /\ x.op \in {"schedule", "cancelMove"}
    BY <1>5, <1>a DEF ScheduleMove, CancelScheduledMove, c
  <2> HIDE DEF row
  <2> QED
    BY <2>1, <2>2 DEF c
<1> QED
  BY <1>1, <1>2, <1>3, <1>4, <1>5 DEF Perform

LEMMA PerformOneLive ==
    ASSUME OccupancyInv, OneLiveContract, NEW x, SoundRequest(x), Perform(x)
    PROVE  OneLiveContract'
<1> DEFINE c == x.c
<1>a. c \in Contracts /\ ContractsFine /\ x.op \in DOMAIN AllowedFrom
  BY DEF OccupancyInv, SoundRequest
<1>1. PICK row \in Row :
         /\ contract' = [contract EXCEPT ![c] = row]
         /\ x.op = "changeUnit" => row.status = contract[c].status /\ row.unit = x.to
         /\ x.op # "changeUnit" => row.unit = contract[c].unit
         /\ x.op \in {"end", "cancel"} => row.status = "closed"
         /\ x.op \in {"schedule", "cancelMove"} => row.status = contract[c].status
         /\ x.op \in {"sign", "requestEnd", "reactivate", "changeUnit"}
               /\ row.status \in LiveStatus => IndexAllows(c, row.unit)
  BY PerformWrites
<1> HIDE DEF c
<1>2. ASSUME row.status \in LiveStatus
      PROVE  \A d \in Contracts \ {c} : Live(d) => contract[d].unit # row.unit
  <2>1. CASE x.op \in {"sign", "requestEnd", "reactivate", "changeUnit"}
    BY <1>1, <1>2, <2>1 DEF IndexAllows
  <2>2. CASE x.op \in {"end", "cancel"}
    BY <1>1, <1>2, <2>2 DEF LiveStatus
  <2>3. CASE x.op \in {"schedule", "cancelMove"}
    BY <1>1, <1>2, <1>a, <2>3 DEF OneLiveContract, Live
  <2> QED
    BY <1>a, <2>1, <2>2, <2>3, Operations
<1> QED
  BY <1>1, <1>2, <1>a, WriteLive

(* Every other step leaves the live contracts as they are.                 *)
LivesKept ==
    \A d \in Contracts :
        /\ Live(d)' <=> Live(d)
        /\ Live(d) => contract'[d].unit = contract[d].unit

OtherStep ==
    \/ \E c \in Contracts : ContractStep(c)
    \/ \E r \in Reservations : ReservationStep(r)
    \/ \E e \in Entries : EntryStep(e)
    \/ \E u \in Units : ChangeStatus(u)

LEMMA OtherStepLives ==
    ASSUME OccupancyInv, OtherStep
    PROVE  LivesKept
<1>a. contract \in [Contracts -> Row]
  BY DEF OccupancyInv, ContractsFine
<1>1. CASE UNCHANGED contract
  BY <1>1 DEF LivesKept, Live
<1>2. ASSUME NEW c \in Contracts, NEW u, NewDraft(c, u) PROVE LivesKept
  <2>1. contract[c].status = "none" /\ contract'[c].status = "draft"
        /\ \A d \in Contracts \ {c} : contract'[d] = contract[d]
    BY <1>2, <1>a DEF NewDraft, NoRow
  <2> QED
    BY <2>1 DEF LivesKept, Live, LiveStatus
<1>3. ASSUME NEW c \in Contracts, NEW deadline,
             contract' = [contract EXCEPT ![c].deadline = deadline]
      PROVE  LivesKept
  <2>1. contract'[c].status = contract[c].status /\ contract'[c].unit = contract[c].unit
        /\ \A d \in Contracts \ {c} : contract'[d] = contract[d]
    BY <1>3, <1>a DEF Row
  <2> QED
    BY <2>1 DEF LivesKept, Live
<1>4. ASSUME NEW c \in Contracts, ContractStep(c) PROVE LivesKept
  BY <1>1, <1>2, <1>3, <1>4 DEF ContractStep, CreateDraft, Hold, ConvertReservation, HoldByToken,
     DraftFromEntry, BookingDraft, BookingFails, BookingDeadline, BookingStops, DeadlinePasses
<1>5. ASSUME NEW r \in Reservations, ReservationStep(r) PROVE LivesKept
  BY <1>1, <1>5 DEF ReservationStep, CreateReservation, Confirm, DuePasses, CloseReservation
<1>6. ASSUME NEW e \in Entries, EntryStep(e) PROVE LivesKept
  BY <1>1, <1>6 DEF EntryStep, Notify, ExpireEntry, FreeUnit, FreeStops, ResolveEntry
<1>7. ASSUME NEW u \in Units, ChangeStatus(u) PROVE LivesKept
  BY <1>1, <1>7 DEF ChangeStatus
<1> QED
  BY <1>4, <1>5, <1>6, <1>7 DEF OtherStep

LEMMA NextCases ==
    ASSUME [Next]_vars
    PROVE  RequestStep \/ OtherStep \/ UNCHANGED vars
BY DEF Next, OtherStep

(* A request performs its operation, or changes nothing but req.           *)
LEMMA RequestPerforms ==
    ASSUME OccupancyInv, RequestStep
    PROVE  \/ \E x : SoundRequest(x) /\ Perform(x)
           \/ UNCHANGED <<unit, contract, slip>>
<1>a. ContractsFine /\ RequestsFine
  BY DEF OccupancyInv
<1>1. ASSUME NEW op \in DOMAIN AllowedFrom, NEW c \in Contracts, NEW to \in MaybeUnit,
             Run(Request(op, c, to))
      PROVE  \E x : SoundRequest(x) /\ Perform(x)
  BY <1>a, <1>1, PossibleIsSound DEF Run
<1>2. ASSUME NEW q \in Requests, Do(q)
      PROVE  \E x : SoundRequest(x) /\ Perform(x)
  BY <1>a, <1>2 DEF Do, RequestsFine, RequestsInv
<1>3. ASSUME NEW q \in Requests, NEW x, Begin(q, x) \/ Fails(q)
      PROVE  UNCHANGED <<unit, contract, slip>>
  BY <1>3 DEF Begin, Fails
<1> QED
  BY <1>1, <1>2, <1>3 DEF RequestStep

LEMMA StepOneLive ==
    ASSUME OccupancyInv, OneLiveContract, [Next]_vars
    PROVE  OneLiveContract'
<1>1. CASE UNCHANGED contract
  BY <1>1 DEF OneLiveContract, Live
<1>2. CASE RequestStep
  BY <1>1, <1>2, RequestPerforms, PerformOneLive
<1>3. CASE OtherStep
  BY <1>3, OtherStepLives DEF LivesKept, OneLiveContract
<1> QED
  BY <1>1, <1>2, <1>3, NextCases DEF vars

LEMMA InitOneLive == Init => OneLiveContract
BY DEF Init, OneLiveContract, Live, NoRow, LiveStatus

(* No unit is rented by two contracts, however many requests write from    *)
(* what they read before another one changed the contract.                 *)
THEOREM OccupancyOneLiveContract == Spec => []OneLiveContract
BY InitInv, StepInv, InitOneLive, StepOneLive, PTL DEF Spec

-----------------------------------------------------------------------------
(* A unit says 'occupied' exactly while it is rented.                      *)
LEMMA MarkKeeps ==
    ASSUME NEW kind, NEW us, NEW u \in Units, slip' = Mark(kind, us),
           "outdated" \notin slip'[u]
    PROVE  "outdated" \notin slip[u] /\ (kind = "outdated" => u \notin us)
BY DEF Mark, Marked

LEMMA ReleasedOccupied ==
    ASSUME NEW f \in UnitType, NEW v, NEW c, NEW y, NEW u \in Units
    PROVE  Released(f, v, c, y)[u] = "occupied" <=> f[u] = "occupied"
BY DEF Released, UnitType

LEMMA VacatedOccupied ==
    ASSUME unit \in UnitType, NEW v, NEW u \in Units
    PROVE  /\ u # v => Vacated(v)[u] = unit[u]
           /\ u = v => Vacated(v)[u] # "occupied"
BY DEF Vacated, UnitType

(* What each operation does to the units 'occupied'.                       *)
LEMMA PerformOccupied ==
    ASSUME OccupancyInv, NEW x, SoundRequest(x), Perform(x), NEW u \in Units
    PROVE  /\ u \notin {x.row.unit, x.to} => (unit'[u] = "occupied" <=> unit[u] = "occupied")
           /\ x.op = "sign" /\ u = x.row.unit => unit'[u] = "occupied"
           /\ x.op \in {"requestEnd", "reactivate", "schedule", "cancelMove"} =>
                 (unit'[u] = "occupied" <=> unit[u] = "occupied")
           /\ x.op = "cancel" /\ x.row.status \notin LiveStatus =>
                 (unit'[u] = "occupied" <=> unit[u] = "occupied")
           /\ x.op = "end" /\ u = x.row.unit => unit'[u] # "occupied"
           /\ x.op = "cancel" /\ u = x.row.unit /\ x.row.status \in LiveStatus =>
                 unit'[u] # "occupied"
           /\ x.op \in {"sign", "end", "cancel"} /\ u # x.row.unit =>
                 (unit'[u] = "occupied" <=> unit[u] = "occupied")
           /\ x.op = "changeUnit" /\ u = x.to => unit'[u] = "occupied"
           /\ x.op = "changeUnit" /\ u = x.row.unit => unit'[u] # "occupied"
<1>a. unit \in UnitType
  BY DEF OccupancyInv
<1>b. x.row.unit \in Units
  BY DEF SoundRequest
<1>1. CASE Sign(x)
  <2>1. unit' = [unit EXCEPT ![x.row.unit] = "occupied"] /\ x.op = "sign"
    BY <1>1 DEF Sign
  <2> QED
    BY <1>a, <1>b, <2>1 DEF UnitType
<1>2. CASE SetStatus(x)
  BY <1>2 DEF SetStatus
<1>3. CASE End(x)
  <2>1. unit' = Released(Vacated(x.row.unit), x.row.move, x.c, NoOne) /\ x.op = "end"
    BY <1>3 DEF End
  <2>2. Vacated(x.row.unit) \in UnitType
    BY <1>a, VacatedType
  <2>3. unit'[u] = "occupied" <=> Vacated(x.row.unit)[u] = "occupied"
    BY <2>1, <2>2, ReleasedOccupied
  <2> QED
    BY <1>a, <2>1, <2>3, VacatedOccupied
<1>4. CASE Cancel(x)
  <2> DEFINE base == IF x.row.status \in LiveStatus /\ unit[x.row.unit] = "occupied"
                     THEN Vacated(x.row.unit)
                     ELSE IF CancelHeld(x.c, x.row)
                          THEN Released(unit, x.row.unit, x.c, NoOne) ELSE unit
  <2>1. unit' = Released(base, x.row.move, x.c, NoOne) /\ x.op = "cancel"
    BY <1>4 DEF Cancel
  <2>2. base \in UnitType
    BY <1>a, VacatedType, ReleasedType
  <2>3. x.row.status \in LiveStatus /\ u = x.row.unit => base[u] # "occupied"
    BY <1>a, ReleasedOccupied, VacatedOccupied
  <2>4. x.row.status \notin LiveStatus \/ u # x.row.unit =>
           (base[u] = "occupied" <=> unit[u] = "occupied")
    BY <1>a, ReleasedOccupied, VacatedOccupied
  <2> HIDE DEF base
  <2>5. unit'[u] = "occupied" <=> base[u] = "occupied"
    BY <2>1, <2>2, ReleasedOccupied
  <2> QED
    BY <2>1, <2>3, <2>4, <2>5
<1>5. CASE ChangeUnit(x)
  <2>1. x.op = "changeUnit" /\ x.to \in Units \ {x.row.unit}
    BY <1>5 DEF ChangeUnit, SoundRequest
  <2>2. unit' = [unit EXCEPT ![x.to] = "occupied",
                             ![x.row.unit] = IF @ \in {"occupied", "reserved"}
                                             THEN "available" ELSE @]
    BY <1>5 DEF ChangeUnit
  <2> QED
    BY <1>a, <1>b, <2>1, <2>2 DEF UnitType
<1>6. CASE ScheduleMove(x)
  <2>1. /\ unit[x.to] = "available" /\ unit' = [unit EXCEPT ![x.to] = "reserved"]
        /\ x.op = "schedule"
    BY <1>6 DEF ScheduleMove
  <2> QED
    BY <1>a, <2>1 DEF UnitType
<1>7. CASE CancelScheduledMove(x)
  <2>1. unit' = Released(unit, x.row.move, x.c, NoOne) /\ x.op = "cancelMove"
    BY <1>7 DEF CancelScheduledMove
  <2> QED
    BY <1>a, <2>1, ReleasedOccupied
<1> QED
  BY <1>1, <1>2, <1>3, <1>4, <1>5, <1>6, <1>7 DEF Perform

LEMMA PerformAgrees ==
    ASSUME OccupancyInv, OneLiveContract, UnitTellsTheTruth, NEW x, SoundRequest(x), Perform(x)
    PROVE  UnitTellsTheTruth'
<1> DEFINE c == x.c
<1>a. /\ c \in Contracts /\ contract \in [Contracts -> Row] /\ x.op \in DOMAIN AllowedFrom
      /\ x.row.unit \in Units /\ x.row.status \in AllowedFrom[x.op]
  BY DEF OccupancyInv, ContractsFine, SoundRequest
<1>1. PICK row \in Row :
         /\ contract' = [contract EXCEPT ![c] = row]
         /\ x.op = "changeUnit" => row.status = contract[c].status /\ row.unit = x.to
         /\ x.op # "changeUnit" => row.unit = contract[c].unit
         /\ x.op = "sign" => row.status = "active"
         /\ x.op \in {"requestEnd", "reactivate"} => row.status \in LiveStatus
         /\ x.op \in {"end", "cancel"} => row.status = "closed"
         /\ x.op \in {"schedule", "cancelMove"} => row.status = contract[c].status
  BY PerformWrites
<1>2. contract'[c] = row /\ \A d \in Contracts \ {c} : contract'[d] = contract[d]
  BY <1>1, <1>a
<1>3. SUFFICES ASSUME NEW u \in Units, "outdated" \notin slip'[u]
               PROVE  unit'[u] = "occupied" <=> Rented(u)'
  BY DEF UnitTellsTheTruth
<1>4. slip' = IF Outdated(x) THEN Mark("outdated", Touched(x))
              ELSE Marked(Mark("left", Forgotten(x)), "shared", Shared(x))
  BY DEF Perform
<1>5. "outdated" \notin slip[u] /\ (Outdated(x) => u \notin Touched(x))
  <2>1. CASE Outdated(x)
    BY <1>3, <1>4, <2>1, MarkKeeps
  <2>2. CASE ~Outdated(x)
    BY <1>3, <1>4, <2>2 DEF Mark, Marked
  <2> QED
    BY <2>1, <2>2
<1>6. unit[u] = "occupied" <=> Rented(u)
  BY <1>5 DEF UnitTellsTheTruth
<1>7. ASSUME u # contract[c].unit, u # row.unit PROVE Rented(u)' <=> Rented(u)
  BY <1>2, <1>7, <1>a DEF Rented, Live
<1>8. CASE Outdated(x)
  <2>1. u \notin {x.row.unit, x.to, contract[c].unit}
    BY <1>5, <1>8 DEF Touched
  <2>2. Rented(u)' <=> Rented(u)
    BY <1>1, <1>7, <2>1
  <2> QED
    BY <1>6, <2>1, <2>2, PerformOccupied
<1>9. CASE ~Outdated(x)
  <2>1. contract[c].status = x.row.status /\ contract[c].unit = x.row.unit
    BY <1>9 DEF Outdated
  <2> HIDE DEF c
  <2>2. CASE x.op = "sign"
    <3>1. CASE u = x.row.unit
      <4>1. Rented(u)'
        BY <1>a, <1>1, <1>2, <2>1, <2>2, <3>1 DEF Rented, Live, LiveStatus
      <4> QED
        BY <2>2, <3>1, <4>1, PerformOccupied
    <3>2. CASE u # x.row.unit
      BY <1>1, <1>6, <1>7, <2>1, <2>2, <3>2, PerformOccupied
    <3> QED
      BY <3>1, <3>2
  <2>3. CASE x.op \in {"requestEnd", "reactivate", "schedule", "cancelMove"}
    <3>1. contract[c].status \in LiveStatus
      BY <1>a, <2>1, <2>3 DEF AllowedFrom, LiveStatus
    <3>2. row.status \in LiveStatus /\ row.unit = contract[c].unit
      BY <1>1, <2>3, <3>1
    <3>3. Rented(u)' <=> Rented(u)
      BY <1>a, <1>2, <3>1, <3>2 DEF Rented, Live
    <3> QED
      BY <1>6, <2>3, <3>3, PerformOccupied
  <2>4. CASE x.op \in {"end", "cancel"} /\ x.row.status \in LiveStatus
    <3>1. CASE u = x.row.unit
      <4>1. ~Rented(u)'
        BY <1>a, <1>1, <1>2, <2>1, <2>4, <3>1 DEF Rented, Live, OneLiveContract, LiveStatus
      <4> QED
        BY <2>4, <3>1, <4>1, PerformOccupied
    <3>2. CASE u # x.row.unit
      BY <1>1, <1>6, <1>7, <2>1, <2>4, <3>2, PerformOccupied
    <3> QED
      BY <3>1, <3>2
  <2>5. CASE x.op \in {"end", "cancel"} /\ x.row.status \notin LiveStatus
    <3>1. x.op = "cancel"
      BY <1>a, <2>5 DEF AllowedFrom
    <3>2. Rented(u)' <=> Rented(u)
      BY <1>a, <1>1, <1>2, <2>1, <2>5 DEF Rented, Live, LiveStatus
    <3> QED
      BY <1>6, <2>5, <3>1, <3>2, PerformOccupied
  <2>6. CASE x.op = "changeUnit"
    <3>1. contract[c].status \in LiveStatus /\ x.to # x.row.unit
      BY <1>a, <2>1, <2>6 DEF AllowedFrom, LiveStatus, SoundRequest
    <3>2. CASE u = x.to
      <4>1. Rented(u)'
        BY <1>a, <1>1, <1>2, <2>6, <3>1, <3>2 DEF Rented, Live
      <4> QED
        BY <2>6, <3>2, <4>1, PerformOccupied
    <3>3. CASE u = x.row.unit
      <4>1. ~Rented(u)'
        BY <1>a, <1>1, <1>2, <2>1, <2>6, <3>1, <3>3 DEF Rented, Live, OneLiveContract
      <4> QED
        BY <2>6, <3>3, <4>1, PerformOccupied
    <3>4. CASE u \notin {x.to, x.row.unit}
      BY <1>1, <1>6, <1>7, <2>1, <2>6, <3>4, PerformOccupied
    <3> QED
      BY <3>2, <3>3, <3>4
  <2> QED
    BY <1>a, <2>2, <2>3, <2>4, <2>5, <2>6, Operations
<1> QED
  BY <1>8, <1>9

(* The other steps never make a unit 'occupied', and take that from one    *)
(* only by hand, when nobody rents it.                                     *)
OccupiedKept ==
    \A u \in Units :
        \/ unit'[u] = "occupied" <=> unit[u] = "occupied"
        \/ unit'[u] # "occupied" /\ ~Rented(u)

SlipsKept == \A u \in Units : "outdated" \notin slip'[u] => "outdated" \notin slip[u]

LEMMA OtherStepUnits ==
    ASSUME OccupancyInv, OtherStep
    PROVE  OccupiedKept /\ SlipsKept
<1>a. unit \in UnitType
  BY DEF OccupancyInv
<1>1. ASSUME UNCHANGED unit PROVE OccupiedKept
  BY <1>1 DEF OccupiedKept
<1>2. ASSUME NEW v, NEW c, NEW y, unit' = Released(unit, v, c, y) PROVE OccupiedKept
  BY <1>2, <1>a, ReleasedOccupied DEF OccupiedKept
<1>3. ASSUME NEW v, NEW status \in {"available", "reserved"},
             v \in Units => unit[v] # "occupied", unit' = [unit EXCEPT ![v] = status]
      PROVE  OccupiedKept
  BY <1>3, <1>a DEF OccupiedKept, UnitType
<1>4. ASSUME UNCHANGED slip PROVE SlipsKept
  BY <1>4 DEF SlipsKept
<1>5. ASSUME NEW kind, NEW us, slip' = Mark(kind, us) PROVE SlipsKept
  BY <1>5, MarkKeeps DEF SlipsKept
<1>6. ASSUME NEW c \in Contracts, ContractStep(c) PROVE OccupiedKept /\ SlipsKept
  <2>1. ASSUME NEW e, NEW u, EntryConverted(c, e, u) PROVE OccupiedKept
    BY <1>1, <1>2, <2>1 DEF EntryConverted
  <2>2. OccupiedKept
    BY <1>1, <1>3, <1>6, <2>1
    DEF ContractStep, CreateDraft, Hold, ConvertReservation, HoldByToken, DraftFromEntry,
        BookingDraft, BookingFails, BookingDeadline, BookingStops, DeadlinePasses
  <2>3. SlipsKept
    BY <1>4, <1>5, <1>6
    DEF ContractStep, CreateDraft, Hold, ConvertReservation, HoldByToken, DraftFromEntry,
        BookingDraft, BookingFails, BookingDeadline, BookingStops, DeadlinePasses
  <2> QED
    BY <2>2, <2>3
<1>7. ASSUME NEW r \in Reservations, ReservationStep(r) PROVE OccupiedKept /\ SlipsKept
  <2>1. ASSUME NEW u, NEW who, Reservable(u, who), unit' = Reserved(u) PROVE OccupiedKept
    BY <1>3, <2>1 DEF Reservable, Reserved
  <2>2. OccupiedKept
    BY <1>1, <1>2, <1>7, <2>1
    DEF ReservationStep, CreateReservation, Confirm, DuePasses, CloseReservation
  <2>3. SlipsKept
    BY <1>4, <1>5, <1>7
    DEF ReservationStep, CreateReservation, Confirm, DuePasses, CloseReservation
  <2> QED
    BY <2>2, <2>3
<1>8. ASSUME NEW e \in Entries, EntryStep(e) PROVE OccupiedKept /\ SlipsKept
  <2>1. ASSUME NEW u, unit[u] = "available", unit' = Reserved(u) PROVE OccupiedKept
    BY <1>3, <2>1 DEF Reserved
  <2>2. OccupiedKept
    BY <1>1, <1>2, <1>8, <2>1
    DEF EntryStep, Notify, ExpireEntry, FreeUnit, FreeStops, ResolveEntry
  <2>3. SlipsKept
    BY <1>4, <1>5, <1>8
    DEF EntryStep, Notify, ExpireEntry, FreeUnit, FreeStops, ResolveEntry
  <2> QED
    BY <2>2, <2>3
<1>9. ASSUME NEW v \in Units, ChangeStatus(v) PROVE OccupiedKept /\ SlipsKept
  <2>1. ~Rented(v) /\ UNCHANGED slip
    BY <1>9 DEF ChangeStatus, Rented
  <2>2. unit[v] \in UnitStatus
    BY <1>a DEF UnitType
  <2>3. \E to \in UnitStatus \ {"occupied"} : unit' = [unit EXCEPT ![v] = to]
    BY <1>9, <2>2 DEF ChangeStatus, ByHand, UnitStatus, Reserved
  <2>4. OccupiedKept
    BY <1>a, <2>1, <2>3 DEF OccupiedKept, UnitType
  <2> QED
    BY <1>4, <2>1, <2>4
<1> QED
  BY <1>6, <1>7, <1>8, <1>9 DEF OtherStep

LEMMA StepAgrees ==
    ASSUME OccupancyInv, OneLiveContract, UnitTellsTheTruth, [Next]_vars
    PROVE  UnitTellsTheTruth'
<1>1. CASE UNCHANGED <<unit, contract, slip>>
  BY <1>1 DEF UnitTellsTheTruth, Rented, Live
<1>2. CASE RequestStep
  BY <1>1, <1>2, RequestPerforms, PerformAgrees
<1>3. CASE OtherStep
  <2>1. LivesKept /\ OccupiedKept /\ SlipsKept
    BY <1>3, OtherStepLives, OtherStepUnits
  <2>2. ASSUME NEW u \in Units PROVE Rented(u)' <=> Rented(u)
    BY <2>1 DEF LivesKept, Rented
  <2> QED
    BY <2>1, <2>2 DEF OccupiedKept, SlipsKept, UnitTellsTheTruth
<1> QED
  BY <1>1, <1>2, <1>3, NextCases DEF vars

LEMMA InitAgrees == Init => UnitTellsTheTruth
BY DEF Init, UnitTellsTheTruth, Rented, Live, NoRow, LiveStatus

(* A unit that no outdated request has touched is 'occupied' exactly while *)
(* somebody rents it: neither reservations, bookings, notices, expiries    *)
(* nor changes by hand put a rented unit on sale or keep an empty one off. *)
THEOREM OccupancyUnitTellsTheTruth == Spec => []UnitTellsTheTruth
BY InitInv, StepInv, InitOneLive, StepOneLive, InitAgrees, StepAgrees, PTL DEF Spec

-----------------------------------------------------------------------------
(* The papers behind the units: a draft has no move, a booking has its     *)
(* draft, a request that waits cannot have met the draft of a booking, an  *)
(* entry names a contract once it is converted, and the reservations of a  *)
(* unit do not overlap.                                                    *)
Aged(x) ==
    /\ x.row.status \in LiveStatus => contract[x.c].status \notin {"none", "draft"}
    /\ x.op = "schedule" => x.row.move = NoUnit
    /\ Draft(x.c) /\ x.row.deadline = "none" => contract[x.c].deadline = "none"
    /\ booking[x.c].pc = "none"

OwnBooking(c) ==
    /\ contract[c].status \in {"none", "draft"} => contract[c].move = NoUnit
    /\ booking[c].pc = "held" => contract[c].status = "none"
    /\ booking[c].pc = "drafted" => Draft(c) /\ contract[c].unit = booking[c].unit

AgedInv    == \A q \in Requests : req[q] = NoRequest \/ Aged(req[q])
OwnInv     == \A c \in Contracts : OwnBooking(c)
TiedInv    == \A e \in Entries : entry[e].contract # NoContract => entry[e].status = "converted"

Pending(r) == Open(r) /\ ~res[r].due
OverlapInv == \A r, s \in Reservations :
                 Pending(r) /\ Pending(s) /\ res[r].unit = res[s].unit => r = s

PapersInv == AgedInv /\ OwnInv /\ TiedInv /\ OverlapInv

(* How a row may change under a request that has read it.                  *)
RowsAge ==
    \A d \in Contracts : contract[d].status # "none" =>
        /\ contract'[d].status \in {"none", "draft"} => contract[d].status = "draft"
        /\ booking[d].pc = "none" =>
              /\ booking'[d].pc = "none"
              /\ contract'[d].status = "draft" /\ contract[d].deadline = "none" =>
                    contract'[d].deadline = "none"

LEMMA AgedKept ==
    ASSUME OccupancyInv, AgedInv, RowsAge, UNCHANGED req \/ \E q \in Requests : EndRequest(q)
    PROVE  AgedInv'
<1>1. SUFFICES ASSUME NEW q \in Requests PROVE (req[q] = NoRequest \/ Aged(req[q]))'
  BY DEF AgedInv
<1>2. req'[q] \in {NoRequest, req[q]}
  BY DEF OccupancyInv, RequestsFine, EndRequest
<1>3. CASE req'[q] = NoRequest
  BY <1>3
<1>4. CASE req'[q] = req[q] /\ req[q] # NoRequest
  <2>1. SoundRequest(req[q]) /\ Aged(req[q])
    BY <1>4 DEF OccupancyInv, RequestsFine, RequestsInv, AgedInv
  <2>2. Aged(req[q])'
    BY <1>4, <2>1 DEF Aged, SoundRequest, RowsAge, Draft
  <2> QED
    BY <2>2
<1> QED
  BY <1>2, <1>3, <1>4

(* The fields of the row that a request writes.                            *)
LEMMA PerformFields ==
    ASSUME OccupancyInv, NEW x, SoundRequest(x), Perform(x)
    PROVE  /\ \A d \in Contracts \ {x.c} : contract'[d] = contract[d]
           /\ x.op = "sign" =>
                 /\ contract'[x.c].status = "active"
                 /\ contract'[x.c].unit = contract[x.c].unit
                 /\ contract'[x.c].move = contract[x.c].move
           /\ x.op \in {"requestEnd", "reactivate"} =>
                 /\ contract'[x.c].status \in LiveStatus
                 /\ contract'[x.c].unit = contract[x.c].unit
                 /\ contract'[x.c].move = contract[x.c].move
           /\ x.op \in {"end", "cancel"} =>
                 contract'[x.c].status = "closed" /\ contract'[x.c].move = NoUnit
                 /\ contract'[x.c].unit = contract[x.c].unit
           /\ x.op \in {"changeUnit", "schedule", "cancelMove"} =>
                 /\ contract'[x.c].status = contract[x.c].status
                 /\ contract'[x.c].deadline = contract[x.c].deadline
                 /\ contract'[x.c].unit = IF x.op = "changeUnit" THEN x.to
                                          ELSE contract[x.c].unit
                 /\ contract'[x.c].move = IF x.op = "schedule" THEN x.to ELSE NoUnit
           /\ x.op # "sign" => UNCHANGED res
           /\ UNCHANGED <<entry, booking, stops>>
<1>a. x.c \in Contracts /\ contract[x.c] \in Row /\ contract \in [Contracts -> Row]
  BY DEF OccupancyInv, ContractsFine, SoundRequest
<1>1. CASE Sign(x)
  BY <1>1, <1>a DEF Sign, Perform, Row
<1>2. CASE SetStatus(x)
  BY <1>2, <1>a DEF SetStatus, Perform, Row, LiveStatus
<1>3. CASE End(x) \/ Cancel(x)
  BY <1>3, <1>a DEF End, Cancel, Closed, Perform, Row
<1>4. CASE ChangeUnit(x)
  BY <1>4, <1>a DEF ChangeUnit, Perform, Row
<1>5. CASE ScheduleMove(x) \/ CancelScheduledMove(x)
  BY <1>5, <1>a DEF ScheduleMove, CancelScheduledMove, Perform, Row
<1> QED
  BY <1>1, <1>2, <1>3, <1>4, <1>5 DEF Perform

(* A request performs its operation on a contract without booking, reads   *)
(* a contract, or fails.                                                   *)
LEMMA RequestReads ==
    ASSUME OccupancyInv, OwnInv, AgedInv, RequestStep
    PROVE  \/ \E x : /\ SoundRequest(x) /\ Aged(x) /\ Perform(x)
                     /\ UNCHANGED req \/ \E q \in Requests : EndRequest(q)
           \/ /\ AgedInv' /\ UNCHANGED <<unit, contract, res, entry, booking, slip, stops>>
<1>a. ContractsFine /\ RequestsFine
  BY DEF OccupancyInv
<1>1. ASSUME NEW op \in DOMAIN AllowedFrom, NEW c \in Contracts, NEW to \in MaybeUnit,
             Possible(Request(op, c, to))
      PROVE  SoundRequest(Request(op, c, to)) /\ Aged(Request(op, c, to))
  <2> DEFINE x == Request(op, c, to)
  <2>1. x.op = op /\ x.c = c /\ x.row = contract[c] /\ x.to = to
    BY DEF Request
  <2>2. SoundRequest(x)
    BY <1>a, <1>1, PossibleIsSound
  <2> HIDE DEF x
  <2>3. booking[c].pc # "drafted" /\ Target(op, contract[c], to)
    BY <1>1, <2>1 DEF Possible, x
  <2>4. booking[c].pc = "none"
    <3>1. booking[c].pc \in {"none", "held", "drafted"}
      BY DEF OccupancyInv, BookingsFine, BookingRow
    <3> QED
      BY <2>1, <2>2, <2>3, <3>1 DEF SoundRequest, OwnInv, OwnBooking
  <2>5. op = "schedule" => contract[c].move = NoUnit
    BY <2>3 DEF Target
  <2>6. Aged(x)
    BY <2>1, <2>4, <2>5 DEF Aged, LiveStatus
  <2> QED
    BY <2>2, <2>6 DEF x
<1>2. ASSUME NEW op \in DOMAIN AllowedFrom, NEW c \in Contracts, NEW to \in MaybeUnit,
             Run(Request(op, c, to))
      PROVE  \E x : SoundRequest(x) /\ Aged(x) /\ Perform(x) /\ UNCHANGED req
  BY <1>1, <1>2 DEF Run
<1>3. ASSUME NEW q \in Requests, Do(q)
      PROVE  \E x : SoundRequest(x) /\ Aged(x) /\ Perform(x) /\ EndRequest(q)
  BY <1>a, <1>3 DEF Do, RequestsFine, RequestsInv, AgedInv
<1>4. ASSUME NEW op \in DOMAIN AllowedFrom, NEW c \in Contracts, NEW to \in MaybeUnit,
             NEW q \in Requests, Begin(q, Request(op, c, to))
      PROVE  AgedInv' /\ UNCHANGED <<unit, contract, res, entry, booking, slip, stops>>
  <2> DEFINE x == Request(op, c, to)
  <2>1. Aged(x)
    BY <1>1, <1>4 DEF Begin
  <2> HIDE DEF x
  <2>2. req' = [req EXCEPT ![q] = x]
        /\ UNCHANGED <<unit, contract, res, entry, booking, slip, stops>>
    BY <1>4 DEF Begin, x
  <2>3. \A y : Aged(y) => Aged(y)'
    BY <2>2 DEF Aged, Draft
  <2>4. \A k \in Requests : req'[k] = NoRequest \/ Aged(req'[k])
    BY <1>a, <2>1, <2>2 DEF RequestsFine, AgedInv
  <2>5. \A k \in Requests : (req[k] = NoRequest \/ Aged(req[k]))'
    BY <2>2, <2>4 DEF Aged, Draft
  <2> QED
    BY <2>2, <2>5 DEF AgedInv
<1>5. ASSUME NEW q \in Requests, Fails(q)
      PROVE  AgedInv' /\ UNCHANGED <<unit, contract, res, entry, booking, slip, stops>>
  <2>1. RowsAge
    BY <1>5 DEF Fails, RowsAge
  <2> QED
    BY <1>5, <2>1, AgedKept DEF Fails
<1> QED
  BY <1>2, <1>3, <1>4, <1>5 DEF RequestStep

LEMMA PerformPapers ==
    ASSUME OccupancyInv, PapersInv, NEW x, SoundRequest(x), Aged(x), Perform(x),
           UNCHANGED req \/ \E q \in Requests : EndRequest(q)
    PROVE  PapersInv'
<1>a. /\ x.c \in Contracts /\ x.op \in DOMAIN AllowedFrom /\ x.row.status \in AllowedFrom[x.op]
      /\ contract[x.c].status # "none" /\ booking[x.c].pc = "none"
  BY DEF SoundRequest, Aged
<1>b. UNCHANGED <<entry, booking, stops>> /\ \A d \in Contracts \ {x.c} : contract'[d] = contract[d]
  BY PerformFields
<1>c. x.op \in {"changeUnit", "schedule", "cancelMove"} =>
         /\ contract'[x.c].status = contract[x.c].status
         /\ contract'[x.c].status \notin {"none", "draft"}
  BY <1>a, PerformFields DEF Aged, AllowedFrom
<1>d. contract'[x.c].status \notin {"none", "draft"}
  BY <1>a, <1>c, PerformFields, Operations DEF LiveStatus
<1>1. RowsAge
  BY <1>b, <1>d DEF RowsAge
<1>2. AgedInv'
  BY <1>1, AgedKept DEF PapersInv
<1>3. OwnInv'
  BY <1>a, <1>b, <1>d DEF PapersInv, OwnInv, OwnBooking, Draft
<1>4. TiedInv'
  BY <1>b DEF PapersInv, TiedInv
<1>5. OverlapInv'
  <2>1. CASE UNCHANGED res
    BY <2>1 DEF PapersInv, OverlapInv, Pending, Open
  <2>2. CASE Sign(x)
    <3>1. ASSUME NEW r \in Reservations, Open(r)' PROVE res'[r] = res[r]
      <4>1. res' = [s \in Reservations |->
                      IF Open(s) /\ res[s].unit = x.row.unit
                      THEN [res[s] EXCEPT !.status = "converted", !.contract = x.c]
                      ELSE res[s]]
        BY <2>2 DEF Sign
      <4>2. res'[r] \in {res[r], [res[r] EXCEPT !.status = "converted", !.contract = x.c]}
        BY <4>1
      <4>3. res[r] \in ReservationRow
        BY DEF OccupancyInv, ReservationsFine
      <4> QED
        BY <3>1, <4>2, <4>3 DEF Open, OpenRes, ReservationRow
    <3> QED
      BY <3>1 DEF PapersInv, OverlapInv, Pending, Open
  <2> QED
    BY <2>1, <2>2, PerformFields DEF Perform, SetStatus, End, Cancel, ChangeUnit, ScheduleMove,
       CancelScheduledMove
<1> QED
  BY <1>2, <1>3, <1>4, <1>5 DEF PapersInv

LEMMA WriteTied ==
    ASSUME OccupancyInv, TiedInv, NEW e \in Entries, NEW row,
           entry' = [entry EXCEPT ![e] = row], row.contract # NoContract => row.status = "converted"
    PROVE  TiedInv'
BY DEF TiedInv, OccupancyInv, EntriesFine

LEMMA ContractPapers ==
    ASSUME OccupancyInv, PapersInv, NEW c \in Contracts, ContractStep(c)
    PROVE  PapersInv'
<1>a. /\ contract \in [Contracts -> Row] /\ contract[c] \in Row
      /\ booking \in [Contracts -> BookingRow] /\ booking[c] \in BookingRow
      /\ res \in [Reservations -> ReservationRow] /\ entry \in [Entries -> EntryRow]
      /\ AgedInv /\ OwnInv /\ TiedInv /\ OverlapInv /\ UNCHANGED req
  BY DEF OccupancyInv, ContractsFine, BookingsFine, ReservationsFine, EntriesFine, PapersInv,
     ContractStep, CreateDraft, Hold, ConvertReservation, HoldByToken, DraftFromEntry,
     BookingDraft, BookingFails, BookingDeadline, BookingStops, DeadlinePasses
<1>b. ASSUME UNCHANGED entry PROVE TiedInv'
  BY <1>a, <1>b DEF TiedInv
<1>c. ASSUME UNCHANGED res PROVE OverlapInv'
  BY <1>a, <1>c DEF OverlapInv, Pending, Open
<1>d. ASSUME NEW u, NewDraft(c, u)
      PROVE  /\ contract[c].status = "none"
             /\ contract'[c] = [NoRow EXCEPT !.status = "draft", !.unit = u]
             /\ \A d \in Contracts \ {c} : contract'[d] = contract[d]
  BY <1>a, <1>d DEF NewDraft
<1>e. ASSUME NEW u, NewDraft(c, u), UNCHANGED booking, booking[c].pc = "none"
      PROVE  RowsAge /\ OwnInv'
  BY <1>a, <1>d, <1>e DEF RowsAge, OwnInv, OwnBooking, Draft, NoRow
<1>f. ASSUME NEW row, booking' = [booking EXCEPT ![c] = row], UNCHANGED contract,
             booking[c].pc # "none" \/ contract[c].status = "none",
             row.pc = "none" \/ (row.pc = "held" /\ contract[c].status = "none")
      PROVE  RowsAge /\ OwnInv'
  <2>1. booking'[c] = row /\ \A d \in Contracts \ {c} : booking'[d] = booking[d]
    BY <1>a, <1>f
  <2> QED
    BY <1>a, <1>f, <2>1 DEF RowsAge, OwnInv, OwnBooking, Draft
<1>g. ASSUME NEW deadline \in {"open", "past"},
             contract' = [contract EXCEPT ![c].deadline = deadline],
             UNCHANGED booking \/ booking' = [booking EXCEPT ![c] = NoBooking],
             contract[c].deadline # "none" \/ booking[c].pc # "none"
      PROVE  RowsAge /\ OwnInv'
  <2>1. /\ contract'[c].status = contract[c].status /\ contract'[c].unit = contract[c].unit
        /\ contract'[c].move = contract[c].move
        /\ \A d \in Contracts \ {c} : contract'[d] = contract[d] /\ booking'[d] = booking[d]
        /\ booking'[c] = booking[c] \/ booking'[c].pc = "none"
    BY <1>a, <1>g DEF Row, NoBooking
  <2> QED
    BY <1>a, <1>g, <2>1 DEF RowsAge, OwnInv, OwnBooking, Draft
<1>h. ASSUME NEW e, NEW u, EntryConverted(c, e, u) PROVE TiedInv'
  <2>1. CASE UNCHANGED entry
    BY <1>b, <2>1
  <2>2. CASE ~UNCHANGED entry
    <3> DEFINE row == [status |-> "converted", contract |-> c,
                       held |-> IF entry[e].held = u THEN u ELSE NoUnit]
    <3>1. e \in Entries /\ entry' = [entry EXCEPT ![e] = row]
      BY <1>a, <1>h, <2>2 DEF EntryConverted
    <3>2. row.status = "converted"
      OBVIOUS
    <3> HIDE DEF row
    <3> QED
      BY <1>a, <3>1, <3>2, WriteTied
  <2> QED
    BY <2>1, <2>2
<1>k. ASSUME RowsAge /\ OwnInv', TiedInv', OverlapInv' PROVE PapersInv'
  BY <1>a, <1>k, AgedKept DEF PapersInv
<1>1. ASSUME NEW u \in Units, CreateDraft(c, u) PROVE PapersInv'
  BY <1>1, <1>b, <1>c, <1>e, <1>k DEF CreateDraft
<1>2. ASSUME NEW u \in Units, Hold(c, u) PROVE PapersInv'
  BY <1>2, <1>b, <1>c, <1>f, <1>k DEF Hold
<1>3. ASSUME NEW r \in Reservations, ConvertReservation(c, r) PROVE PapersInv'
  <2>1. RowsAge /\ OwnInv' /\ TiedInv'
    BY <1>3, <1>b, <1>e DEF ConvertReservation
  <2>2. ASSUME NEW s \in Reservations, Open(s)' PROVE res'[s] = res[s]
    BY <1>a, <1>3, <2>2 DEF ConvertReservation, Open, OpenRes, ReservationRow
  <2>3. OverlapInv'
    BY <1>a, <2>2 DEF OverlapInv, Pending, Open
  <2> QED
    BY <1>k, <2>1, <2>3
<1>4. ASSUME NEW e \in Entries, HoldByToken(c, e) PROVE PapersInv'
  BY <1>4, <1>b, <1>c, <1>f, <1>k DEF HoldByToken
<1>5. ASSUME NEW e \in Entries, NEW u \in Units, DraftFromEntry(c, e, u) PROVE PapersInv'
  BY <1>5, <1>h, <1>c, <1>e, <1>k DEF DraftFromEntry
<1>6. ASSUME BookingDraft(c) PROVE PapersInv'
  <2>1. /\ NewDraft(c, booking[c].unit) /\ booking[c].pc = "held"
        /\ booking' = [booking EXCEPT ![c].pc = "drafted"]
    BY <1>6 DEF BookingDraft
  <2>2. /\ booking'[c].pc = "drafted" /\ booking'[c].unit = booking[c].unit
        /\ \A d \in Contracts \ {c} : booking'[d] = booking[d]
    BY <1>a, <2>1 DEF BookingRow
  <2>4. /\ contract[c].status = "none" /\ contract'[c].status = "draft"
        /\ contract'[c].move = NoUnit /\ contract'[c].unit = booking[c].unit
        /\ \A d \in Contracts \ {c} : contract'[d] = contract[d]
    BY <1>a, <2>1 DEF NewDraft, NoRow
  <2>3. RowsAge /\ OwnInv'
    BY <1>a, <2>1, <2>2, <2>4 DEF RowsAge, OwnInv, OwnBooking, Draft
  <2> QED
    BY <1>6, <1>c, <1>h, <1>k, <2>3 DEF BookingDraft
<1>7. ASSUME BookingFails(c) \/ BookingStops(c) PROVE PapersInv'
  <2>1. booking' = [booking EXCEPT ![c] = NoBooking] /\ NoBooking.pc = "none"
        /\ UNCHANGED <<contract, res, entry>> /\ booking[c].pc # "none"
    BY <1>7 DEF BookingFails, BookingStops, NoBooking
  <2> QED
    BY <1>b, <1>c, <1>f, <1>k, <2>1
<1>8. ASSUME BookingDeadline(c) \/ DeadlinePasses(c) PROVE PapersInv'
  <2>1. UNCHANGED <<res, entry>>
    BY <1>8 DEF BookingDeadline, DeadlinePasses
  <2>2. RowsAge /\ OwnInv'
    BY <1>8, <1>g DEF BookingDeadline, DeadlinePasses
  <2> QED
    BY <1>b, <1>c, <1>k, <2>1, <2>2
<1> QED
  BY <1>1, <1>2, <1>3, <1>4, <1>5, <1>6, <1>7, <1>8 DEF ContractStep

LEMMA OtherPapers ==
    ASSUME OccupancyInv, PapersInv,
           \/ \E r \in Reservations : ReservationStep(r)
           \/ \E e \in Entries : EntryStep(e)
           \/ \E u \in Units : ChangeStatus(u)
           \/ UNCHANGED vars
    PROVE  PapersInv'
<1>a. /\ res \in [Reservations -> ReservationRow] /\ entry \in [Entries -> EntryRow]
      /\ AgedInv /\ OwnInv /\ TiedInv /\ OverlapInv
  BY DEF OccupancyInv, ReservationsFine, EntriesFine, PapersInv
<1>b. UNCHANGED <<contract, booking, req>>
  BY DEF ReservationStep, CreateReservation, Confirm, DuePasses, CloseReservation, EntryStep,
     Notify, ExpireEntry, FreeUnit, FreeStops, ResolveEntry, ChangeStatus, vars
<1>1. RowsAge /\ AgedInv' /\ OwnInv'
  <2>1. RowsAge
    BY <1>b DEF RowsAge
  <2> QED
    BY <1>a, <1>b, <2>1, AgedKept DEF OwnInv, OwnBooking, Draft
<1>2. CASE UNCHANGED res
  <2>1. OverlapInv'
    BY <1>a, <1>2 DEF OverlapInv, Pending, Open
  <2>2. CASE UNCHANGED entry
    BY <1>a, <1>1, <2>1, <2>2 DEF PapersInv, TiedInv
  <2>3. ASSUME NEW e \in Entries, EntryStep(e) PROVE TiedInv'
    <3> DEFINE told(u) == [entry[e] EXCEPT !.status = "notified", !.held = u]
               past    == [entry[e] EXCEPT !.status = "expired"]
               tied(c) == [entry[e] EXCEPT !.status = "converted", !.contract = c]
    <3>1. entry[e] \in EntryRow
      BY <1>a
    <3>2. CASE \E u \in Units : Notify(e, u)
      <4>1. PICK u \in Units : Notify(e, u)
        BY <3>2
      <4>2. entry[e].contract = NoContract /\ entry' = [entry EXCEPT ![e] = told(u)]
        BY <1>a, <4>1 DEF Notify, TiedInv
      <4>3. told(u).contract = entry[e].contract
        BY <3>1 DEF EntryRow
      <4> HIDE DEF told
      <4> QED
        BY <1>a, <4>2, <4>3, WriteTied
    <3>3. CASE ExpireEntry(e)
      <4>1. entry[e].contract = NoContract /\ entry' = [entry EXCEPT ![e] = past]
        BY <1>a, <3>3 DEF ExpireEntry, Notified, TiedInv
      <4>2. past.contract = entry[e].contract
        BY <3>1 DEF EntryRow
      <4> HIDE DEF past
      <4> QED
        BY <1>a, <4>1, <4>2, WriteTied
    <3>4. CASE entry' = [entry EXCEPT ![e] = ClosedEntry]
      BY <1>a, <3>4, WriteTied DEF ClosedEntry
    <3>5. ASSUME NEW c \in Contracts, entry' = [entry EXCEPT ![e] = tied(c)] PROVE TiedInv'
      <4>1. tied(c).status = "converted"
        BY <3>1 DEF EntryRow
      <4> HIDE DEF tied
      <4> QED
        BY <1>a, <3>5, <4>1, WriteTied
    <3>6. \/ \E u \in Units : Notify(e, u)
          \/ ExpireEntry(e)
          \/ entry' = [entry EXCEPT ![e] = ClosedEntry]
          \/ \E c \in Contracts : entry' = [entry EXCEPT ![e] = tied(c)]
      BY <2>3 DEF EntryStep, FreeUnit, FreeStops, ResolveEntry
    <3> HIDE DEF told, past, tied
    <3> QED
      BY <3>2, <3>3, <3>4, <3>5, <3>6
  <2> QED
    BY <1>1, <1>2, <2>1, <2>2, <2>3 DEF PapersInv, ReservationStep, CreateReservation, Confirm,
       DuePasses, CloseReservation, ChangeStatus, vars
<1>3. ASSUME NEW r \in Reservations, ReservationStep(r) PROVE PapersInv'
  <2>1. UNCHANGED entry
    BY <1>3 DEF ReservationStep, CreateReservation, Confirm, DuePasses, CloseReservation
  <2>2. \A s \in Reservations \ {r} : res'[s] = res[s]
    BY <1>a, <1>3 DEF ReservationStep, CreateReservation, Confirm, DuePasses, CloseReservation
  <2>3. CASE Confirm(r) \/ DuePasses(r) \/ CloseReservation(r)
    <3>1. Pending(r)' => Pending(r) /\ res'[r].unit = res[r].unit
      BY <1>a, <2>3 DEF Confirm, DuePasses, CloseReservation, Pending, Open, OpenRes,
         ReservationRow, NoReservation
    <3> QED
      BY <1>1, <1>a, <2>1, <2>2, <3>1 DEF PapersInv, TiedInv, OverlapInv, Pending, Open
  <2>4. ASSUME NEW u \in Units, NEW who \in Customers, NEW confirmed \in BOOLEAN,
               CreateReservation(r, u, who, confirmed)
        PROVE  OverlapInv'
    <3>1. res'[r].unit = u /\ NoOverlap(u) /\ ~Open(r)
      BY <1>a, <2>4 DEF CreateReservation, ReservationRow, Open, OpenRes
    <3>2. \A s \in Reservations : Pending(s) => res[s].unit # u
      BY <3>1, OccupancyAssumption DEF NoOverlap, ReservationHolds, Pending, OccupancyInv,
         ReservationsFine, Open
    <3> QED
      BY <1>a, <2>2, <3>1, <3>2 DEF OverlapInv, Pending, Open
  <2> QED
    BY <1>1, <1>3, <1>a, <2>1, <2>3, <2>4 DEF ReservationStep, PapersInv, TiedInv
<1> QED
  BY <1>2, <1>3 DEF EntryStep, Notify, ExpireEntry, FreeUnit, FreeStops, ResolveEntry,
     ChangeStatus, vars

LEMMA InitPapers == Init => PapersInv
BY OccupancyAssumption DEF Init, PapersInv, AgedInv, OwnInv, OwnBooking, TiedInv, OverlapInv,
   Pending, Open, OpenRes, NoReservation, NoRow, NoBooking, ClosedEntry

LEMMA StepPapers ==
    ASSUME OccupancyInv, PapersInv, [Next]_vars
    PROVE  PapersInv'
<1>1. CASE RequestStep
  <2>1. ASSUME AgedInv', UNCHANGED <<contract, res, entry, booking>> PROVE PapersInv'
    BY <2>1 DEF PapersInv, OwnInv, OwnBooking, Draft, TiedInv, OverlapInv, Pending, Open
  <2> QED
    BY <1>1, <2>1, RequestReads, PerformPapers DEF PapersInv
<1> QED
  BY <1>1, ContractPapers, OtherPapers DEF Next

-----------------------------------------------------------------------------
(* Who is promised a unit, one by one.                                     *)
Rents(d, u)  == Live(d) /\ contract[d].unit = u
Moves(d, u)  == Live(d) /\ contract[d].move = u
Books(d, u)  == Draft(d) /\ contract[d].unit = u /\ contract[d].deadline = "open"
Awaits(r, u) == res[r].status = "confirmed" /\ ~res[r].due /\ res[r].unit = u
Told(e, u)   == Notified(e) /\ entry[e].held = u

Claims(a, u) ==
    \/ \E d \in Contracts : (Rents(d, u) \/ Moves(d, u) \/ Books(d, u)) /\ a = Customer[d]
    \/ \E r \in Reservations : Awaits(r, u) /\ a = res[r].who
    \/ a \in Entries /\ Told(a, u)

NoClaims(u) ==
    /\ \A d \in Contracts : ~Rents(d, u) /\ ~Moves(d, u) /\ ~Books(d, u)
    /\ \A r \in Reservations : ~Awaits(r, u)
    /\ \A e \in Entries : ~Told(e, u)

LEMMA ClaimantsAre ==
    ASSUME NEW u
    PROVE  /\ \A a : a \in Claimants(u) <=> Claims(a, u)
           /\ Claimants(u) = {} => NoClaims(u)
<1>1. \A a : a \in Claimants(u) <=> Claims(a, u)
  BY DEF Claimants, Claims, Rents, Moves, Books, Awaits, Told
<1>2. Claimants(u) = {} => NoClaims(u)
  BY <1>1 DEF NoClaims, Claims
<1> QED
  BY <1>1, <1>2

(* The claims on a unit that no slip has touched: one claimant, none while *)
(* it is on sale, and no reservation or move beside a tenant.              *)
Clean(u) == slip[u] \cap {"outdated", "window", "shared"} = {}

ClaimsFine(u) ==
    /\ \A a, b : Claims(a, u) /\ Claims(b, u) => a = b
    /\ unit[u] = "available" => NoClaims(u)
    /\ \A d \in Contracts : Rents(d, u) \/ Moves(d, u) =>
          \A r \in Reservations : ~Awaits(r, u)
    /\ unit[u] = "occupied" => \A d \in Contracts : ~Moves(d, u)

ClaimsInv == \A u \in Units : Clean(u) => ClaimsFine(u)

SteadyInv == OccupancyInv /\ PapersInv /\ OneLiveContract /\ UnitTellsTheTruth

(* A step that adds no claim on the unit.                                  *)
Fewer(u) ==
    /\ \A d \in Contracts : /\ Rents(d, u)' => Rents(d, u)
                            /\ Moves(d, u)' => Moves(d, u)
                            /\ Books(d, u)' => Books(d, u)
    /\ \A r \in Reservations : Awaits(r, u)' => Awaits(r, u) /\ res'[r].who = res[r].who
    /\ \A e \in Entries : Told(e, u)' => Told(e, u)

LEMMA FineIfFewer ==
    ASSUME NEW u \in Units, ClaimsFine(u), Fewer(u),
           unit'[u] = "available" => unit[u] = "available" \/ NoClaims(u)',
           unit'[u] = "occupied" => unit[u] = "occupied"
    PROVE  ClaimsFine(u)'
<1>1. \A a : Claims(a, u)' => Claims(a, u)
  BY DEF Fewer, Claims
<1>2. NoClaims(u) => NoClaims(u)'
  BY DEF Fewer, NoClaims
<1> QED
  BY <1>1, <1>2 DEF ClaimsFine, Fewer

LEMMA FineIfOne ==
    ASSUME NEW u \in Units, NEW who, \A a : Claims(a, u)' => a = who, unit'[u] # "available",
           \A d \in Contracts : (Rents(d, u) \/ Moves(d, u))' =>
               \A r \in Reservations : ~Awaits(r, u)',
           unit'[u] = "occupied" => \A d \in Contracts : ~Moves(d, u)'
    PROVE  ClaimsFine(u)'
BY DEF ClaimsFine

(* A slip stays, and what a mark says of a unit it touches.                *)
LEMMA MarkClean ==
    ASSUME NEW kind, NEW us, NEW u \in Units, slip' = Mark(kind, us), Clean(u)'
    PROVE  Clean(u) /\ (kind \in {"outdated", "window", "shared"} => u \notin us)
BY DEF Mark, Marked, Clean

LEMMA PerformClean ==
    ASSUME NEW x, Perform(x), NEW u \in Units, Clean(u)'
    PROVE  Clean(u) /\ IF Outdated(x) THEN u \notin Touched(x) ELSE u \notin Shared(x)
<1>1. CASE Outdated(x)
  BY <1>1, MarkClean DEF Perform
<1>2. CASE ~Outdated(x)
  BY <1>2 DEF Perform, Mark, Marked, Clean
<1> QED
  BY <1>1, <1>2

(* What unitHeldByOther says of the claims, when it finds nobody.          *)
LEMMA FreeOfOthers ==
    ASSUME OccupancyInv, NEW u \in Units, NEW c, NEW x, ~Rented(u), ~HeldByOther(u, NoOne, c, x)
    PROVE  /\ \A d \in Contracts : ~Rents(d, u)
           /\ \A d \in Contracts : Moves(d, u) \/ Books(d, u) => d = c
           /\ \A r \in Reservations : Awaits(r, u) => r = x
           /\ \A e \in Entries : Told(e, u) => e = x
<1>1. \A r \in Reservations : Open(r) => res[r].who # NoOne
  BY OccupancyAssumption DEF OccupancyInv, ReservationsFine
<1>2. \A d \in Contracts : Customer[d] # NoOne
  BY OccupancyAssumption
<1>3. ~OtherHolds(u, NoOne, c, x) /\ ~ReservationHolds(u, NoOne, x)
  BY DEF HeldByOther
<1>4. \A r \in Reservations : Awaits(r, u) => r = x
  BY <1>1, <1>3 DEF ReservationHolds, Awaits, Open, OpenRes
<1>5. /\ \A d \in Contracts : Moves(d, u) \/ Books(d, u) => d = c
      /\ \A e \in Entries : Told(e, u) => e = x
  BY <1>2, <1>3 DEF OtherHolds, Moves, Books, Told
<1> QED
  BY <1>4, <1>5 DEF Rented, Rents

LEMMA OnlyTheirs ==
    ASSUME OccupancyInv, NEW u \in Units, NEW who, NEW c, ~OtherHolds(u, who, c, NoOne)
    PROVE  /\ \A d \in Contracts : Moves(d, u) => d = c
           /\ \A d \in Contracts : Books(d, u) => d = c \/ Customer[d] = who
           /\ \A e \in Entries : ~Told(e, u)
BY OccupancyAssumption DEF OtherHolds, Moves, Books, Told

LEMMA OnlyTheirReservations ==
    ASSUME NEW u \in Units, NEW who, ~ReservationHolds(u, who, NoOne)
    PROVE  \A r \in Reservations : Awaits(r, u) => res[r].who = who
BY OccupancyAssumption DEF ReservationHolds, Awaits, Open, OpenRes

(* releaseReservedUnit, unit by unit.                                      *)
LEMMA ReleasedGives ==
    ASSUME NEW f \in UnitType, NEW v, NEW c, NEW x, NEW u \in Units
    PROVE  /\ Released(f, v, c, x)[u] = "available" =>
                 \/ f[u] = "available"
                 \/ u = v /\ f[u] = "reserved" /\ ~HeldByOther(u, NoOne, c, x)
           /\ Released(f, v, c, x)[u] = "reserved" =>
                 f[u] = "reserved" /\ (u = v => HeldByOther(u, NoOne, c, x))
           /\ Released(f, v, c, x)[u] = "occupied" <=> f[u] = "occupied"
BY DEF Released, UnitType

LEMMA NotRented ==
    ASSUME UnitTellsTheTruth, NEW u \in Units, Clean(u)
    PROVE  unit[u] = "occupied" <=> Rented(u)
BY DEF UnitTellsTheTruth, Clean

(* A unit that is given back has no claim left but those of the ones that  *)
(* give it back.                                                           *)
LEMMA ReleaseFine ==
    ASSUME SteadyInv, NEW u \in Units, Clean(u), ClaimsFine(u), Fewer(u),
           NEW v, NEW c, NEW x, unit' = Released(unit, v, c, x),
           u = v => /\ c \in Contracts => ~Moves(c, u)' /\ ~Books(c, u)'
                    /\ x \in Reservations => ~Awaits(x, u)'
                    /\ x \in Entries => ~Told(x, u)'
    PROVE  ClaimsFine(u)'
<1>a. unit \in UnitType /\ OccupancyInv
  BY DEF SteadyInv, OccupancyInv
<1>1. unit'[u] = "occupied" => unit[u] = "occupied"
  BY <1>a, ReleasedGives
<1>2. ASSUME unit'[u] = "available", unit[u] # "available" PROVE NoClaims(u)'
  <2>1. u = v /\ unit[u] = "reserved" /\ ~HeldByOther(u, NoOne, c, x)
    BY <1>2, <1>a, ReleasedGives
  <2>2. ~Rented(u)
    BY <2>1, NotRented DEF SteadyInv
  <2>3. /\ \A d \in Contracts : ~Rents(d, u)
        /\ \A d \in Contracts : Moves(d, u) \/ Books(d, u) => d = c
        /\ \A r \in Reservations : Awaits(r, u) => r = x
        /\ \A e \in Entries : Told(e, u) => e = x
    BY <1>a, <2>1, <2>2, FreeOfOthers
  <2> QED
    BY <2>1, <2>3 DEF NoClaims, Fewer
<1> QED
  BY <1>1, <1>2, FineIfFewer

-----------------------------------------------------------------------------
(* The claims after an operation on contract x.c: the others keep theirs.  *)
SameClaims(d, u) ==
    /\ Rents(d, u)' <=> Rents(d, u)
    /\ Moves(d, u)' <=> Moves(d, u)
    /\ Books(d, u)' <=> Books(d, u)

LEMMA PerformApart ==
    ASSUME OccupancyInv, NEW x, SoundRequest(x), Perform(x), NEW u \in Units
    PROVE  /\ \A d \in Contracts \ {x.c} : SameClaims(d, u)
           /\ \A r \in Reservations : Awaits(r, u)' => Awaits(r, u) /\ res'[r].who = res[r].who
           /\ x.op = "sign" /\ u = x.row.unit => \A r \in Reservations : ~Awaits(r, u)'
           /\ \A e \in Entries : Told(e, u)' <=> Told(e, u)
           /\ u \notin {x.row.unit, x.row.move, x.to} => unit'[u] = unit[u]
<1>a. UNCHANGED entry /\ \A d \in Contracts \ {x.c} : contract'[d] = contract[d]
  BY PerformFields
<1>b. unit \in UnitType /\ res \in [Reservations -> ReservationRow] /\ x.row.unit \in Units
  BY DEF OccupancyInv, ReservationsFine, SoundRequest
<1>1. /\ \A d \in Contracts \ {x.c} : SameClaims(d, u)
      /\ \A e \in Entries : Told(e, u)' <=> Told(e, u)
  BY <1>a DEF SameClaims, Rents, Moves, Books, Told, Live, Draft, Notified
<1>2. /\ \A r \in Reservations : Awaits(r, u)' => Awaits(r, u) /\ res'[r].who = res[r].who
      /\ x.op = "sign" /\ u = x.row.unit => \A r \in Reservations : ~Awaits(r, u)'
  <2>1. CASE x.op # "sign"
    BY <2>1, PerformFields DEF Awaits
  <2>2. CASE x.op = "sign"
    <3>1. Sign(x)
      BY <2>2 DEF Perform, SetStatus, End, Cancel, ChangeUnit, ScheduleMove, CancelScheduledMove
    <3>2. res' = [r \in Reservations |->
                     IF Open(r) /\ res[r].unit = x.row.unit
                     THEN [res[r] EXCEPT !.status = "converted", !.contract = x.c] ELSE res[r]]
      BY <3>1 DEF Sign
    <3>3. ASSUME NEW r \in Reservations, Awaits(r, u)'
          PROVE  res'[r] = res[r] /\ ~(Open(r) /\ res[r].unit = x.row.unit)
      BY <1>b, <3>2, <3>3 DEF Awaits, ReservationRow
    <3> QED
      BY <3>3 DEF Awaits, Open, OpenRes
  <2> QED
    BY <2>1, <2>2
<1>3. u \notin {x.row.unit, x.row.move, x.to} => unit'[u] = unit[u]
  BY <1>b DEF Perform, Sign, SetStatus, End, Cancel, ChangeUnit, ScheduleMove, CancelScheduledMove,
     Released, Vacated, UnitType
<1> QED
  BY <1>1, <1>2, <1>3

LEMMA OutdatedClaims ==
    ASSUME SteadyInv, NEW x, SoundRequest(x), Perform(x), Outdated(x),
           NEW u \in Units, u \notin Touched(x), ClaimsFine(u)
    PROVE  ClaimsFine(u)'
<1>a. OccupancyInv /\ x.op \in DOMAIN AllowedFrom
  BY DEF SteadyInv, SoundRequest
<1>b. u \notin {x.row.unit, x.row.move, x.to, contract[x.c].unit, contract[x.c].move, NoUnit}
  BY OccupancyAssumption DEF Touched
<1>1. contract'[x.c].unit \in {contract[x.c].unit, x.to}
      /\ contract'[x.c].move \in {contract[x.c].move, x.to, NoUnit}
  BY <1>a, PerformFields, Operations
<1>2. ~Rents(x.c, u)' /\ ~Moves(x.c, u)' /\ ~Books(x.c, u)'
  BY <1>b, <1>1 DEF Rents, Moves, Books
<1>3. Fewer(u) /\ unit'[u] = unit[u]
  BY <1>a, <1>b, <1>2, PerformApart DEF SameClaims, Fewer
<1> QED
  BY <1>3, FineIfFewer

(* What is known of an operation that nobody has overtaken.                *)
Timely(x) ==
    /\ SteadyInv /\ SoundRequest(x) /\ Aged(x) /\ Perform(x) /\ ~Outdated(x)

LEMMA TimelyRow ==
    ASSUME NEW x, Timely(x)
    PROVE  /\ OccupancyInv /\ x.c \in Contracts /\ x.op \in DOMAIN AllowedFrom
           /\ contract[x.c].status = x.row.status /\ contract[x.c].unit = x.row.unit
           /\ contract[x.c].move = x.row.move /\ x.row.unit \in Units
           /\ x.op = "sign" => Draft(x.c) /\ contract[x.c].move = NoUnit
           /\ x.op \notin {"sign", "cancel"} => Live(x.c)
           /\ x.op = "cancel" => Live(x.c) \/ (Draft(x.c) /\ contract[x.c].move = NoUnit)
<1>1. /\ OccupancyInv /\ x.c \in Contracts /\ x.op \in DOMAIN AllowedFrom /\ x.row.unit \in Units
      /\ x.row.status \in AllowedFrom[x.op] /\ OwnBooking(x.c)
  BY DEF Timely, SteadyInv, SoundRequest, PapersInv, OwnInv
<1>2. /\ contract[x.c].status = x.row.status /\ contract[x.c].unit = x.row.unit
      /\ contract[x.c].move = x.row.move
  BY DEF Timely, Outdated
<1>3. /\ x.op = "sign" => Draft(x.c)
      /\ x.op \notin {"sign", "cancel"} => Live(x.c)
      /\ x.op = "cancel" => Live(x.c) \/ Draft(x.c)
  BY <1>1, <1>2, Operations DEF AllowedFrom, Live, Draft, LiveStatus
<1> QED
  BY <1>1, <1>2, <1>3 DEF OwnBooking, Draft

LEMMA SignClaims ==
    ASSUME NEW x, Timely(x), x.op = "sign", NEW u \in Units, Clean(u), ClaimsFine(u)
    PROVE  ClaimsFine(u)'
<1> DEFINE c == x.c
<1>a. /\ OccupancyInv /\ UnitTellsTheTruth /\ c \in Contracts /\ SoundRequest(x) /\ Perform(x)
      /\ contract[c].unit = x.row.unit /\ x.row.unit \in Units
      /\ Draft(c) /\ contract[c].move = NoUnit
  BY TimelyRow DEF Timely, SteadyInv
<1>b. /\ contract'[c].status = "active" /\ contract'[c].unit = contract[c].unit
      /\ contract'[c].move = NoUnit
  BY <1>a, PerformFields
<1>c. Sign(x) /\ unit \in UnitType
  BY <1>a DEF Perform, SetStatus, End, Cancel, ChangeUnit, ScheduleMove, CancelScheduledMove,
     OccupancyInv
<1> HIDE DEF c
<1>1. CASE u # x.row.unit
  <2>1. ~Rents(c, u)' /\ ~Moves(c, u)' /\ ~Books(c, u)'
    BY <1>1, <1>a, <1>b, OccupancyAssumption DEF Rents, Moves, Books
  <2>2. unit'[u] = unit[u]
    BY <1>1, <1>a, <1>c DEF Sign, UnitType
  <2>3. Fewer(u)
    BY <1>a, <2>1, PerformApart DEF SameClaims, Fewer, c
  <2> QED
    BY <2>2, <2>3, FineIfFewer
<1>2. CASE u = x.row.unit
  <2>1. /\ unit[u] \in {"available", "reserved"}
        /\ unit[u] = "reserved" => ~HeldByOther(u, Customer[c], c, NoOne)
        /\ unit'[u] = "occupied"
    BY <1>2, <1>c DEF Sign, Signable, UnitType, c
  <2>2. /\ \A d \in Contracts \ {c} : ~Rents(d, u) /\ ~Moves(d, u)
        /\ \A d \in Contracts : Books(d, u) => Customer[d] = Customer[c]
        /\ \A e \in Entries : ~Told(e, u)
    <3>1. CASE unit[u] = "available"
      BY <3>1 DEF ClaimsFine, NoClaims
    <3>2. CASE unit[u] = "reserved"
      <4>1. ~Rented(u)
        BY <1>a, <3>2, NotRented
      <4>2. ~OtherHolds(u, Customer[c], c, NoOne)
        BY <2>1, <3>2 DEF HeldByOther
      <4>3. /\ \A d \in Contracts : Moves(d, u) => d = c
            /\ \A d \in Contracts : Books(d, u) => d = c \/ Customer[d] = Customer[c]
            /\ \A e \in Entries : ~Told(e, u)
        BY <1>a, <4>2, OnlyTheirs
      <4> QED
        BY <4>1, <4>3 DEF Rented, Rents
    <3> QED
      BY <2>1, <3>1, <3>2
  <2>3. /\ \A d \in Contracts \ {c} : ~Rents(d, u)' /\ ~Moves(d, u)'
        /\ \A d \in Contracts \ {c} : Books(d, u)' => Customer[d] = Customer[c]
        /\ \A r \in Reservations : ~Awaits(r, u)'
        /\ \A e \in Entries : ~Told(e, u)'
    BY <1>2, <1>a, <2>2, PerformApart DEF SameClaims, c
  <2>4. ~Moves(c, u)'
    BY <1>b, OccupancyAssumption DEF Moves
  <2>5. \A a : Claims(a, u)' => a = Customer[c]
    BY <2>3 DEF Claims
  <2>6. \A d \in Contracts : ~Moves(d, u)'
    BY <2>3, <2>4
  <2> QED
    BY <2>1, <2>3, <2>5, <2>6, FineIfOne
<1> QED
  BY <1>1, <1>2

(* What end and cancel do to the units.                                    *)
LEMMA VacatedGives ==
    ASSUME unit \in UnitType, NEW v, NEW u \in Units
    PROVE  Vacated(v)[u] = IF u = v /\ unit[u] = "occupied" THEN "available" ELSE unit[u]
BY DEF Vacated, UnitType

LEMMA LeaveUnits ==
    ASSUME NEW x, Timely(x), x.op \in {"end", "cancel"}, NEW u \in Units
    PROVE  /\ unit'[u] = "available" =>
                 \/ unit[u] = "available"
                 \/ u = x.row.unit /\ Live(x.c) /\ unit[u] = "occupied"
                 \/ unit[u] = "reserved" /\ ~HeldByOther(u, NoOne, x.c, NoOne)
           /\ unit'[u] = "occupied" => unit[u] = "occupied"
           /\ unit'[u] = "reserved" =>
                 /\ unit[u] = "reserved"
                 /\ u = x.row.move => HeldByOther(u, NoOne, x.c, NoOne)
                 /\ Draft(x.c) /\ u = x.row.unit /\ CancelHeld(x.c, x.row) =>
                       HeldByOther(u, NoOne, x.c, NoOne)
<1>a. unit \in UnitType /\ (x.row.status \in LiveStatus <=> Live(x.c)) /\ (Draft(x.c) => ~Live(x.c))
      /\ (x.op = "end" => Live(x.c))
  BY TimelyRow DEF OccupancyInv, Live, Draft, LiveStatus
<1>b. \A v : Vacated(v) \in UnitType
  BY <1>a, VacatedType
<1>1. CASE x.op = "end"
  <2> DEFINE f == Vacated(x.row.unit)
  <2>1. unit' = Released(f, x.row.move, x.c, NoOne)
    BY <1>1 DEF Timely, Perform, Sign, SetStatus, End, Cancel, ChangeUnit, ScheduleMove,
       CancelScheduledMove
  <2>2. f \in UnitType
    BY <1>b
  <2>3. f[u] = IF u = x.row.unit /\ unit[u] = "occupied" THEN "available" ELSE unit[u]
    BY <1>a, VacatedGives
  <2> HIDE DEF f
  <2>4. /\ unit'[u] = "available" =>
              \/ f[u] = "available"
              \/ u = x.row.move /\ f[u] = "reserved" /\ ~HeldByOther(u, NoOne, x.c, NoOne)
        /\ unit'[u] = "reserved" =>
              f[u] = "reserved" /\ (u = x.row.move => HeldByOther(u, NoOne, x.c, NoOne))
        /\ unit'[u] = "occupied" <=> f[u] = "occupied"
    BY <2>1, <2>2, ReleasedGives
  <2> QED
    BY <1>1, <1>a, <2>3, <2>4
<1>2. CASE x.op = "cancel"
  <2> DEFINE freed == IF CancelHeld(x.c, x.row) THEN Released(unit, x.row.unit, x.c, NoOne)
                      ELSE unit
             f == IF x.row.status \in LiveStatus /\ unit[x.row.unit] = "occupied"
                  THEN Vacated(x.row.unit) ELSE freed
  <2>1. unit' = Released(f, x.row.move, x.c, NoOne)
    BY <1>2 DEF Timely, Perform, Sign, SetStatus, End, Cancel, ChangeUnit, ScheduleMove,
       CancelScheduledMove
  <2>2. freed \in UnitType /\ f \in UnitType
    BY <1>a, <1>b, ReleasedType
  <2>3. /\ freed[u] = "available" =>
              \/ unit[u] = "available"
              \/ unit[u] = "reserved" /\ ~HeldByOther(u, NoOne, x.c, NoOne)
        /\ freed[u] = "reserved" =>
              /\ unit[u] = "reserved"
              /\ u = x.row.unit /\ CancelHeld(x.c, x.row) => HeldByOther(u, NoOne, x.c, NoOne)
        /\ freed[u] = "occupied" <=> unit[u] = "occupied"
    BY <1>a, ReleasedGives
  <2>4. Vacated(x.row.unit)[u] =
           IF u = x.row.unit /\ unit[u] = "occupied" THEN "available" ELSE unit[u]
    BY <1>a, VacatedGives
  <2>5. /\ f[u] = "available" =>
              \/ unit[u] = "available"
              \/ u = x.row.unit /\ Live(x.c) /\ unit[u] = "occupied"
              \/ unit[u] = "reserved" /\ ~HeldByOther(u, NoOne, x.c, NoOne)
        /\ f[u] = "occupied" => unit[u] = "occupied"
        /\ f[u] = "reserved" =>
              /\ unit[u] = "reserved"
              /\ Draft(x.c) /\ u = x.row.unit /\ CancelHeld(x.c, x.row) =>
                    HeldByOther(u, NoOne, x.c, NoOne)
    <3> HIDE DEF freed
    <3>1. CASE f = freed
      <4>1. ~(Live(x.c) /\ u = x.row.unit /\ Draft(x.c))
        BY <1>a
      <4> QED
        BY <2>3, <3>1
    <3>2. CASE f # freed
      <4>1. f = Vacated(x.row.unit) /\ Live(x.c)
        BY <1>a, <3>2
      <4> QED
        BY <1>a, <2>4, <4>1
    <3> QED
      BY <3>1, <3>2
  <2> HIDE DEF f, freed
  <2>6. /\ unit'[u] = "available" =>
              \/ f[u] = "available"
              \/ u = x.row.move /\ f[u] = "reserved" /\ ~HeldByOther(u, NoOne, x.c, NoOne)
        /\ unit'[u] = "reserved" =>
              f[u] = "reserved" /\ (u = x.row.move => HeldByOther(u, NoOne, x.c, NoOne))
        /\ unit'[u] = "occupied" <=> f[u] = "occupied"
    BY <2>1, <2>2, ReleasedGives
  <2> QED
    BY <2>5, <2>6
<1> QED
  BY <1>1, <1>2

(* When a tenant leaves, the unit is clean and nobody else of theirs is    *)
(* booked, nobody is left to claim it.                                     *)
LEMMA LastOne ==
    ASSUME NEW x, Timely(x), x.op \in {"end", "cancel", "changeUnit"}, Live(x.c),
           NEW u \in Units, u = x.row.unit, ClaimsFine(u), unit[u] = "occupied",
           u \notin Shared(x)
    PROVE  /\ \A d \in Contracts \ {x.c} : ~Rents(d, u) /\ ~Books(d, u)
           /\ \A d \in Contracts : ~Moves(d, u)
           /\ \A r \in Reservations : ~Awaits(r, u)
           /\ \A e \in Entries : ~Told(e, u)
<1>a. /\ x.c \in Contracts /\ contract[x.c].unit = u /\ OneLiveContract /\ OccupancyInv
  BY TimelyRow DEF Timely, SteadyInv
<1>1. Rents(x.c, u) /\ Claims(Customer[x.c], u)
  BY <1>a DEF Rents, Claims
<1>2. \A d \in Contracts : ~Moves(d, u)
  BY DEF ClaimsFine
<1>3. \A r \in Reservations : ~Awaits(r, u)
  BY <1>a, <1>1 DEF ClaimsFine
<1>4. \A e \in Entries : ~Told(e, u)
  <2>1. \A e \in Entries : Told(e, u) => e = Customer[x.c]
    BY <1>1 DEF ClaimsFine, Claims
  <2> QED
    BY <1>a, <2>1, OccupancyAssumption
<1>5. \A d \in Contracts \ {x.c} : ~Rents(d, u)
  BY <1>a DEF OneLiveContract, Rents
<1>6. \A d \in Contracts \ {x.c} : ~Books(d, u)
  <2>1. \A d \in Contracts : Books(d, u) => Customer[d] = Customer[x.c]
    BY <1>1 DEF ClaimsFine, Claims
  <2> QED
    BY <2>1 DEF Shared, Books
<1> QED
  BY <1>2, <1>3, <1>4, <1>5, <1>6

LEMMA LeaveClaims ==
    ASSUME NEW x, Timely(x), x.op \in {"end", "cancel"},
           NEW u \in Units, Clean(u), ClaimsFine(u), u \notin Shared(x)
    PROVE  ClaimsFine(u)'
<1> DEFINE c == x.c
<1>a. /\ OccupancyInv /\ UnitTellsTheTruth /\ c \in Contracts /\ SoundRequest(x) /\ Perform(x)
  BY TimelyRow DEF Timely, SteadyInv
<1>b. contract'[c].status = "closed"
  BY <1>a, PerformFields
<1>1. ~Rents(c, u)' /\ ~Moves(c, u)' /\ ~Books(c, u)'
  BY <1>b DEF Rents, Moves, Books, Live, Draft, LiveStatus
<1>2. Fewer(u)
  BY <1>a, <1>1, PerformApart DEF SameClaims, Fewer
<1>3. ASSUME unit'[u] = "available", unit[u] # "available" PROVE NoClaims(u)'
  <2>1. CASE u = x.row.unit /\ Live(c) /\ unit[u] = "occupied"
    <3>1. /\ \A d \in Contracts \ {c} : ~Rents(d, u) /\ ~Books(d, u)
          /\ \A d \in Contracts : ~Moves(d, u)
          /\ \A r \in Reservations : ~Awaits(r, u)
          /\ \A e \in Entries : ~Told(e, u)
      BY <2>1, LastOne
    <3> QED
      BY <1>1, <1>2, <3>1 DEF Fewer, NoClaims
  <2>2. CASE unit[u] = "reserved" /\ ~HeldByOther(u, NoOne, c, NoOne)
    <3>1. ~Rented(u)
      BY <1>a, <2>2, NotRented
    <3>2. /\ \A d \in Contracts : ~Rents(d, u)
          /\ \A d \in Contracts : Moves(d, u) \/ Books(d, u) => d = c
          /\ \A r \in Reservations : Awaits(r, u) => r = NoOne
          /\ \A e \in Entries : Told(e, u) => e = NoOne
      BY <1>a, <2>2, <3>1, FreeOfOthers
    <3> QED
      BY <1>1, <1>2, <3>2, OccupancyAssumption DEF Fewer, NoClaims
  <2> QED
    BY <1>3, <2>1, <2>2, LeaveUnits
<1>4. unit'[u] = "occupied" => unit[u] = "occupied"
  BY LeaveUnits
<1> QED
  BY <1>2, <1>3, <1>4, FineIfFewer

LEMMA ChangeClaims ==
    ASSUME NEW x, Timely(x), x.op = "changeUnit",
           NEW u \in Units, Clean(u), ClaimsFine(u), u \notin Shared(x)
    PROVE  ClaimsFine(u)'
<1> DEFINE c == x.c
<1>a. /\ OccupancyInv /\ UnitTellsTheTruth /\ c \in Contracts /\ SoundRequest(x) /\ Perform(x)
      /\ contract[c].unit = x.row.unit /\ contract[c].move = x.row.move
      /\ x.row.unit \in Units /\ Live(c) /\ x.to \in Units \ {x.row.unit} /\ unit \in UnitType
  BY TimelyRow DEF Timely, SteadyInv, SoundRequest, OccupancyInv
<1>b. /\ contract'[c].status = contract[c].status /\ contract'[c].unit = x.to
      /\ contract'[c].move = NoUnit
  BY <1>a, PerformFields
<1>c. /\ unit[x.to] = "available" \/ (x.row.move = x.to /\ unit[x.to] = "reserved")
      /\ ~OtherHolds(x.to, Customer[c], c, NoOne)
      /\ unit' = [unit EXCEPT ![x.to] = "occupied",
                              ![x.row.unit] = IF @ \in {"occupied", "reserved"}
                                              THEN "available" ELSE @]
  BY <1>a DEF Perform, Sign, SetStatus, End, Cancel, ChangeUnit, ScheduleMove, CancelScheduledMove,
     HeldByOther
<1>d. ~Moves(c, u)' /\ ~Books(c, u)'
  BY <1>a, <1>b, OccupancyAssumption DEF Moves, Books, Live, Draft, LiveStatus
<1>e. u # x.to => ~Rents(c, u)' /\ Fewer(u)
  BY <1>a, <1>b, <1>d, PerformApart DEF SameClaims, Fewer, Rents
<1>1. CASE u = x.to
  <2>1. unit'[u] = "occupied"
    BY <1>1, <1>a, <1>c DEF UnitType
  <2>2. /\ \A d \in Contracts \ {c} : ~Rents(d, u) /\ ~Moves(d, u)
        /\ \A d \in Contracts : Books(d, u) => d = c \/ Customer[d] = Customer[c]
        /\ \A r \in Reservations : ~Awaits(r, u)
        /\ \A e \in Entries : ~Told(e, u)
    <3>1. CASE unit[u] = "available"
      BY <3>1 DEF ClaimsFine, NoClaims
    <3>2. CASE unit[u] = "reserved" /\ x.row.move = u
      <4>1. ~Rented(u)
        BY <1>a, <3>2, NotRented
      <4>2. /\ \A d \in Contracts : Moves(d, u) => d = c
            /\ \A d \in Contracts : Books(d, u) => d = c \/ Customer[d] = Customer[c]
            /\ \A e \in Entries : ~Told(e, u)
        BY <1>1, <1>a, <1>c, OnlyTheirs
      <4>3. Moves(c, u)
        BY <1>a, <3>2 DEF Moves
      <4>4. \A r \in Reservations : ~Awaits(r, u)
        BY <1>a, <4>3 DEF ClaimsFine
      <4> QED
        BY <4>1, <4>2, <4>4 DEF Rented, Rents
    <3> QED
      BY <1>1, <1>c, <3>1, <3>2
  <2>3. /\ \A d \in Contracts \ {c} : ~Rents(d, u)' /\ ~Moves(d, u)'
        /\ \A d \in Contracts \ {c} : Books(d, u)' => Customer[d] = Customer[c]
        /\ \A r \in Reservations : ~Awaits(r, u)'
        /\ \A e \in Entries : ~Told(e, u)'
    BY <1>a, <2>2, PerformApart DEF SameClaims
  <2>4. \A a : Claims(a, u)' => a = Customer[c]
    BY <2>3 DEF Claims
  <2>5. \A d \in Contracts : ~Moves(d, u)'
    BY <1>d, <2>3
  <2> QED
    BY <2>1, <2>3, <2>4, <2>5, FineIfOne
<1>2. CASE u = x.row.unit
  <2>1. Rents(c, u) /\ unit[u] = "occupied"
    BY <1>2, <1>a, NotRented DEF Rents, Rented
  <2>2. unit'[u] = "available"
    BY <1>2, <1>a, <1>c, <2>1 DEF UnitType
  <2>3. /\ \A d \in Contracts \ {c} : ~Rents(d, u) /\ ~Books(d, u)
        /\ \A d \in Contracts : ~Moves(d, u)
        /\ \A r \in Reservations : ~Awaits(r, u)
        /\ \A e \in Entries : ~Told(e, u)
    BY <1>2, <1>a, <2>1, LastOne
  <2>4. u # x.to
    BY <1>2, <1>a
  <2>5. NoClaims(u)'
    BY <1>d, <1>e, <2>3, <2>4 DEF Fewer, NoClaims
  <2> QED
    BY <1>e, <2>2, <2>4, <2>5, FineIfFewer
<1>3. CASE u \notin {x.to, x.row.unit}
  <2>1. unit'[u] = unit[u]
    BY <1>3, <1>a, <1>c DEF UnitType
  <2> QED
    BY <1>3, <1>e, <2>1, FineIfFewer
<1> QED
  BY <1>1, <1>2, <1>3

LEMMA MoveClaims ==
    ASSUME NEW x, Timely(x), x.op \in {"requestEnd", "reactivate", "schedule", "cancelMove"},
           NEW u \in Units, Clean(u), ClaimsFine(u)
    PROVE  ClaimsFine(u)'
<1> DEFINE c == x.c
<1>a. /\ SteadyInv /\ OccupancyInv /\ c \in Contracts /\ SoundRequest(x) /\ Perform(x)
      /\ contract[c].unit = x.row.unit /\ contract[c].move = x.row.move
      /\ Live(c) /\ unit \in UnitType
  BY TimelyRow DEF Timely, SoundRequest, OccupancyInv
<1>b. contract'[c].status \in LiveStatus /\ contract'[c].unit = contract[c].unit
  BY <1>a, PerformFields DEF Live
<1>c. (Rents(c, u)' <=> Rents(c, u)) /\ ~Books(c, u)'
  BY <1>a, <1>b DEF Rents, Books, Live, Draft, LiveStatus
<1>d. (Moves(c, u)' => Moves(c, u)) => Fewer(u)
  BY <1>a, <1>c, PerformApart DEF SameClaims, Fewer
<1>1. CASE x.op \in {"requestEnd", "reactivate"}
  <2>1. contract'[c].move = contract[c].move
    BY <1>1, <1>a, PerformFields
  <2>2. Fewer(u)
    BY <1>a, <1>d, <2>1 DEF Moves
  <2>3. UNCHANGED unit
    BY <1>1, <1>a DEF Perform, Sign, SetStatus, End, Cancel, ChangeUnit, ScheduleMove,
       CancelScheduledMove
  <2> QED
    BY <2>2, <2>3, FineIfFewer
<1>2. CASE x.op = "schedule"
  <2>1. /\ unit[x.to] = "available" /\ x.to \in Units
        /\ unit' = [unit EXCEPT ![x.to] = "reserved"]
    BY <1>2, <1>a DEF Perform, Sign, SetStatus, End, Cancel, ChangeUnit, ScheduleMove,
       CancelScheduledMove, SoundRequest
  <2>2. contract'[c].move = x.to
    BY <1>2, <1>a, PerformFields
  <2>3. CASE u = x.to
    <3>1. NoClaims(u) /\ unit'[u] = "reserved"
      BY <1>a, <2>1, <2>3 DEF ClaimsFine, UnitType
    <3>2. /\ \A d \in Contracts \ {c} : ~Rents(d, u)' /\ ~Moves(d, u)' /\ ~Books(d, u)'
          /\ \A r \in Reservations : ~Awaits(r, u)'
          /\ \A e \in Entries : ~Told(e, u)'
      BY <1>a, <3>1, PerformApart DEF SameClaims, NoClaims
    <3>3. \A a : Claims(a, u)' => a = Customer[c]
      BY <3>2 DEF Claims
    <3> QED
      BY <3>1, <3>2, <3>3, FineIfOne
  <2>4. CASE u # x.to
    <3>1. Fewer(u)
      BY <1>d, <2>2, <2>4 DEF Moves
    <3>2. unit'[u] = unit[u]
      BY <1>a, <2>1, <2>4 DEF UnitType
    <3> QED
      BY <3>1, <3>2, FineIfFewer
  <2> QED
    BY <2>3, <2>4
<1>3. CASE x.op = "cancelMove"
  <2>1. unit' = Released(unit, x.row.move, c, NoOne)
    BY <1>3, <1>a DEF Perform, Sign, SetStatus, End, Cancel, ChangeUnit, ScheduleMove,
       CancelScheduledMove
  <2>2. ~Moves(c, u)'
    BY <1>3, <1>a, PerformFields, OccupancyAssumption DEF Moves
  <2>3. Fewer(u)
    BY <1>d, <2>2
  <2>4. NoOne \notin Reservations \cup Entries
    BY OccupancyAssumption
  <2> QED
    BY <1>a, <1>c, <2>1, <2>2, <2>3, <2>4, ReleaseFine
<1> QED
  BY <1>1, <1>2, <1>3

LEMMA PerformClaims ==
    ASSUME SteadyInv, ClaimsInv, NEW x, SoundRequest(x), Aged(x), Perform(x)
    PROVE  ClaimsInv'
<1>1. SUFFICES ASSUME NEW u \in Units, Clean(u)' PROVE ClaimsFine(u)'
  BY DEF ClaimsInv
<1>2. Clean(u) /\ ClaimsFine(u) /\ IF Outdated(x) THEN u \notin Touched(x) ELSE u \notin Shared(x)
  BY <1>1, PerformClean DEF ClaimsInv
<1>3. CASE Outdated(x)
  BY <1>2, <1>3, OutdatedClaims
<1>4. CASE ~Outdated(x)
  <2>1. Timely(x)
    BY <1>4 DEF Timely
  <2>2. x.op \in {"sign", "requestEnd", "reactivate", "end", "cancel", "changeUnit", "schedule",
                  "cancelMove"}
    BY Operations DEF SoundRequest
  <2> QED
    BY <1>2, <1>4, <2>1, <2>2, SignClaims, LeaveClaims, ChangeClaims, MoveClaims
<1> QED
  BY <1>3, <1>4

(* The claims after the other steps.                                       *)
LEMMA KeptClaims ==
    ASSUME NEW u
    PROVE  /\ UNCHANGED contract => \A d \in Contracts : SameClaims(d, u)
           /\ UNCHANGED res => \A r \in Reservations : /\ Awaits(r, u)' <=> Awaits(r, u)
                                                       /\ res'[r].who = res[r].who
           /\ UNCHANGED entry => \A e \in Entries : Told(e, u)' <=> Told(e, u)
BY DEF SameClaims, Rents, Moves, Books, Live, Draft, Awaits, Told, Notified

LEMMA NewDraftClaims ==
    ASSUME OccupancyInv, NEW u, NEW c \in Contracts, NEW v, NewDraft(c, v)
    PROVE  /\ \A d \in Contracts : SameClaims(d, u)
           /\ ~Rents(c, u)' /\ ~Moves(c, u)' /\ ~Books(c, u)'
<1>1. /\ contract[c].status = "none" /\ contract'[c].status = "draft"
      /\ contract'[c].deadline = "none"
      /\ \A d \in Contracts \ {c} : contract'[d] = contract[d]
  BY DEF NewDraft, NoRow, OccupancyInv, ContractsFine
<1> QED
  BY <1>1 DEF SameClaims, Rents, Moves, Books, Live, Draft, LiveStatus

(* The entry a draft converts keeps no claim.                              *)
LEMMA ConvertedClaims ==
    ASSUME SteadyInv, NEW u \in Units, Clean(u), ClaimsFine(u), UNCHANGED res,
           NEW c \in Contracts, NEW v, NEW e, NewDraft(c, v), EntryConverted(c, e, v)
    PROVE  ClaimsFine(u)'
<1>a. OccupancyInv /\ entry \in [Entries -> EntryRow]
  BY DEF SteadyInv, OccupancyInv, EntriesFine
<1>1. \A d \in Contracts : SameClaims(d, u)
  BY <1>a, NewDraftClaims
<1>2. ~Moves(c, u)' /\ ~Books(c, u)'
  BY <1>a, NewDraftClaims
<1>3. \A r \in Reservations : Awaits(r, u)' => Awaits(r, u) /\ res'[r].who = res[r].who
  BY KeptClaims
<1>4. CASE UNCHANGED <<entry, unit>>
  <2>1. Fewer(u)
    BY <1>1, <1>3, <1>4, KeptClaims DEF SameClaims, Fewer
  <2> QED
    BY <1>4, <2>1, FineIfFewer
<1>5. CASE ~UNCHANGED <<entry, unit>>
  <2> DEFINE row == [status |-> "converted", contract |-> c,
                     held |-> IF entry[e].held = v THEN v ELSE NoUnit]
  <2>1. e \in Entries /\ entry' = [entry EXCEPT ![e] = row]
        /\ unit' \in {unit, Released(unit, entry[e].held, c, e)}
    BY <1>5, <1>a DEF EntryConverted
  <2>2. row.status = "converted"
    OBVIOUS
  <2> HIDE DEF row
  <2>3. ~Told(e, u)' /\ \A k \in Entries : Told(k, u)' => Told(k, u)
    BY <1>a, <2>1, <2>2 DEF Told, Notified
  <2>4. Fewer(u)
    BY <1>1, <1>3, <2>3 DEF SameClaims, Fewer
  <2>5. CASE unit' = unit
    BY <2>4, <2>5, FineIfFewer
  <2>6. CASE unit' = Released(unit, entry[e].held, c, e)
    <3>1. e \notin Reservations
      BY <2>1, OccupancyAssumption
    <3> QED
      BY <1>2, <2>3, <2>4, <2>6, <3>1, ReleaseFine
  <2> QED
    BY <2>1, <2>5, <2>6
<1> QED
  BY <1>4, <1>5

LEMMA ContractClaims ==
    ASSUME SteadyInv, ClaimsInv, NEW c \in Contracts, ContractStep(c)
    PROVE  ClaimsInv'
<1>1. SUFFICES ASSUME NEW u \in Units, Clean(u)' PROVE ClaimsFine(u)'
  BY DEF ClaimsInv
<1>a. /\ OccupancyInv /\ PapersInv /\ OwnBooking(c) /\ unit \in UnitType
      /\ booking[c] \in BookingRow /\ contract \in [Contracts -> Row]
      /\ res \in [Reservations -> ReservationRow]
  BY DEF SteadyInv, OccupancyInv, PapersInv, OwnInv, BookingsFine, ContractsFine, ReservationsFine
<1>2. Clean(u) /\ ClaimsFine(u)
  <2>1. \/ UNCHANGED slip
        \/ \E kind, us : slip' = Mark(kind, us)
    BY DEF ContractStep, CreateDraft, Hold, ConvertReservation, HoldByToken, DraftFromEntry,
       BookingDraft, BookingFails, BookingDeadline, BookingStops, DeadlinePasses
  <2>2. Clean(u)
    BY <1>1, <2>1, MarkClean DEF Clean
  <2> QED
    BY <2>2 DEF ClaimsInv
<1>3. ASSUME NEW v \in Units, CreateDraft(c, v) PROVE ClaimsFine(u)'
  <2>1. NewDraft(c, v) /\ UNCHANGED <<unit, res, entry>>
    BY <1>3 DEF CreateDraft
  <2>2. Fewer(u)
    BY <1>a, <2>1, NewDraftClaims, KeptClaims DEF SameClaims, Fewer
  <2> QED
    BY <1>2, <2>1, <2>2, FineIfFewer
<1>4. ASSUME NEW v \in Units, Hold(c, v) PROVE ClaimsFine(u)'
  <2>1. UNCHANGED <<contract, res, entry>> /\ unit' = [unit EXCEPT ![v] = "reserved"]
    BY <1>4 DEF Hold
  <2>2. Fewer(u)
    BY <2>1, KeptClaims DEF SameClaims, Fewer
  <2>3. unit'[u] \in {unit[u], "reserved"}
    BY <1>a, <2>1 DEF UnitType
  <2> QED
    BY <1>2, <2>2, <2>3, FineIfFewer
<1>5. ASSUME NEW r \in Reservations, ConvertReservation(c, r) PROVE ClaimsFine(u)'
  <2>1. NewDraft(c, res[r].unit) /\ UNCHANGED <<unit, entry>>
        /\ res' = [res EXCEPT ![r].status = "converted", ![r].contract = c]
    BY <1>5 DEF ConvertReservation
  <2>2. ~Awaits(r, u)' /\ \A s \in Reservations \ {r} : res'[s] = res[s]
    BY <1>a, <2>1 DEF Awaits, ReservationRow
  <2>3. \A s \in Reservations : Awaits(s, u)' => Awaits(s, u) /\ res'[s].who = res[s].who
    BY <2>2 DEF Awaits
  <2>4. Fewer(u)
    BY <1>a, <2>1, <2>3, NewDraftClaims, KeptClaims DEF SameClaims, Fewer
  <2> QED
    BY <1>2, <2>1, <2>4, FineIfFewer
<1>6. ASSUME \/ \E e \in Entries : HoldByToken(c, e)
             \/ BookingStops(c) \/ (BookingFails(c) /\ UNCHANGED unit)
      PROVE  ClaimsFine(u)'
  <2>1. UNCHANGED <<contract, res, entry, unit>>
    BY <1>6 DEF HoldByToken, BookingStops, BookingFails
  <2>2. Fewer(u)
    BY <2>1, KeptClaims DEF SameClaims, Fewer
  <2> QED
    BY <1>2, <2>1, <2>2, FineIfFewer
<1>7. ASSUME NEW e, NEW v, NewDraft(c, v), EntryConverted(c, e, v), UNCHANGED res
      PROVE  ClaimsFine(u)'
  BY <1>2, <1>7, ConvertedClaims
<1>8. ASSUME BookingFails(c), ~UNCHANGED unit PROVE ClaimsFine(u)'
  <2> DEFINE v == booking[c].unit
  <2>1. /\ UNCHANGED <<contract, res, entry>> /\ unit' = [unit EXCEPT ![v] = "available"]
        /\ slip' = IF Claimants(v) # {} THEN Mark("window", {v}) ELSE slip
    BY <1>8 DEF BookingFails
  <2>2. u = v => Claimants(u) = {}
    BY <1>1, <2>1, MarkClean
  <2>3. u = v => NoClaims(u)
    BY <2>2, ClaimantsAre
  <2>4. Fewer(u)
    BY <2>1, KeptClaims DEF SameClaims, Fewer
  <2>5. NoClaims(u) => NoClaims(u)'
    BY <2>4 DEF NoClaims, Fewer
  <2>6. unit'[u] = IF u = v THEN "available" ELSE unit[u]
    BY <1>a, <2>1 DEF UnitType
  <2> HIDE DEF v
  <2> QED
    BY <1>2, <2>3, <2>4, <2>5, <2>6, FineIfFewer
<1>9. ASSUME BookingDeadline(c) PROVE ClaimsFine(u)'
  <2> DEFINE v == booking[c].unit
  <2>1. /\ UNCHANGED <<unit, res, entry>> /\ booking[c].pc = "drafted"
        /\ contract' = [contract EXCEPT ![c].deadline = "open"]
        /\ slip' = IF unit[v] # "reserved" \/ Claimants(v) # {} THEN Mark("window", {v}) ELSE slip
    BY <1>9 DEF BookingDeadline
  <2>2. Draft(c) /\ contract[c].unit = v
    BY <1>a, <2>1 DEF OwnBooking
  <2>3. /\ contract'[c].status = "draft" /\ contract'[c].unit = v
        /\ \A d \in Contracts \ {c} : contract'[d] = contract[d]
    BY <1>a, <2>1, <2>2 DEF Row, Draft
  <2>4. /\ \A d \in Contracts \ {c} : SameClaims(d, u)
        /\ ~Rents(c, u)' /\ ~Moves(c, u)' /\ (Books(c, u)' => u = v)
    BY <2>3 DEF SameClaims, Rents, Moves, Books, Live, Draft, LiveStatus
  <2>5. CASE u = v
    <3>1. unit[u] = "reserved" /\ Claimants(u) = {}
      BY <1>1, <2>1, <2>5, MarkClean
    <3>2. NoClaims(u)
      BY <3>1, ClaimantsAre
    <3>3. /\ \A d \in Contracts \ {c} : ~Rents(d, u)' /\ ~Moves(d, u)' /\ ~Books(d, u)'
          /\ \A r \in Reservations : ~Awaits(r, u)'
          /\ \A e \in Entries : ~Told(e, u)'
      BY <2>1, <2>4, <3>2, KeptClaims DEF SameClaims, NoClaims
    <3>4. \A a : Claims(a, u)' => a = Customer[c]
      BY <3>3 DEF Claims
    <3> QED
      BY <2>1, <3>1, <3>3, <3>4, FineIfOne
  <2>6. CASE u # v
    <3>1. Fewer(u)
      BY <2>1, <2>4, <2>6, KeptClaims DEF SameClaims, Fewer
    <3> QED
      BY <1>2, <2>1, <3>1, FineIfFewer
  <2> QED
    BY <2>5, <2>6
<1>10. ASSUME DeadlinePasses(c) PROVE ClaimsFine(u)'
  <2>1. UNCHANGED <<unit, res, entry>> /\ contract' = [contract EXCEPT ![c].deadline = "past"]
    BY <1>10 DEF DeadlinePasses
  <2>2. /\ \A d \in Contracts : (Rents(d, u)' <=> Rents(d, u)) /\ (Moves(d, u)' <=> Moves(d, u))
        /\ \A d \in Contracts : Books(d, u)' => Books(d, u)
    BY <1>a, <2>1 DEF Rents, Moves, Books, Live, Draft, Row
  <2>3. Fewer(u)
    BY <2>1, <2>2, KeptClaims DEF Fewer
  <2> QED
    BY <1>2, <2>1, <2>3, FineIfFewer
<1> QED
  BY <1>3, <1>4, <1>5, <1>6, <1>7, <1>8, <1>9, <1>10 DEF ContractStep, DraftFromEntry, BookingDraft

(* A reservation is confirmed where nobody else is promised the unit.      *)
LEMMA ReservedClaims ==
    ASSUME SteadyInv, NEW u \in Units, Clean(u), ClaimsFine(u), NEW who, Reservable(u, who),
           UNCHANGED <<contract, entry>>, unit'[u] = "reserved", NEW r \in Reservations,
           \A s \in Reservations \ {r} : ~Awaits(s, u)', res'[r].who = who
    PROVE  ClaimsFine(u)'
<1>1. OccupancyInv /\ ~Rented(u) /\ ~OtherHolds(u, who, NoContract, NoOne)
  BY NotRented DEF SteadyInv, Reservable
<1>2. /\ \A d \in Contracts : ~Rents(d, u) /\ ~Moves(d, u)
      /\ \A d \in Contracts : Books(d, u) => Customer[d] = who
      /\ \A e \in Entries : ~Told(e, u)
  BY <1>1, OnlyTheirs, OccupancyAssumption DEF Rented, Rents
<1>3. /\ \A d \in Contracts : ~Rents(d, u)' /\ ~Moves(d, u)'
      /\ \A d \in Contracts : Books(d, u)' => Customer[d] = who
      /\ \A e \in Entries : ~Told(e, u)'
  BY <1>2, KeptClaims DEF SameClaims
<1>4. \A a : Claims(a, u)' => a = who
  BY <1>3 DEF Claims
<1> QED
  BY <1>3, <1>4, FineIfOne

LEMMA ReservationClaims ==
    ASSUME SteadyInv, ClaimsInv, NEW r \in Reservations, ReservationStep(r)
    PROVE  ClaimsInv'
<1>1. SUFFICES ASSUME NEW u \in Units, Clean(u)' PROVE ClaimsFine(u)'
  BY DEF ClaimsInv
<1>a. /\ OccupancyInv /\ PapersInv /\ OverlapInv /\ unit \in UnitType
      /\ res \in [Reservations -> ReservationRow] /\ res[r] \in ReservationRow
      /\ \A s \in Reservations : Open(s) => res[s].unit \in Units /\ res[s].who \in Customers
  BY DEF SteadyInv, OccupancyInv, PapersInv, ReservationsFine
<1>b. UNCHANGED <<contract, entry>> /\ \A s \in Reservations \ {r} : res'[s] = res[s]
  BY <1>a DEF ReservationStep, CreateReservation, Confirm, DuePasses, CloseReservation
<1>c. \A s \in Reservations \ {r} : Awaits(s, u)' <=> Awaits(s, u)
  BY <1>b DEF Awaits
<1>d. (Awaits(r, u)' => Awaits(r, u) /\ res'[r].who = res[r].who) => Fewer(u)
  BY <1>b, <1>c, KeptClaims DEF SameClaims, Fewer
<1>2. Clean(u) /\ ClaimsFine(u)
  <2>1. UNCHANGED slip \/ \E us : slip' = Mark("left", us)
    BY DEF ReservationStep, CreateReservation, Confirm, DuePasses, CloseReservation
  <2>2. Clean(u)
    BY <1>1, <2>1, MarkClean DEF Clean
  <2> QED
    BY <2>2 DEF ClaimsInv
<1>3. ASSUME NEW v \in Units, NEW who \in Customers, NEW confirmed \in BOOLEAN,
             CreateReservation(r, v, who, confirmed)
      PROVE  ClaimsFine(u)'
  <2>1. /\ res'[r].unit = v /\ res'[r].who = who
        /\ res'[r].status = IF confirmed THEN "confirmed" ELSE "pending"
        /\ Reservable(v, who) /\ NoOverlap(v)
        /\ unit' = IF confirmed THEN Reserved(v) ELSE unit
    BY <1>a, <1>3 DEF CreateReservation, ReservationRow
  <2>2. CASE confirmed /\ u = v
    <3>1. \A s \in Reservations : ~Awaits(s, u)
      <4>1. \A s \in Reservations : Awaits(s, u) => res[s].who = NoOne
        BY <2>1, <2>2, OnlyTheirReservations DEF NoOverlap
      <4>2. \A s \in Reservations : Awaits(s, u) => res[s].who \in Customers
        BY <1>a DEF Awaits, Open, OpenRes
      <4> QED
        BY <4>1, <4>2, OccupancyAssumption
    <3>2. unit'[u] = "reserved"
      BY <1>a, <2>1, <2>2 DEF Reserved, UnitType
    <3> QED
      BY <1>2, <1>b, <1>c, <2>1, <2>2, <3>1, <3>2, ReservedClaims
  <2>3. CASE ~(confirmed /\ u = v)
    <3>1. ~Awaits(r, u)' /\ unit'[u] = unit[u]
      BY <1>a, <2>1, <2>3 DEF Awaits, Reserved, UnitType
    <3> QED
      BY <1>2, <1>d, <3>1, FineIfFewer
  <2> QED
    BY <2>2, <2>3
<1>4. ASSUME Confirm(r) PROVE ClaimsFine(u)'
  <2> DEFINE v == res[r].unit
  <2>1. /\ res[r].status = "pending" /\ ~res[r].due /\ Reservable(v, res[r].who)
        /\ res'[r].unit = v /\ res'[r].who = res[r].who /\ unit' = Reserved(v)
    BY <1>a, <1>4 DEF Confirm, ReservationRow
  <2>2. CASE u = v
    <3>1. \A s \in Reservations \ {r} : ~Awaits(s, u)
      BY <1>a, <2>1, <2>2 DEF OverlapInv, Pending, Open, OpenRes, Awaits
    <3>2. unit'[u] = "reserved"
      BY <1>a, <2>1, <2>2 DEF Reserved, UnitType
    <3> HIDE DEF v
    <3> QED
      BY <1>2, <1>b, <1>c, <2>1, <2>2, <3>1, <3>2, ReservedClaims
  <2>3. CASE u # v
    <3>1. ~Awaits(r, u)' /\ unit'[u] = unit[u]
      BY <1>a, <2>1, <2>3 DEF Awaits, Reserved, UnitType
    <3> QED
      BY <1>2, <1>d, <3>1, FineIfFewer
  <2> QED
    BY <2>2, <2>3
<1>5. ASSUME DuePasses(r) PROVE ClaimsFine(u)'
  <2>1. ~Awaits(r, u)' /\ UNCHANGED unit
    BY <1>a, <1>5 DEF DuePasses, Awaits, ReservationRow
  <2> QED
    BY <1>2, <1>d, <2>1, FineIfFewer
<1>6. ASSUME CloseReservation(r) PROVE ClaimsFine(u)'
  <2>1. /\ ~Awaits(r, u)'
        /\ UNCHANGED unit \/ unit' = Released(unit, res[r].unit, NoContract, r)
    BY <1>a, <1>6 DEF CloseReservation, Awaits, NoReservation
  <2>2. Fewer(u)
    BY <1>d, <2>1
  <2>3. CASE UNCHANGED unit
    BY <1>2, <2>2, <2>3, FineIfFewer
  <2>4. CASE unit' = Released(unit, res[r].unit, NoContract, r)
    <3>1. NoContract \notin Contracts /\ r \notin Entries
      BY OccupancyAssumption
    <3> QED
      BY <1>2, <2>1, <2>2, <2>4, <3>1, ReleaseFine
  <2> QED
    BY <2>1, <2>3, <2>4
<1> QED
  BY <1>3, <1>4, <1>5, <1>6 DEF ReservationStep

LEMMA EntryClaims ==
    ASSUME SteadyInv, ClaimsInv, NEW e \in Entries, EntryStep(e)
    PROVE  ClaimsInv'
<1>1. SUFFICES ASSUME NEW u \in Units, Clean(u)' PROVE ClaimsFine(u)'
  BY DEF ClaimsInv
<1>a. /\ OccupancyInv /\ unit \in UnitType /\ entry \in [Entries -> EntryRow]
      /\ entry[e] \in EntryRow
  BY DEF SteadyInv, OccupancyInv, EntriesFine
<1>b. UNCHANGED <<contract, res>> /\ \A k \in Entries \ {e} : entry'[k] = entry[k]
  BY <1>a DEF EntryStep, Notify, ExpireEntry, FreeUnit, FreeStops, ResolveEntry
<1>c. (~Told(e, u)' \/ Told(e, u)) => Fewer(u)
  BY <1>b, KeptClaims DEF SameClaims, Fewer, Told, Notified
<1>2. Clean(u) /\ ClaimsFine(u)
  <2>1. UNCHANGED slip \/ \E us : slip' = Mark("left", us)
    BY DEF EntryStep, Notify, ExpireEntry, FreeUnit, FreeStops, ResolveEntry
  <2>2. Clean(u)
    BY <1>1, <2>1, MarkClean DEF Clean
  <2> QED
    BY <2>2 DEF ClaimsInv
<1>3. ASSUME NEW v \in Units, Notify(e, v) PROVE ClaimsFine(u)'
  <2>1. /\ unit[v] = "available" /\ unit' = Reserved(v)
        /\ entry'[e].status = "notified" /\ entry'[e].held = v
    BY <1>a, <1>3 DEF Notify, EntryRow
  <2>2. CASE u = v
    <3>1. NoClaims(u) /\ unit'[u] = "reserved"
      BY <1>2, <1>a, <2>1, <2>2 DEF ClaimsFine, Reserved, UnitType
    <3>2. /\ \A d \in Contracts : ~Rents(d, u)' /\ ~Moves(d, u)' /\ ~Books(d, u)'
          /\ \A r \in Reservations : ~Awaits(r, u)'
          /\ \A k \in Entries \ {e} : ~Told(k, u)'
      BY <1>b, <3>1, KeptClaims DEF SameClaims, NoClaims, Told, Notified
    <3>3. \A a : Claims(a, u)' => a = e
      BY <3>2 DEF Claims
    <3> QED
      BY <3>1, <3>2, <3>3, FineIfOne
  <2>3. CASE u # v
    <3>1. ~Told(e, u)' /\ unit'[u] = unit[u]
      BY <1>a, <2>1, <2>3 DEF Told, Reserved, UnitType
    <3> QED
      BY <1>2, <1>c, <3>1, FineIfFewer
  <2> QED
    BY <2>2, <2>3
<1>4. ASSUME ~Told(e, u)', NEW x \in {e, NoOne},
             UNCHANGED unit \/ unit' = Released(unit, entry[e].held, NoContract, x)
      PROVE  ClaimsFine(u)'
  <2>1. Fewer(u)
    BY <1>4, <1>c
  <2>2. CASE UNCHANGED unit
    BY <1>2, <2>1, <2>2, FineIfFewer
  <2>3. CASE unit' = Released(unit, entry[e].held, NoContract, x)
    <3>1. NoContract \notin Contracts /\ x \notin Reservations
      BY OccupancyAssumption
    <3>2. x \in Entries => x = e
      BY OccupancyAssumption
    <3> QED
      BY <1>2, <1>4, <2>1, <2>3, <3>1, <3>2, ReleaseFine
  <2> QED
    BY <1>4, <2>2, <2>3
<1>5. ASSUME ExpireEntry(e) PROVE ClaimsFine(u)'
  <2>1. ~Told(e, u)' /\ UNCHANGED unit
    BY <1>a, <1>5 DEF ExpireEntry, Told, Notified, EntryRow
  <2> QED
    BY <1>4, <2>1
<1>6. ASSUME FreeUnit(e) \/ FreeStops(e) PROVE ClaimsFine(u)'
  <2>1. /\ ~Told(e, u)'
        /\ UNCHANGED unit \/ unit' = Released(unit, entry[e].held, NoContract, NoOne)
    BY <1>a, <1>6 DEF FreeUnit, FreeStops, Told, Notified, ClosedEntry
  <2> QED
    BY <1>4, <2>1
<1>7. ASSUME NEW status, ResolveEntry(e, status) PROVE ClaimsFine(u)'
  <2>1. /\ \/ /\ status = "converted" /\ UNCHANGED unit
              /\ \E c \in Contracts :
                    entry' = [entry EXCEPT ![e].status = status, ![e].contract = c]
           \/ /\ entry' = [entry EXCEPT ![e] = ClosedEntry]
              /\ unit' = Released(unit, entry[e].held, NoContract, e)
    BY <1>7 DEF ResolveEntry
  <2>2. ~Told(e, u)'
    BY <1>a, <2>1 DEF Told, Notified, ClosedEntry, EntryRow
  <2> QED
    BY <1>4, <2>1, <2>2
<1> QED
  BY <1>3, <1>5, <1>6, <1>7 DEF EntryStep

LEMMA StatusClaims ==
    ASSUME SteadyInv, ClaimsInv, NEW v \in Units, ChangeStatus(v)
    PROVE  ClaimsInv'
<1>1. SUFFICES ASSUME NEW u \in Units, Clean(u)' PROVE ClaimsFine(u)'
  BY DEF ClaimsInv
<1>a. OccupancyInv /\ unit \in UnitType /\ unit[v] \in UnitStatus
  BY DEF SteadyInv, OccupancyInv, UnitType
<1>2. UNCHANGED <<contract, res, entry, slip>> /\ ~Rented(v)
  BY DEF ChangeStatus, Rented
<1>3. Clean(u) /\ ClaimsFine(u) /\ Fewer(u)
  BY <1>1, <1>2, KeptClaims DEF Clean, ClaimsInv, SameClaims, Fewer
<1>4. \/ unit' = Reserved(v)
      \/ unit' = [unit EXCEPT ![v] = "maintenance"]
      \/ /\ unit' = [unit EXCEPT ![v] = "available"]
         /\ ~HeldByOther(v, NoOne, NoContract, NoOne)
  BY <1>a DEF ChangeStatus, ByHand, UnitStatus
<1>5. unit'[u] = "occupied" => unit[u] = "occupied"
  BY <1>a, <1>4 DEF Reserved, UnitType
<1>6. ASSUME unit'[u] = "available", unit[u] # "available" PROVE NoClaims(u)'
  <2>1. u = v /\ ~HeldByOther(u, NoOne, NoContract, NoOne)
    BY <1>a, <1>4, <1>6 DEF Reserved, UnitType
  <2>2. NoClaims(u)
    BY <1>2, <1>a, <2>1, FreeOfOthers, OccupancyAssumption DEF NoClaims
  <2> QED
    BY <1>3, <2>2 DEF Fewer, NoClaims
<1> QED
  BY <1>3, <1>5, <1>6, FineIfFewer

LEMMA InitClaims == Init => ClaimsInv
<1> SUFFICES ASSUME Init, NEW u \in Units PROVE ClaimsFine(u)
  BY DEF ClaimsInv
<1>1. NoClaims(u) /\ unit[u] = "available"
  BY DEF Init, NoClaims, Rents, Moves, Books, Awaits, Told, Live, Draft, Notified, LiveStatus,
     NoRow, NoReservation, ClosedEntry
<1>2. \A a : ~Claims(a, u)
  BY <1>1 DEF NoClaims, Claims
<1> QED
  BY <1>1, <1>2 DEF ClaimsFine, NoClaims

LEMMA StepClaims ==
    ASSUME SteadyInv, ClaimsInv, [Next]_vars
    PROVE  ClaimsInv'
<1>a. OccupancyInv /\ OwnInv /\ AgedInv
  BY DEF SteadyInv, PapersInv
<1>1. ASSUME UNCHANGED <<unit, contract, res, entry, slip>> PROVE ClaimsInv'
  <2>2. ASSUME NEW u \in Units, Clean(u)' PROVE ClaimsFine(u)'
    <3>1. Clean(u) /\ ClaimsFine(u) /\ Fewer(u) /\ unit'[u] = unit[u]
      BY <1>1, <2>2, KeptClaims DEF Clean, ClaimsInv, SameClaims, Fewer
    <3> QED
      BY <3>1, FineIfFewer
  <2> QED
    BY <2>2 DEF ClaimsInv
<1>2. CASE RequestStep
  BY <1>1, <1>2, <1>a, RequestReads, PerformClaims
<1>3. CASE OtherStep
  BY <1>3, ContractClaims, ReservationClaims, EntryClaims, StatusClaims DEF OtherStep
<1> QED
  BY <1>1, <1>2, <1>3, NextCases DEF vars

LEMMA OneClaimantFollows == ClaimsInv => OneClaimant
<1> SUFFICES ASSUME ClaimsInv, NEW u \in Units, Clean(u) PROVE Cardinality(Claimants(u)) <= 1
  BY DEF OneClaimant, Clean
<1>1. \A a, b \in Claimants(u) : a = b
  BY ClaimantsAre DEF ClaimsInv, ClaimsFine
<1>2. CASE Claimants(u) = {}
  BY <1>2, FS_EmptySet
<1>3. CASE Claimants(u) # {}
  <2>1. PICK a : a \in Claimants(u)
    BY <1>3
  <2>2. Claimants(u) = {a}
    BY <1>1, <2>1
  <2> QED
    BY <2>2, FS_Singleton
<1> QED
  BY <1>2, <1>3

(* A unit is promised to one person at a time, whatever requests,          *)
(* bookings, reservations, moves and waitlist notices run on it.           *)
THEOREM OccupancyOneClaimant == Spec => []OneClaimant
<1>1. Init => SteadyInv /\ ClaimsInv
  BY InitInv, InitPapers, InitOneLive, InitAgrees, InitClaims DEF SteadyInv
<1>2. SteadyInv /\ ClaimsInv /\ [Next]_vars => (SteadyInv /\ ClaimsInv)'
  BY StepInv, StepPapers, StepOneLive, StepAgrees, StepClaims DEF SteadyInv
<1> QED
  BY <1>1, <1>2, OneClaimantFollows, PTL DEF Spec

-----------------------------------------------------------------------------
(* Whom a unit out of sale waits for, one by one: whose row gives it back. *)
OpenAt(r, u)     == Open(r) /\ res[r].unit = u
Promised(d, u)   == /\ Draft(d) /\ contract[d].unit = u
                    /\ contract[d].deadline # "none" \/ BornOfHold(d, u)
HeldOnline(d, u) == /\ booking[d].pc # "none"
                    /\ booking[d].entry = NoOne /\ booking[d].unit = u
EntryAt(e, u)    == entry[e].status \in {"notified", "expired"} /\ entry[e].held = u

Waits(u) ==
    \/ \E d \in Contracts : Moves(d, u) \/ Promised(d, u) \/ HeldOnline(d, u)
    \/ \E r \in Reservations : OpenAt(r, u)
    \/ \E e \in Entries : EntryAt(e, u)

Untouched(u) == slip[u] \cap {"outdated", "left"} = {}
WaitFine(u)  == unit[u] = "reserved" => Waits(u)
WaitsInv     == \A u \in Units : Untouched(u) => WaitFine(u)

LEMMA ReservedForSomeoneFollows == OccupancyInv /\ WaitsInv => ReservedForSomeone
<1> SUFFICES ASSUME OccupancyInv, NEW u \in Units, Waits(u) PROVE WaitedFor(u)
  BY DEF WaitsInv, WaitFine, Untouched, ReservedForSomeone
<1>1. ASSUME NEW d \in Contracts, Moves(d, u) PROVE WaitedFor(u)
  <2>1. Claims(Customer[d], u)
    BY <1>1 DEF Claims
  <2> QED
    BY <2>1, ClaimantsAre DEF WaitedFor
<1>2. ASSUME NEW d \in Contracts, HeldOnline(d, u) PROVE WaitedFor(u)
  BY <1>2 DEF HeldOnline, WaitedFor, OccupancyInv, BookingsFine, BookingRow
<1>3. ASSUME NEW e \in Entries, EntryAt(e, u) PROVE WaitedFor(u)
  <2>1. CASE Told(e, u)
    <3>1. Claims(e, u)
      BY <2>1 DEF Claims
    <3> QED
      BY <3>1, ClaimantsAre DEF WaitedFor
  <2>2. CASE entry[e].status = "expired"
    BY <1>3, <2>2 DEF EntryAt, WaitedFor
  <2> QED
    BY <1>3, <2>1, <2>2 DEF EntryAt, Told, Notified
<1>4. (\E d \in Contracts : Promised(d, u)) \/ (\E r \in Reservations : OpenAt(r, u)) => WaitedFor(u)
  BY DEF WaitedFor, Promised, OpenAt
<1> QED
  BY <1>1, <1>2, <1>3, <1>4 DEF Waits

(* What is converted is never written again: the draft keeps its origin.   *)
RecordsKept ==
    /\ \A r \in Reservations : res[r].status = "converted" => res'[r] = res[r]
    /\ \A e \in Entries : entry[e].status = "converted" => entry'[e] = entry[e]

LEMMA PerformRecords ==
    ASSUME OccupancyInv, NEW x, SoundRequest(x), Perform(x)
    PROVE  RecordsKept
<1>1. UNCHANGED entry /\ (x.op # "sign" => UNCHANGED res)
  BY PerformFields
<1>2. CASE x.op = "sign"
  <2>1. Sign(x)
    BY <1>2 DEF Perform, SetStatus, End, Cancel, ChangeUnit, ScheduleMove, CancelScheduledMove
  <2> QED
    BY <1>1, <2>1 DEF Sign, RecordsKept, Open, OpenRes
<1> QED
  BY <1>1, <1>2 DEF RecordsKept

LEMMA OtherRecords ==
    ASSUME OccupancyInv, OtherStep
    PROVE  RecordsKept
<1>a. res \in [Reservations -> ReservationRow] /\ entry \in [Entries -> EntryRow]
  BY DEF OccupancyInv, ReservationsFine, EntriesFine
<1>1. ASSUME NEW c \in Contracts, ContractStep(c) PROVE RecordsKept
  BY <1>a, <1>1 DEF ContractStep, CreateDraft, Hold, ConvertReservation, HoldByToken,
     DraftFromEntry, BookingDraft, EntryConverted, BookingFails, BookingDeadline, BookingStops,
     DeadlinePasses, RecordsKept, Open, OpenRes
<1>2. ASSUME NEW r \in Reservations, ReservationStep(r) PROVE RecordsKept
  BY <1>a, <1>2 DEF ReservationStep, CreateReservation, Confirm, DuePasses, CloseReservation,
     RecordsKept, Open, OpenRes
<1>3. ASSUME NEW e \in Entries, EntryStep(e) PROVE RecordsKept
  BY <1>a, <1>3 DEF EntryStep, Notify, ExpireEntry, FreeUnit, FreeStops, ResolveEntry,
     RecordsKept, Notified
<1>4. ASSUME NEW u \in Units, ChangeStatus(u) PROVE RecordsKept
  BY <1>4 DEF ChangeStatus, RecordsKept
<1> QED
  BY <1>1, <1>2, <1>3, <1>4 DEF OtherStep

LEMMA BornStays ==
    ASSUME TiedInv, RecordsKept, NEW d \in Contracts, NEW u, BornOfHold(d, u)
    PROVE  BornOfHold(d, u)'
<1>1. CASE \E r \in Reservations : /\ res[r].status = "converted"
                                   /\ res[r].unit = u /\ res[r].contract = d
  BY <1>1 DEF RecordsKept, BornOfHold
<1>2. CASE \E e \in Entries : entry[e].held = u /\ entry[e].contract = d
  <2>1. PICK e \in Entries : entry[e].held = u /\ entry[e].contract = d
    BY <1>2
  <2>2. entry[e].status = "converted"
    BY <2>1, OccupancyAssumption DEF TiedInv
  <2>3. entry'[e] = entry[e]
    BY <2>2 DEF RecordsKept
  <2> QED
    BY <2>1, <2>3 DEF BornOfHold
<1> QED
  BY <1>1, <1>2 DEF BornOfHold

(* All but contract c and reservation or entry x go on waiting.            *)
Lasting(u, c, x) ==
    /\ \A d \in Contracts \ {c} : /\ Moves(d, u) => Moves(d, u)'
                                  /\ Promised(d, u) => Promised(d, u)'
                                  /\ HeldOnline(d, u) => HeldOnline(d, u)'
    /\ \A r \in Reservations \ {x} : OpenAt(r, u) => OpenAt(r, u)'
    /\ \A e \in Entries \ {x} : EntryAt(e, u) => EntryAt(e, u)'

LEMMA OthersLast ==
    ASSUME TiedInv, RecordsKept, NEW u, NEW c,
           \A d \in Contracts \ {c} : contract'[d] = contract[d] /\ booking'[d] = booking[d]
    PROVE  \A d \in Contracts \ {c} : /\ Moves(d, u) => Moves(d, u)'
                                      /\ Promised(d, u) => Promised(d, u)'
                                      /\ HeldOnline(d, u) => HeldOnline(d, u)'
<1>1. \A d \in Contracts \ {c} : BornOfHold(d, u) => BornOfHold(d, u)'
  BY BornStays
<1> QED
  BY <1>1 DEF Moves, Promised, HeldOnline, Live, Draft

(* If all that stops waiting leaves somebody waiting, somebody waits.      *)
LEMMA StillWaits ==
    ASSUME NEW u, NEW c, NEW x, Lasting(u, c, x), Waits(u),
           c \in Contracts /\ (Moves(c, u) \/ Promised(c, u) \/ HeldOnline(c, u)) => Waits(u)',
           x \in Reservations /\ OpenAt(x, u) => Waits(u)',
           x \in Entries /\ EntryAt(x, u) => Waits(u)'
    PROVE  Waits(u)'
BY DEF Lasting, Waits

(* Who holds a unit for unitHeldByOther also waits for it.                 *)
LEMMA HeldThenWaits ==
    ASSUME NEW u, NEW c, NEW x, HeldByOther(u, NoOne, c, x)
    PROVE  \/ \E d \in Contracts \ {c} : Moves(d, u) \/ Promised(d, u)
           \/ \E r \in Reservations \ {x} : OpenAt(r, u)
           \/ \E e \in Entries \ {x} : Told(e, u)
BY DEF HeldByOther, ReservationHolds, OtherHolds, Moves, Promised, OpenAt, Told

LEMMA OthersWait ==
    ASSUME NEW u, NEW c, NEW x, Lasting(u, c, x), HeldByOther(u, NoOne, c, x)
    PROVE  Waits(u)'
<1>1. \A e \in Entries : Told(e, u) => EntryAt(e, u)
  BY DEF Told, EntryAt, Notified
<1> QED
  BY <1>1, HeldThenWaits DEF Lasting, Waits

LEMMA PerformUntouched ==
    ASSUME NEW x, Perform(x), NEW u \in Units, Untouched(u)'
    PROVE  Untouched(u) /\ IF Outdated(x) THEN u \notin Touched(x) ELSE u \notin Forgotten(x)
<1>1. CASE Outdated(x)
  BY <1>1 DEF Perform, Mark, Marked, Untouched
<1>2. CASE ~Outdated(x)
  BY <1>2 DEF Perform, Mark, Marked, Untouched
<1> QED
  BY <1>1, <1>2

(* Others go on waiting through an operation on contract x.c, but for the  *)
(* reservations of the unit that is signed for.                            *)
LEMMA PerformLasting ==
    ASSUME OccupancyInv, TiedInv, NEW x, SoundRequest(x), Aged(x), Perform(x), NEW u \in Units,
           x.op # "sign" \/ u # x.row.unit
    PROVE  Lasting(u, x.c, NoOne) /\ ~HeldOnline(x.c, u)
<1>a. RecordsKept
  BY PerformRecords
<1>b. /\ UNCHANGED <<entry, booking>> /\ \A d \in Contracts \ {x.c} : contract'[d] = contract[d]
      /\ booking[x.c].pc = "none" /\ (x.op # "sign" => UNCHANGED res)
  BY PerformFields DEF Aged
<1>1. \A r \in Reservations : OpenAt(r, u) => OpenAt(r, u)'
  <2>1. CASE x.op # "sign"
    BY <1>b, <2>1 DEF OpenAt, Open
  <2>2. CASE x.op = "sign"
    <3>1. Sign(x)
      BY <2>2 DEF Perform, SetStatus, End, Cancel, ChangeUnit, ScheduleMove, CancelScheduledMove
    <3>2. \A r \in Reservations : res[r].unit = u => res'[r] = res[r]
      BY <2>2, <3>1 DEF Sign
    <3> QED
      BY <3>2 DEF OpenAt, Open
  <2> QED
    BY <2>1, <2>2
<1>2. \A e \in Entries : EntryAt(e, u) => EntryAt(e, u)'
  BY <1>b DEF EntryAt
<1>3. \A d \in Contracts \ {x.c} : /\ Moves(d, u) => Moves(d, u)'
                                   /\ Promised(d, u) => Promised(d, u)'
                                   /\ HeldOnline(d, u) => HeldOnline(d, u)'
  BY <1>a, <1>b, OthersLast
<1> QED
  BY <1>b, <1>1, <1>2, <1>3 DEF Lasting, HeldOnline

(* It is enough that somebody waits in the place of contract c.            *)
LEMMA InItsPlace ==
    ASSUME NEW c, NEW u \in Units, Lasting(u, c, NoOne), WaitFine(u),
           unit'[u] = "reserved" => unit[u] = "reserved",
           unit'[u] = "reserved" /\ (Moves(c, u) \/ Promised(c, u) \/ HeldOnline(c, u)) => Waits(u)'
    PROVE  WaitFine(u)'
<1> SUFFICES ASSUME unit'[u] = "reserved" PROVE Waits(u)'
  BY DEF WaitFine
<1>1. Waits(u)
  BY DEF WaitFine
<1> QED
  BY <1>1, StillWaits, OccupancyAssumption

LEMMA OutdatedWaits ==
    ASSUME OccupancyInv, TiedInv, NEW x, SoundRequest(x), Aged(x), Perform(x), Outdated(x),
           NEW u \in Units, u \notin Touched(x), WaitFine(u)
    PROVE  WaitFine(u)'
<1>1. u \notin {x.row.unit, x.row.move, x.to, contract[x.c].unit, contract[x.c].move}
  BY DEF Touched
<1>2. unit'[u] = unit[u]
  BY <1>1, PerformApart
<1>3. Lasting(u, x.c, NoOne) /\ ~HeldOnline(x.c, u)
  BY <1>1, PerformLasting
<1>4. ~Moves(x.c, u) /\ ~Promised(x.c, u)
  BY <1>1 DEF Moves, Promised
<1> QED
  BY <1>2, <1>3, <1>4, InItsPlace

LEMMA SignWaits ==
    ASSUME NEW x, Timely(x), x.op = "sign", NEW u \in Units, WaitFine(u)
    PROVE  WaitFine(u)'
<1>a. /\ OccupancyInv /\ TiedInv /\ x.c \in Contracts /\ SoundRequest(x) /\ Aged(x) /\ Perform(x)
      /\ contract[x.c].unit = x.row.unit /\ contract[x.c].move = NoUnit /\ unit \in UnitType
  BY TimelyRow DEF Timely, SteadyInv, PapersInv, OccupancyInv
<1>1. unit' = [unit EXCEPT ![x.row.unit] = "occupied"]
  BY <1>a DEF Perform, Sign, SetStatus, End, Cancel, ChangeUnit, ScheduleMove, CancelScheduledMove
<1>2. CASE u = x.row.unit
  <2>1. unit'[u] = "occupied"
    BY <1>a, <1>1, <1>2 DEF UnitType
  <2> QED
    BY <2>1 DEF WaitFine
<1>3. CASE u # x.row.unit
  <2>1. Lasting(u, x.c, NoOne) /\ ~HeldOnline(x.c, u)
    BY <1>a, <1>3, PerformLasting
  <2>2. ~Moves(x.c, u) /\ ~Promised(x.c, u) /\ unit'[u] = unit[u]
    BY <1>a, <1>1, <1>3, OccupancyAssumption DEF Moves, Promised, UnitType
  <2> QED
    BY <2>1, <2>2, InItsPlace
<1> QED
  BY <1>2, <1>3

LEMMA LeaveWaits ==
    ASSUME NEW x, Timely(x), x.op \in {"end", "cancel"}, NEW u \in Units, WaitFine(u)
    PROVE  WaitFine(u)'
<1> DEFINE c == x.c
<1>a. /\ OccupancyInv /\ TiedInv /\ c \in Contracts /\ SoundRequest(x) /\ Aged(x) /\ Perform(x)
      /\ contract[c].unit = x.row.unit /\ contract[c].move = x.row.move
  BY TimelyRow DEF Timely, SteadyInv, PapersInv
<1>1. Lasting(u, c, NoOne) /\ ~HeldOnline(c, u)
  BY <1>a, PerformLasting
<1>2. HeldByOther(u, NoOne, c, NoOne) => Waits(u)'
  BY <1>1, OthersWait
<1>3. /\ unit'[u] = "reserved" => unit[u] = "reserved"
      /\ unit'[u] = "reserved" /\ Moves(c, u) => Waits(u)'
  BY <1>a, <1>2, LeaveUnits DEF Moves
<1>4. Promised(c, u) => CancelHeld(c, x.row)
  <2>1. BornOfHold(c, u) => CancelHeld(c, x.row)
    BY DEF BornOfHold, CancelHeld
  <2>2. Promised(c, u) /\ ~BornOfHold(c, u) => x.row.deadline # "none"
    BY <1>a DEF Promised, Aged
  <2> QED
    BY <2>1, <2>2 DEF CancelHeld
<1>5. unit'[u] = "reserved" /\ Promised(c, u) => Waits(u)'
  BY <1>a, <1>2, <1>4, LeaveUnits DEF Promised
<1> HIDE DEF c
<1> QED
  BY <1>1, <1>3, <1>5, InItsPlace

LEMMA ChangeWaits ==
    ASSUME NEW x, Timely(x), x.op = "changeUnit", NEW u \in Units, WaitFine(u),
           u \notin Forgotten(x)
    PROVE  WaitFine(u)'
<1> DEFINE c == x.c
<1>a. /\ OccupancyInv /\ TiedInv /\ c \in Contracts /\ SoundRequest(x) /\ Aged(x) /\ Perform(x)
      /\ x.row.unit \in Units /\ Live(c) /\ x.to \in Units \ {x.row.unit} /\ unit \in UnitType
  BY TimelyRow DEF Timely, SteadyInv, PapersInv, SoundRequest, OccupancyInv
<1>1. unit' = [unit EXCEPT ![x.to] = "occupied",
                           ![x.row.unit] = IF @ \in {"occupied", "reserved"}
                                           THEN "available" ELSE @]
  BY <1>a DEF Perform, Sign, SetStatus, End, Cancel, ChangeUnit, ScheduleMove, CancelScheduledMove
<1>2. CASE u \in {x.to, x.row.unit}
  <2>1. unit'[u] # "reserved"
    BY <1>a, <1>1, <1>2 DEF UnitType
  <2> QED
    BY <2>1 DEF WaitFine
<1>3. CASE u \notin {x.to, x.row.unit}
  <2>1. unit'[u] = unit[u]
    BY <1>a, <1>1, <1>3 DEF UnitType
  <2>2. Lasting(u, c, NoOne) /\ ~HeldOnline(c, u)
    BY <1>a, PerformLasting
  <2>3. ~Moves(c, u) /\ ~Promised(c, u)
    BY <1>3, <1>a DEF Forgotten, Moves, Promised, Live, Draft, LiveStatus
  <2> HIDE DEF c
  <2> QED
    BY <2>1, <2>2, <2>3, InItsPlace
<1> QED
  BY <1>2, <1>3

LEMMA MoveWaits ==
    ASSUME NEW x, Timely(x), x.op \in {"requestEnd", "reactivate", "schedule", "cancelMove"},
           NEW u \in Units, WaitFine(u)
    PROVE  WaitFine(u)'
<1> DEFINE c == x.c
<1>a. /\ OccupancyInv /\ TiedInv /\ c \in Contracts /\ SoundRequest(x) /\ Aged(x) /\ Perform(x)
      /\ contract[c].move = x.row.move /\ Live(c) /\ unit \in UnitType
  BY TimelyRow DEF Timely, SteadyInv, PapersInv, SoundRequest, OccupancyInv
<1>b. contract'[c].status \in LiveStatus
  BY <1>a, PerformFields DEF Live
<1>c. Lasting(u, c, NoOne) /\ ~HeldOnline(c, u) /\ ~Promised(c, u)
  BY <1>a, PerformLasting DEF Promised, Live, Draft, LiveStatus
<1>d. Moves(c, u)' => Waits(u)'
  BY <1>a DEF Waits
<1>1. CASE x.op \in {"requestEnd", "reactivate"}
  <2>1. contract'[c].move = contract[c].move
    BY <1>1, <1>a, PerformFields
  <2>2. Moves(c, u) => Moves(c, u)'
    BY <1>b, <2>1 DEF Moves, Live
  <2>3. UNCHANGED unit
    BY <1>1, <1>a DEF Perform, Sign, SetStatus, End, Cancel, ChangeUnit, ScheduleMove,
       CancelScheduledMove
  <2> HIDE DEF c
  <2> QED
    BY <1>c, <1>d, <2>2, <2>3, InItsPlace
<1>2. CASE x.op = "schedule"
  <2>1. x.to \in Units /\ unit' = [unit EXCEPT ![x.to] = "reserved"] /\ x.row.move = NoUnit
    BY <1>2, <1>a DEF Perform, Sign, SetStatus, End, Cancel, ChangeUnit, ScheduleMove,
       CancelScheduledMove, SoundRequest, Aged
  <2>2. contract'[c].move = x.to
    BY <1>2, <1>a, PerformFields
  <2>3. CASE u = x.to
    <3>1. Moves(c, u)'
      BY <1>b, <2>2, <2>3 DEF Moves, Live
    <3> QED
      BY <1>d, <3>1 DEF WaitFine
  <2>4. CASE u # x.to
    <3>1. unit'[u] = unit[u] /\ ~Moves(c, u)
      BY <1>a, <2>1, <2>4, OccupancyAssumption DEF UnitType, Moves
    <3> HIDE DEF c
    <3> QED
      BY <1>c, <3>1, InItsPlace
  <2> QED
    BY <2>3, <2>4
<1>3. CASE x.op = "cancelMove"
  <2>1. unit' = Released(unit, x.row.move, c, NoOne)
    BY <1>3, <1>a DEF Perform, Sign, SetStatus, End, Cancel, ChangeUnit, ScheduleMove,
       CancelScheduledMove
  <2>2. unit'[u] = "reserved" => /\ unit[u] = "reserved"
                                 /\ u = x.row.move => HeldByOther(u, NoOne, c, NoOne)
    BY <1>a, <2>1, ReleasedGives
  <2>3. unit'[u] = "reserved" /\ Moves(c, u) => Waits(u)'
    BY <1>a, <1>c, <2>2, OthersWait DEF Moves
  <2> HIDE DEF c
  <2> QED
    BY <1>c, <2>2, <2>3, InItsPlace
<1> QED
  BY <1>1, <1>2, <1>3

LEMMA PerformWaits ==
    ASSUME SteadyInv, WaitsInv, NEW x, SoundRequest(x), Aged(x), Perform(x)
    PROVE  WaitsInv'
<1>1. SUFFICES ASSUME NEW u \in Units, Untouched(u)' PROVE WaitFine(u)'
  BY DEF WaitsInv
<1>2. WaitFine(u) /\ IF Outdated(x) THEN u \notin Touched(x) ELSE u \notin Forgotten(x)
  BY <1>1, PerformUntouched DEF WaitsInv
<1>3. CASE Outdated(x)
  BY <1>2, <1>3, OutdatedWaits DEF SteadyInv, PapersInv
<1>4. CASE ~Outdated(x)
  <2>1. Timely(x)
    BY <1>4 DEF Timely
  <2>2. x.op \in {"sign", "requestEnd", "reactivate", "end", "cancel", "changeUnit", "schedule",
                  "cancelMove"}
    BY Operations DEF SoundRequest
  <2> QED
    BY <1>2, <1>4, <2>1, <2>2, SignWaits, LeaveWaits, ChangeWaits, MoveWaits
<1> QED
  BY <1>3, <1>4

(* Who waits through the other steps.                                      *)
LEMMA KeptWaits ==
    ASSUME NEW u
    PROVE  /\ UNCHANGED res => \A r \in Reservations : OpenAt(r, u) => OpenAt(r, u)'
           /\ UNCHANGED entry => \A e \in Entries : EntryAt(e, u) => EntryAt(e, u)'
BY DEF OpenAt, Open, EntryAt

LEMMA NewDraftWaits ==
    ASSUME OccupancyInv, OwnInv, NEW c \in Contracts, NEW v, NewDraft(c, v), NEW u
    PROVE  /\ ~Moves(c, u) /\ ~Promised(c, u)
           /\ Draft(c)' /\ contract'[c].unit = v
BY DEF NewDraft, NoRow, OccupancyInv, ContractsFine, Moves, Promised, Live, Draft, LiveStatus

(* An entry that a draft converts waits through it, if it held the unit of *)
(* the draft; the other unit it held is given back unless others wait.     *)
LEMMA ConvertedWaits ==
    ASSUME OccupancyInv, OwnInv, NEW u \in Units, WaitFine(u), NEW c \in Contracts, NEW v, NEW e,
           NewDraft(c, v), EntryConverted(c, e, v), UNCHANGED res, HeldOnline(c, u) => HeldOnline(c, u)',
           \A d \in Contracts \ {c} : /\ Moves(d, u) => Moves(d, u)'
                                      /\ Promised(d, u) => Promised(d, u)'
                                      /\ HeldOnline(d, u) => HeldOnline(d, u)'
    PROVE  WaitFine(u)'
<1>a. entry \in [Entries -> EntryRow] /\ unit \in UnitType
  BY DEF OccupancyInv, EntriesFine
<1>b. HeldOnline(c, u) => Waits(u)'
  BY DEF Waits
<1>c. ~Moves(c, u) /\ ~Promised(c, u) /\ Draft(c)' /\ contract'[c].unit = v
  BY NewDraftWaits
<1>1. CASE UNCHANGED <<entry, unit>>
  <2>1. Lasting(u, c, NoOne)
    BY <1>1, KeptWaits DEF Lasting
  <2> QED
    BY <1>1, <1>b, <1>c, <2>1, InItsPlace
<1>2. CASE ~UNCHANGED <<entry, unit>>
  <2> DEFINE row == [status |-> "converted", contract |-> c,
                     held |-> IF entry[e].held = v THEN v ELSE NoUnit]
  <2>1. /\ e \in Entries /\ entry[e].status \in {"waiting", "notified"}
        /\ entry' = [entry EXCEPT ![e] = row]
        /\ unit' = IF entry[e].held # v THEN Released(unit, entry[e].held, c, e) ELSE unit
    BY <1>2, <1>a DEF EntryConverted
  <2>2. row.contract = c /\ (entry[e].held = v => row.held = v)
    OBVIOUS
  <2> HIDE DEF row
  <2>3. /\ \A k \in Entries \ {e} : entry'[k] = entry[k]
        /\ entry'[e] = row
    BY <1>a, <2>1
  <2>4. Lasting(u, c, e)
    BY <2>3, KeptWaits DEF Lasting, EntryAt
  <2>5. unit'[u] = "reserved" => /\ unit[u] = "reserved"
                                 /\ u = entry[e].held /\ u # v => HeldByOther(u, NoOne, c, e)
    BY <1>a, <2>1, ReleasedGives
  <2>6. ASSUME unit'[u] = "reserved", EntryAt(e, u) PROVE Waits(u)'
    <3>1. CASE u = v
      <4>1. BornOfHold(c, u)'
        BY <2>1, <2>2, <2>3, <2>6, <3>1 DEF EntryAt, BornOfHold
      <4> QED
        BY <1>c, <3>1, <4>1 DEF Promised, Waits
    <3>2. CASE u # v
      BY <2>4, <2>5, <2>6, <3>2, OthersWait DEF EntryAt
    <3> QED
      BY <3>1, <3>2
  <2>7. e \notin Reservations
    BY <2>1, OccupancyAssumption
  <2>8. ASSUME unit'[u] = "reserved" PROVE Waits(u)'
    <3>1. Waits(u)
      BY <2>5, <2>8 DEF WaitFine
    <3> QED
      BY <1>b, <1>c, <2>4, <2>6, <2>7, <2>8, <3>1, StillWaits
  <2> QED
    BY <2>8 DEF WaitFine
<1> QED
  BY <1>1, <1>2

LEMMA ContractWaits ==
    ASSUME SteadyInv, WaitsInv, NEW c \in Contracts, ContractStep(c)
    PROVE  WaitsInv'
<1>1. SUFFICES ASSUME NEW u \in Units, Untouched(u)' PROVE WaitFine(u)'
  BY DEF WaitsInv
<1>a. /\ OccupancyInv /\ OwnInv /\ TiedInv /\ OwnBooking(c) /\ unit \in UnitType
      /\ booking \in [Contracts -> BookingRow] /\ booking[c] \in BookingRow
      /\ contract \in [Contracts -> Row] /\ contract[c] \in Row
      /\ res \in [Reservations -> ReservationRow]
  BY DEF SteadyInv, OccupancyInv, PapersInv, OwnInv, BookingsFine, ContractsFine, ReservationsFine
<1>b. RecordsKept
  BY <1>a, OtherRecords DEF OtherStep
<1>c. \A d \in Contracts \ {c} : contract'[d] = contract[d] /\ booking'[d] = booking[d]
  BY <1>a DEF ContractStep, CreateDraft, Hold, ConvertReservation, HoldByToken, DraftFromEntry,
     NewDraft, BookingDraft, BookingFails, BookingDeadline, BookingStops, DeadlinePasses
<1>d. \A d \in Contracts \ {c} : /\ Moves(d, u) => Moves(d, u)'
                                 /\ Promised(d, u) => Promised(d, u)'
                                 /\ HeldOnline(d, u) => HeldOnline(d, u)'
  BY <1>a, <1>b, <1>c, OthersLast
<1>e. UNCHANGED <<res, entry>> => Lasting(u, c, NoOne)
  BY <1>d, KeptWaits DEF Lasting
<1>f. booking[c].pc = "none" => ~HeldOnline(c, u)
  BY DEF HeldOnline
<1>g. Promised(c, u)' \/ HeldOnline(c, u)' => Waits(u)'
  BY DEF Waits
<1>h. BornOfHold(c, u) => BornOfHold(c, u)'
  BY <1>a, <1>b, BornStays
<1>2. WaitFine(u)
  <2>1. \/ UNCHANGED slip
        \/ \E kind, us : slip' = Mark(kind, us)
    BY DEF ContractStep, CreateDraft, Hold, ConvertReservation, HoldByToken, DraftFromEntry,
       BookingDraft, BookingFails, BookingDeadline, BookingStops, DeadlinePasses
  <2>2. Untouched(u)
    BY <1>1, <2>1 DEF Mark, Marked, Untouched
  <2> QED
    BY <2>2 DEF WaitsInv
<1>3. ASSUME NEW v \in Units, CreateDraft(c, v) PROVE WaitFine(u)'
  <2>1. NewDraft(c, v) /\ UNCHANGED <<unit, res, entry>> /\ booking[c].pc = "none"
    BY <1>3 DEF CreateDraft
  <2>2. ~Moves(c, u) /\ ~Promised(c, u)
    BY <1>a, <2>1, NewDraftWaits
  <2> QED
    BY <1>2, <1>e, <1>f, <2>1, <2>2, InItsPlace
<1>4. ASSUME NEW v \in Units, Hold(c, v) PROVE WaitFine(u)'
  <2>1. /\ UNCHANGED <<contract, res, entry>> /\ unit' = [unit EXCEPT ![v] = "reserved"]
        /\ contract[c].status = "none" /\ booking[c].pc = "none"
        /\ booking' = [booking EXCEPT ![c] = [pc |-> "held", unit |-> v, entry |-> NoOne]]
    BY <1>4 DEF Hold
  <2>2. CASE u = v
    <3>1. HeldOnline(c, u)'
      BY <1>a, <2>1, <2>2 DEF HeldOnline
    <3> QED
      BY <1>g, <3>1 DEF WaitFine
  <2>3. CASE u # v
    <3>1. unit'[u] = unit[u] /\ ~Moves(c, u) /\ ~Promised(c, u)
      BY <1>a, <2>1, <2>3 DEF UnitType, Moves, Promised, Live, Draft, LiveStatus
    <3> QED
      BY <1>2, <1>e, <1>f, <2>1, <3>1, InItsPlace
  <2> QED
    BY <2>2, <2>3
<1>5. ASSUME NEW r \in Reservations, ConvertReservation(c, r) PROVE WaitFine(u)'
  <2>1. NewDraft(c, res[r].unit) /\ UNCHANGED <<unit, entry>> /\ booking[c].pc = "none"
        /\ res' = [res EXCEPT ![r].status = "converted", ![r].contract = c]
    BY <1>5 DEF ConvertReservation
  <2>2. /\ \A s \in Reservations \ {r} : res'[s] = res[s]
        /\ res'[r].status = "converted" /\ res'[r].contract = c /\ res'[r].unit = res[r].unit
    BY <1>a, <2>1 DEF ReservationRow
  <2>3. Lasting(u, c, r)
    BY <1>d, <2>1, <2>2, KeptWaits DEF Lasting, OpenAt, Open
  <2>4. ~Moves(c, u) /\ ~Promised(c, u) /\ Draft(c)' /\ contract'[c].unit = res[r].unit
    BY <1>a, <2>1, NewDraftWaits
  <2>5. OpenAt(r, u) => Promised(c, u)'
    BY <2>2, <2>4 DEF OpenAt, Promised, BornOfHold
  <2>6. r \notin Entries
    BY OccupancyAssumption
  <2>7. Waits(u) => Waits(u)'
    BY <1>f, <1>g, <2>1, <2>3, <2>4, <2>5, <2>6, StillWaits
  <2> QED
    BY <1>2, <2>1, <2>7 DEF WaitFine
<1>6. ASSUME NEW e \in Entries, HoldByToken(c, e) PROVE WaitFine(u)'
  <2>1. UNCHANGED <<unit, contract, res, entry>> /\ contract[c].status = "none"
        /\ booking[c].pc = "none"
    BY <1>6 DEF HoldByToken
  <2>2. ~Moves(c, u) /\ ~Promised(c, u)
    BY <2>1 DEF Moves, Promised, Live, Draft, LiveStatus
  <2> QED
    BY <1>2, <1>e, <1>f, <2>1, <2>2, InItsPlace
<1>7. ASSUME NEW e \in Entries, NEW v \in Units, DraftFromEntry(c, e, v) PROVE WaitFine(u)'
  <2>1. NewDraft(c, v) /\ EntryConverted(c, e, v) /\ UNCHANGED res /\ booking[c].pc = "none"
    BY <1>7 DEF DraftFromEntry
  <2> QED
    BY <1>2, <1>a, <1>d, <1>f, <2>1, ConvertedWaits
<1>8. ASSUME BookingDraft(c) PROVE WaitFine(u)'
  <2>1. /\ NewDraft(c, booking[c].unit) /\ UNCHANGED res
        /\ EntryConverted(c, booking[c].entry, booking[c].unit)
        /\ booking' = [booking EXCEPT ![c].pc = "drafted"]
    BY <1>8 DEF BookingDraft
  <2>2. HeldOnline(c, u) => HeldOnline(c, u)'
    BY <1>a, <2>1 DEF HeldOnline, BookingRow
  <2> QED
    BY <1>2, <1>a, <1>d, <2>1, <2>2, ConvertedWaits
<1>9. ASSUME BookingFails(c) PROVE WaitFine(u)'
  <2>1. /\ UNCHANGED <<contract, res, entry>> /\ booking[c].pc = "held"
        /\ \/ /\ booking[c].entry = NoOne /\ unit[booking[c].unit] = "reserved"
              /\ unit' = [unit EXCEPT ![booking[c].unit] = "available"]
           \/ /\ ~(booking[c].entry = NoOne /\ unit[booking[c].unit] = "reserved")
              /\ UNCHANGED unit
    BY <1>9 DEF BookingFails
  <2>2. contract[c].status = "none"
    BY <1>a, <2>1 DEF OwnBooking
  <2>3. ~Moves(c, u) /\ ~Promised(c, u)
    BY <2>2 DEF Moves, Promised, Live, Draft, LiveStatus
  <2>4. /\ unit'[u] = "reserved" => unit[u] = "reserved"
        /\ HeldOnline(c, u) => unit'[u] # "reserved"
    BY <1>a, <2>1 DEF UnitType, HeldOnline
  <2> QED
    BY <1>2, <1>e, <2>1, <2>3, <2>4, InItsPlace
<1>10. ASSUME BookingDeadline(c) PROVE WaitFine(u)'
  <2>1. /\ UNCHANGED <<unit, res, entry>> /\ booking[c].pc = "drafted"
        /\ contract' = [contract EXCEPT ![c].deadline = "open"]
    BY <1>10 DEF BookingDeadline
  <2>2. Draft(c) /\ contract[c].unit = booking[c].unit
    BY <1>a, <2>1 DEF OwnBooking
  <2>3. Draft(c)' /\ contract'[c].unit = contract[c].unit /\ contract'[c].deadline = "open"
    BY <1>a, <2>1, <2>2 DEF Row, Draft
  <2>4. ~Moves(c, u)
    BY <2>2 DEF Moves, Live, Draft, LiveStatus
  <2>5. Promised(c, u) \/ HeldOnline(c, u) => Promised(c, u)'
    BY <2>2, <2>3 DEF Promised, HeldOnline
  <2> QED
    BY <1>2, <1>e, <1>g, <2>1, <2>4, <2>5, InItsPlace
<1>11. ASSUME BookingStops(c) PROVE WaitFine(u)'
  <2>1. /\ UNCHANGED <<unit, contract, res, entry>>
        /\ slip' = Mark("left", {booking[c].unit})
    BY <1>11 DEF BookingStops
  <2>2. u # booking[c].unit
    BY <1>1, <2>1 DEF Mark, Marked, Untouched
  <2>3. ~HeldOnline(c, u)
    BY <2>2 DEF HeldOnline
  <2>4. (Moves(c, u) => Moves(c, u)') /\ (Promised(c, u) => Promised(c, u)')
    BY <1>h, <2>1 DEF Moves, Promised, Live, Draft
  <2>5. Moves(c, u)' => Waits(u)'
    BY DEF Waits
  <2> QED
    BY <1>2, <1>e, <1>g, <2>1, <2>3, <2>4, <2>5, InItsPlace
<1>12. ASSUME DeadlinePasses(c) PROVE WaitFine(u)'
  <2>1. /\ UNCHANGED <<unit, res, entry, booking>> /\ Draft(c)
        /\ contract' = [contract EXCEPT ![c].deadline = "past"]
    BY <1>12 DEF DeadlinePasses
  <2>2. Draft(c)' /\ contract'[c].unit = contract[c].unit /\ contract'[c].deadline = "past"
    BY <1>a, <2>1 DEF Row, Draft
  <2>3. ~Moves(c, u) /\ (Promised(c, u) => Promised(c, u)') /\ (HeldOnline(c, u) => HeldOnline(c, u)')
    BY <2>1, <2>2 DEF Moves, Promised, HeldOnline, Live, Draft, LiveStatus
  <2> QED
    BY <1>2, <1>e, <1>g, <2>1, <2>3, InItsPlace
<1> QED
  BY <1>3, <1>4, <1>5, <1>6, <1>7, <1>8, <1>9, <1>10, <1>11, <1>12 DEF ContractStep

LEMMA ReservationWaits ==
    ASSUME SteadyInv, WaitsInv, NEW r \in Reservations, ReservationStep(r)
    PROVE  WaitsInv'
<1>1. SUFFICES ASSUME NEW u \in Units, Untouched(u)' PROVE WaitFine(u)'
  BY DEF WaitsInv
<1>a. /\ OccupancyInv /\ TiedInv /\ unit \in UnitType
      /\ res \in [Reservations -> ReservationRow] /\ res[r] \in ReservationRow
  BY DEF SteadyInv, OccupancyInv, PapersInv, ReservationsFine
<1>b. /\ UNCHANGED <<contract, entry, booking>>
      /\ \A s \in Reservations \ {r} : res'[s] = res[s]
  BY <1>a DEF ReservationStep, CreateReservation, Confirm, DuePasses, CloseReservation
<1>c. RecordsKept
  BY <1>a, OtherRecords DEF OtherStep
<1>d. Lasting(u, NoContract, r)
  <2>1. \A d \in Contracts \ {NoContract} : /\ Moves(d, u) => Moves(d, u)'
                                            /\ Promised(d, u) => Promised(d, u)'
                                            /\ HeldOnline(d, u) => HeldOnline(d, u)'
    BY <1>a, <1>b, <1>c, OthersLast
  <2> QED
    BY <1>b, <2>1, KeptWaits DEF Lasting, OpenAt, Open
<1>e. OpenAt(r, u)' => Waits(u)'
  BY DEF Waits
<1>f. ASSUME OpenAt(r, u) => Waits(u)' PROVE Waits(u) => Waits(u)'
  <2>1. r \notin Entries /\ NoContract \notin Contracts
    BY OccupancyAssumption
  <2> QED
    BY <1>d, <1>f, <2>1, StillWaits
<1>2. WaitFine(u)
  <2>1. UNCHANGED slip \/ \E us : slip' = Mark("left", us)
    BY DEF ReservationStep, CreateReservation, Confirm, DuePasses, CloseReservation
  <2>2. Untouched(u)
    BY <1>1, <2>1 DEF Mark, Marked, Untouched
  <2> QED
    BY <2>2 DEF WaitsInv
<1>3. ASSUME NEW v \in Units, NEW who \in Customers, NEW confirmed \in BOOLEAN,
             CreateReservation(r, v, who, confirmed)
      PROVE  WaitFine(u)'
  <2>1. /\ res[r].status = "none" /\ res'[r].unit = v
        /\ res'[r].status = IF confirmed THEN "confirmed" ELSE "pending"
        /\ unit' = IF confirmed THEN Reserved(v) ELSE unit
    BY <1>a, <1>3 DEF CreateReservation, ReservationRow
  <2>2. ~OpenAt(r, u)
    BY <2>1 DEF OpenAt, Open, OpenRes
  <2>3. CASE u = v
    <3>1. OpenAt(r, u)'
      BY <2>1, <2>3 DEF OpenAt, Open, OpenRes
    <3> QED
      BY <1>e, <3>1 DEF WaitFine
  <2>4. CASE u # v
    <3>1. unit'[u] = unit[u]
      BY <1>a, <2>1, <2>4 DEF Reserved, UnitType
    <3> QED
      BY <1>2, <1>f, <2>2, <3>1 DEF WaitFine
  <2> QED
    BY <2>3, <2>4
<1>4. ASSUME Confirm(r) \/ DuePasses(r) PROVE WaitFine(u)'
  <2>1. /\ Open(r)' /\ res'[r].unit = res[r].unit
        /\ UNCHANGED unit \/ unit' = Reserved(res[r].unit)
    BY <1>a, <1>4 DEF Confirm, DuePasses, Open, OpenRes, ReservationRow
  <2>2. OpenAt(r, u) => OpenAt(r, u)'
    BY <2>1 DEF OpenAt
  <2>3. CASE u = res[r].unit
    <3>1. OpenAt(r, u)'
      BY <2>1, <2>3 DEF OpenAt
    <3> QED
      BY <1>e, <3>1 DEF WaitFine
  <2>4. CASE u # res[r].unit
    <3>1. unit'[u] = unit[u]
      BY <1>a, <2>1, <2>4 DEF Reserved, UnitType
    <3> QED
      BY <1>2, <1>e, <1>f, <2>2, <3>1 DEF WaitFine
  <2> QED
    BY <2>3, <2>4
<1>5. ASSUME CloseReservation(r) PROVE WaitFine(u)'
  <2> DEFINE v == res[r].unit
  <2>1. \/ /\ unit' = Released(unit, v, NoContract, r)
        \/ /\ slip' = IF unit[v] = "reserved" THEN Mark("left", {v}) ELSE slip
           /\ UNCHANGED unit
    BY <1>5 DEF CloseReservation
  <2>2. CASE unit' = Released(unit, v, NoContract, r)
    <3>1. unit'[u] = "reserved" => /\ unit[u] = "reserved"
                                   /\ u = v => HeldByOther(u, NoOne, NoContract, r)
      BY <1>a, <2>2, ReleasedGives
    <3>2. unit'[u] = "reserved" /\ OpenAt(r, u) => Waits(u)'
      BY <1>d, <3>1, OthersWait DEF OpenAt
    <3> QED
      BY <1>2, <1>f, <3>1, <3>2 DEF WaitFine
  <2>3. CASE /\ slip' = IF unit[v] = "reserved" THEN Mark("left", {v}) ELSE slip
             /\ UNCHANGED unit
    <3>1. unit[u] = "reserved" => ~OpenAt(r, u)
      BY <1>1, <2>3 DEF Mark, Marked, Untouched, OpenAt
    <3> QED
      BY <1>2, <1>f, <2>3, <3>1 DEF WaitFine
  <2> QED
    BY <2>1, <2>2, <2>3
<1> QED
  BY <1>3, <1>4, <1>5 DEF ReservationStep

LEMMA EntryWaits ==
    ASSUME SteadyInv, WaitsInv, NEW e \in Entries, EntryStep(e)
    PROVE  WaitsInv'
<1>1. SUFFICES ASSUME NEW u \in Units, Untouched(u)' PROVE WaitFine(u)'
  BY DEF WaitsInv
<1>a. /\ OccupancyInv /\ TiedInv /\ unit \in UnitType
      /\ entry \in [Entries -> EntryRow] /\ entry[e] \in EntryRow
  BY DEF SteadyInv, OccupancyInv, PapersInv, EntriesFine
<1>b. /\ UNCHANGED <<contract, res, booking>>
      /\ \A k \in Entries \ {e} : entry'[k] = entry[k]
  BY <1>a DEF EntryStep, Notify, ExpireEntry, FreeUnit, FreeStops, ResolveEntry
<1>c. RecordsKept
  BY <1>a, OtherRecords DEF OtherStep
<1>d. Lasting(u, NoContract, e)
  <2>1. \A d \in Contracts \ {NoContract} : /\ Moves(d, u) => Moves(d, u)'
                                            /\ Promised(d, u) => Promised(d, u)'
                                            /\ HeldOnline(d, u) => HeldOnline(d, u)'
    BY <1>a, <1>b, <1>c, OthersLast
  <2> QED
    BY <1>b, <2>1, KeptWaits DEF Lasting, EntryAt
<1>e. EntryAt(e, u)' => Waits(u)'
  BY DEF Waits
<1>f. ASSUME EntryAt(e, u) => Waits(u)' PROVE Waits(u) => Waits(u)'
  <2>1. e \notin Reservations /\ NoContract \notin Contracts
    BY OccupancyAssumption
  <2> QED
    BY <1>d, <1>f, <2>1, StillWaits
<1>2. WaitFine(u)
  <2>1. UNCHANGED slip \/ \E us : slip' = Mark("left", us)
    BY DEF EntryStep, Notify, ExpireEntry, FreeUnit, FreeStops, ResolveEntry
  <2>2. Untouched(u)
    BY <1>1, <2>1 DEF Mark, Marked, Untouched
  <2> QED
    BY <2>2 DEF WaitsInv
<1>3. ASSUME NEW v \in Units, Notify(e, v) PROVE WaitFine(u)'
  <2>1. /\ entry[e].status = "waiting" /\ unit' = Reserved(v)
        /\ entry'[e].status = "notified" /\ entry'[e].held = v
    BY <1>a, <1>3 DEF Notify, EntryRow
  <2>2. CASE u = v
    <3>1. EntryAt(e, u)'
      BY <2>1, <2>2 DEF EntryAt
    <3> QED
      BY <1>e, <3>1 DEF WaitFine
  <2>3. CASE u # v
    <3>1. unit'[u] = unit[u] /\ ~EntryAt(e, u)
      BY <1>a, <2>1, <2>3 DEF Reserved, UnitType, EntryAt
    <3> QED
      BY <1>2, <1>f, <3>1 DEF WaitFine
  <2> QED
    BY <2>2, <2>3
<1>4. ASSUME ExpireEntry(e) PROVE WaitFine(u)'
  <2>1. UNCHANGED unit /\ entry'[e].status = "expired" /\ entry'[e].held = entry[e].held
    BY <1>a, <1>4 DEF ExpireEntry, EntryRow
  <2>2. EntryAt(e, u) => EntryAt(e, u)'
    BY <2>1 DEF EntryAt
  <2> QED
    BY <1>2, <1>e, <1>f, <2>1, <2>2 DEF WaitFine
<1>5. ASSUME unit' = Released(unit, entry[e].held, NoContract, e) PROVE WaitFine(u)'
  <2>1. unit'[u] = "reserved" =>
            /\ unit[u] = "reserved"
            /\ u = entry[e].held => HeldByOther(u, NoOne, NoContract, e)
    BY <1>a, <1>5, ReleasedGives
  <2>2. unit'[u] = "reserved" /\ EntryAt(e, u) => Waits(u)'
    BY <1>d, <2>1, OthersWait DEF EntryAt
  <2> QED
    BY <1>2, <1>f, <2>1, <2>2 DEF WaitFine
<1>6. ASSUME FreeUnit(e) PROVE WaitFine(u)'
  <2>1. /\ unit' = Released(unit, entry[e].held, NoContract, NoOne)
        /\ entry[e].status = "expired"
    BY <1>6 DEF FreeUnit
  <2>2. unit'[u] = "reserved" =>
            /\ unit[u] = "reserved"
            /\ u = entry[e].held => HeldByOther(u, NoOne, NoContract, NoOne)
    BY <1>a, <2>1, ReleasedGives
  <2>3. HeldByOther(u, NoOne, NoContract, NoOne) => HeldByOther(u, NoOne, NoContract, e)
    <3>1. e \notin Reservations /\ ~Notified(e)
      BY <2>1, OccupancyAssumption DEF Notified
    <3> QED
      BY <3>1 DEF HeldByOther, ReservationHolds, OtherHolds
  <2>4. unit'[u] = "reserved" /\ EntryAt(e, u) => Waits(u)'
    BY <1>d, <2>2, <2>3, OthersWait DEF EntryAt
  <2> QED
    BY <1>2, <1>f, <2>2, <2>4 DEF WaitFine
<1>7. ASSUME FreeStops(e) PROVE WaitFine(u)'
  <2>1. slip' = Mark("left", {entry[e].held}) /\ UNCHANGED unit
    BY <1>7 DEF FreeStops
  <2>2. ~EntryAt(e, u)
    BY <1>1, <2>1 DEF Mark, Marked, Untouched, EntryAt
  <2> QED
    BY <1>2, <1>f, <2>1, <2>2 DEF WaitFine
<1>8. ASSUME NEW status, ResolveEntry(e, status) PROVE WaitFine(u)'
  <2>1. CASE unit' = Released(unit, entry[e].held, NoContract, e)
    BY <1>5, <2>1
  <2>2. CASE /\ status = "converted" /\ UNCHANGED unit
             /\ \E c \in Contracts :
                   /\ Draft(c) /\ contract[c].unit = entry[e].held
                   /\ entry' = [entry EXCEPT ![e].status = status, ![e].contract = c]
    <3>1. PICK c \in Contracts :
             /\ Draft(c) /\ contract[c].unit = entry[e].held
             /\ entry' = [entry EXCEPT ![e].status = status, ![e].contract = c]
      BY <2>2
    <3>2. entry'[e].contract = c /\ entry'[e].held = entry[e].held
      BY <1>a, <3>1 DEF EntryRow
    <3>3. EntryAt(e, u) => Promised(c, u)'
      BY <1>b, <3>1, <3>2 DEF EntryAt, Promised, BornOfHold, Draft
    <3> QED
      BY <1>2, <1>f, <2>2, <3>3 DEF WaitFine, Waits
  <2> QED
    BY <1>8, <2>1, <2>2 DEF ResolveEntry
<1> QED
  BY <1>3, <1>4, <1>6, <1>7, <1>8 DEF EntryStep

(* Nothing that waits is written: the units alone are.                     *)
LEMMA SameWaits ==
    ASSUME UNCHANGED <<contract, res, entry, booking>>, NEW u
    PROVE  Waits(u)' <=> Waits(u)
BY DEF Waits, Moves, Promised, HeldOnline, OpenAt, EntryAt, BornOfHold, Live, Draft, Open

LEMMA StatusWaits ==
    ASSUME SteadyInv, WaitsInv, NEW v \in Units, ChangeStatus(v)
    PROVE  WaitsInv'
<1>1. SUFFICES ASSUME NEW u \in Units, Untouched(u)' PROVE WaitFine(u)'
  BY DEF WaitsInv
<1>a. unit \in UnitType /\ unit[v] \in UnitStatus
  BY DEF SteadyInv, OccupancyInv, UnitType
<1>2. UNCHANGED <<contract, res, entry, booking, slip>>
  BY DEF ChangeStatus
<1>3. WaitFine(u) /\ (Waits(u)' <=> Waits(u))
  BY <1>1, <1>2, SameWaits DEF Untouched, WaitsInv
<1>4. \/ unit' = Reserved(v) /\ HeldByOther(v, NoOne, NoContract, NoOne)
      \/ \E to \in {"maintenance", "available"} : unit' = [unit EXCEPT ![v] = to]
  BY <1>a DEF ChangeStatus, ByHand, UnitStatus
<1>5. HeldByOther(u, NoOne, NoContract, NoOne) => Waits(u)
  <2>1. \A e \in Entries : Told(e, u) => EntryAt(e, u)
    BY DEF Told, EntryAt, Notified
  <2> QED
    BY <2>1, HeldThenWaits DEF Waits
<1>6. CASE u = v
  BY <1>a, <1>3, <1>4, <1>5, <1>6 DEF Reserved, UnitType, WaitFine
<1>7. CASE u # v
  <2>1. unit'[u] = unit[u]
    BY <1>a, <1>4, <1>7 DEF Reserved, UnitType
  <2> QED
    BY <1>3, <2>1 DEF WaitFine
<1> QED
  BY <1>6, <1>7

LEMMA InitWaits == Init => WaitsInv
BY DEF Init, WaitsInv, WaitFine

LEMMA StepWaits ==
    ASSUME SteadyInv, WaitsInv, [Next]_vars
    PROVE  WaitsInv'
<1>a. OccupancyInv /\ OwnInv /\ AgedInv
  BY DEF SteadyInv, PapersInv
<1>1. ASSUME UNCHANGED <<unit, contract, res, entry, booking, slip>> PROVE WaitsInv'
  BY <1>1, SameWaits DEF WaitsInv, Untouched, WaitFine
<1>2. CASE RequestStep
  BY <1>1, <1>2, <1>a, RequestReads, PerformWaits
<1>3. CASE OtherStep
  BY <1>3, ContractWaits, ReservationWaits, EntryWaits, StatusWaits DEF OtherStep
<1> QED
  BY <1>1, <1>2, <1>3, NextCases DEF vars

(* A unit that is out of sale is there for somebody: a move, a booking, a  *)
(* reservation or a notice whose end gives it back.  The slips it leaves   *)
(* out are the ways found in which nobody does.                            *)
THEOREM OccupancyReservedForSomeone == Spec => []ReservedForSomeone
<1>1. Init => SteadyInv /\ WaitsInv
  BY InitInv, InitPapers, InitOneLive, InitAgrees, InitWaits DEF SteadyInv
<1>2. SteadyInv /\ WaitsInv /\ [Next]_vars => (SteadyInv /\ WaitsInv)'
  BY StepInv, StepPapers, StepOneLive, StepAgrees, StepWaits DEF SteadyInv
<1>3. SteadyInv /\ WaitsInv => ReservedForSomeone
  BY ReservedForSomeoneFollows DEF SteadyInv
<1> QED
  BY <1>1, <1>2, <1>3, PTL DEF Spec
=============================================================================
